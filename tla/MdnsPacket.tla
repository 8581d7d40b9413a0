------------------------------ MODULE MdnsPacket ------------------------------
(***************************************************************************)
(* How mdns.c writes a packet into a buffer, with its compression of names *)
(* (mdns_encode_pkt), and reads one (mdns_parse_pkt).                      *)
(*                                                                         *)
(* A buffer is the sequence of the fields in it, each with its offset and  *)
(* its size in bytes: a label of a name, the root, a pointer, a number, or *)
(* bytes without a meaning of their own.  A name is the sequence of its    *)
(* labels, a label is a word.                                              *)
(***************************************************************************)
EXTENDS Integers, Sequences, SequencesExt

CONSTANTS Width,          \* Width[w]: the length of the word w
          PacketSize,     \* PACKET_SIZE
          PointerRange    \* how far a pointer reaches: 2^14 in the code

\* The records of mdns.h; "data" is what the type keeps in its union.
Rr(name, type, flush, data) ==
  [name |-> name, type |-> type, rr_class |-> 1, cache_flush |-> flush,
   ttl |-> 120, data |-> data]

\* Mutant: room for the terminating NUL is counted too.
DupLabelShort(label) == IF Width[label] + 2 > 63 THEN <<>> ELSE <<label>>

\* dup_label, which copy_label uses.
DupLabel(label) == IF Width[label] + 1 > 63 THEN <<>> ELSE <<label>>

\* create_nlabel: the labels of a dotted text, a sequence of words and dots; a
\* name ends at an empty label.
CreateNlabel(text) ==
  LET dots == {0, Len(text) + 1} \cup {i \in DOMAIN text : text[i] = "."}
      ends == {i \in dots : i = Len(text) + 1 \/ i + 1 \in dots}
      end  == CHOOSE i \in ends : \A k \in ends : i <= k
  IN  SelectSeq(SubSeq(text, 1, end - 1), LAMBDA w : w # ".")

\* join_nlabel
JoinNlabel(n1, n2) == n1 \o n2

\* rr_add_txt, of a text that create_label accepts: at most 63 bytes.
RrAddTxt(rr, txt) == [rr EXCEPT !.data = Append(@, txt)]

\* rr_create_ptr: the record has no bit for the cache, and leads to the name of
\* another record.
RrCreatePtr(name, entry) == Rr(name, "PTR", 0, entry.name)

-----------------------------------------------------------------------------
(* Writing. *)

\* mdns_write_u16, mdns_write_u32 and the copies of a label.
Write(out, kind, val, size) ==
  [out EXCEPT !.items = Append(@, [at |-> out.off, kind |-> kind, val |-> val,
                                   size |-> size]),
              !.off = @ + size]

\* One label, and the rest of the name from it on, for the names to come.
WriteLabel(out, name, i) ==
  LET o == Write(out, "label", name[i], Width[name[i]] + 1)
  IN  [o EXCEPT !.comp = Append(@, [name |-> SubSeq(name, i, Len(name)), pos |-> out.off])]

\* Mutant: a name that ends in a pointer is kept again at the pointer.
WritePointerKept(out, c) ==
  LET o == Write(out, "ptr", c.pos % PointerRange, 2)
  IN  [o EXCEPT !.comp = <<[name |-> c.name, pos |-> out.off]>> \o @]
WritePointer(out, c) == Write(out, "ptr", c.pos % PointerRange, 2)

\* mdns_encode_name: labels, until what remains was written before.
EncodeName(out, name) ==
  LET same(i) == {k \in DOMAIN out.comp : out.comp[k].name = SubSeq(name, i, Len(name))}
      stops == {i \in 1 .. Len(name) : same(i) # {}} \cup {Len(name) + 1}
      stop == CHOOSE i \in stops : \A k \in stops : i <= k
      labels == FoldLeft(LAMBDA o, i : WriteLabel(o, name, i), out,
                         [i \in 1 .. stop - 1 |-> i])
  IN  IF stop > Len(name)
        THEN Write(labels, "root", 0, 1)
        ELSE WritePointer(labels,
               out.comp[CHOOSE k \in same(stop) : \A m \in same(stop) : k <= m])

EncodeData(out, rr) ==
  CASE rr.type = "A" -> Write(out, "num", rr.data, 4)
    [] rr.type = "AAAA" -> Write(out, "bytes", rr.data, 16)
    [] rr.type = "PTR" -> EncodeName(out, rr.data)
    [] rr.type = "TXT" -> FoldLeft(LAMBDA o, t : Write(o, "label", t, Width[t] + 1),
                                   out, rr.data)
    [] rr.type = "SRV" ->
         EncodeName(Write(Write(Write(out, "num", 0, 2), "num", 0, 2),
                          "num", rr.data.port, 2), rr.data.target)
    [] rr.type = "NSEC" ->
         Write(Write(Write(EncodeName(out, rr.name), "num", 0, 1), "num", 5, 1),
               "bytes", rr.data, 5)

\* The length of the data is filled in when they are written.
WithLength(out, i) ==
  [out EXCEPT !.items[i].val = out.off - out.items[i].at - 2]

\* mdns_encode_rr
EncodeRr(out, rr) ==
  LET head == Write(Write(Write(EncodeName(out, rr.name), "num", rr.type, 2),
                          "num", rr.rr_class + 32768 * rr.cache_flush, 2),
                    "num", rr.ttl, 4)
  IN  WithLength(EncodeData(Write(head, "num", 0, 2), rr), Len(head.items) + 1)

Fits(out) == out.off < PacketSize

NothingWritten == [items |-> <<>>, off |-> 0, comp |-> <<>>, ok |-> TRUE]

WriteHeader(flags, counts) ==
  FoldLeft(LAMBDA o, v : Write(o, "num", v, 2), NothingWritten, <<0, flags>> \o counts)

WriteRrs(out, rrs) ==
  FoldLeft(LAMBDA o, rr : IF ~o.ok THEN o
                          ELSE LET n == EncodeRr(o, rr) IN [n EXCEPT !.ok = Fits(n)],
           out, rrs)

\* mdns_encode_pkt; ok is whether it returns a length.
EncodePkt(pkt) ==
  WriteRrs(WriteHeader(pkt.flags, <<0, Len(pkt.ans), 0, Len(pkt.add)>>),
           pkt.ans \o pkt.add)

-----------------------------------------------------------------------------
(* Reading. *)

HasItem(buf, off) == \E i \in DOMAIN buf.items : buf.items[i].at = off
ItemAt(buf, off) == buf.items[CHOOSE i \in DOMAIN buf.items : buf.items[i].at = off]
Read(buf, off) == ItemAt(buf, off).val

\* uncompress_nlabel: behind a pointer it expects a label.
RECURSIVE UncompressNlabel(_, _)
UncompressNlabel(buf, off) ==
  LET here == ItemAt(buf, off)
      from == IF here.kind = "ptr" THEN ItemAt(buf, here.val) ELSE here
  IN  IF here.kind = "root" THEN <<>>
      ELSE IF from.kind # "label" THEN <<"garbled">>
      ELSE <<from.val>> \o UncompressNlabel(buf, from.at + from.size)

\* label_len
RECURSIVE LabelLen(_, _)
LabelLen(buf, off) ==
  LET here == ItemAt(buf, off)
  IN  here.size + (IF here.kind = "label" THEN LabelLen(buf, off + here.size) ELSE 0)

\* The bit 0x80 of a number's second byte is cleared in rr_class, and that of
\* its first byte is the flag.
RrClass(v) == IF (v \div 128) % 2 = 1 THEN v - 128 ELSE v
TopBit(v) == v \div 32768

\* mdns_parse_qn
ParseQn(buf, off) ==
  LET p == off + LabelLen(buf, off)
  IN  [ok |-> TRUE, next |-> p + 4,
       rr |-> [name |-> UncompressNlabel(buf, off), type |-> Read(buf, p),
               unicast_query |-> TopBit(Read(buf, p + 2)),
               rr_class |-> RrClass(Read(buf, p + 2))]]

\* copy_label, for the strings of a TXT from off to end.
RECURSIVE CopyLabels(_, _, _)
CopyLabels(buf, off, end) ==
  LET copy == DupLabel(Read(buf, off))
      next == off + ItemAt(buf, off).size
      rest == IF next >= end THEN [ok |-> TRUE, txt |-> <<>>, next |-> next]
                             ELSE CopyLabels(buf, next, end)
  IN  IF copy = <<>> THEN [ok |-> FALSE, txt |-> <<>>, next |-> off]
      ELSE [rest EXCEPT !.txt = copy \o @]

\* The data of a record of length len at p: those of an A, AAAA, PTR or TXT are
\* read, the others are skipped.
ParseData(buf, type, p, len) ==
  CASE type = "A" -> [ok |-> len >= 4, data |-> Read(buf, p), next |-> p + 4]
    [] type = "AAAA" -> [ok |-> len >= 16, data |-> Read(buf, p), next |-> p + 16]
    [] type = "PTR" -> [ok |-> p < buf.off, data |-> UncompressNlabel(buf, p),
                        next |-> p + len]
    [] type = "TXT" /\ len = 0 -> [ok |-> TRUE, data |-> <<"">>, next |-> p]
    [] type = "TXT" /\ len > 0 ->
         LET t == CopyLabels(buf, p, p + len)
         IN  [ok |-> t.ok, data |-> t.txt, next |-> t.next]
    [] OTHER -> [ok |-> TRUE, data |-> <<>>, next |-> p + len]

\* mdns_parse_rr
ParseRr(buf, off) ==
  LET p == off + LabelLen(buf, off)
      type == Read(buf, p)
      len == Read(buf, p + 8)
      data == ParseData(buf, type, p + 10, len)
  IN  [ok |-> p + 10 + len <= buf.off /\ data.ok,
       next |-> data.next,
       rr |-> [name |-> UncompressNlabel(buf, off), type |-> type,
               cache_flush |-> TopBit(Read(buf, p + 2)),
               rr_class |-> RrClass(Read(buf, p + 2)),
               ttl |-> Read(buf, p + 4), data |-> data.data]]

\* A section of n questions or records, until one cannot be read.
ParseSection(section, buf, n, from) ==
  FoldLeft(LAMBDA s, k : IF ~s.ok THEN s
                         ELSE LET r == IF section = "qn" THEN ParseQn(buf, s.off) ELSE ParseRr(buf, s.off)
                              IN  [ok |-> r.ok, off |-> r.next, list |-> Append(s.list, r.rr)],
           from, [k \in 1 .. n |-> k])

\* mdns_parse_pkt: the questions and the answers, all of them or none.
ParsePkt(buf) ==
  LET qn == ParseSection("qn", buf, Read(buf, 4), [ok |-> TRUE, off |-> 12, list |-> <<>>])
      ans == ParseSection("ans", buf, Read(buf, 6), [qn EXCEPT !.list = <<>>])
  IN  [ok |-> ans.ok, flags |-> Read(buf, 2), qn |-> qn.list, ans |-> ans.list]
=============================================================================
