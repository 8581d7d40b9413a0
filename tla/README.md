# Verification of the workshop programs

TLA+ models, TLC checks and TLAPS proofs for the programs under `src/workshop`.
Everything is translated from the code of one commit; paths below are relative
to `src/workshop` and, for CoAPthon, to `src/workshop/CoAPthon/coapthon`.

## 1. The system

The repository holds small network programs and parsers used as fuzzing
targets. They do not call each other; each is a system of its own.

| part | state it keeps | operations | what is hard | properties that make it correct |
|---|---|---|---|---|
| CoAP server: `server/coap.py`, `layers/messagelayer.py`, `transaction.py`, `layers/requestlayer.py`, `layers/resourcelayer.py` | transaction tables by message id and by token, per transaction: request, response, completed, lock, retransmission event and thread, separate-response timer | receive request / empty message, run the handler, acknowledge, send, retransmit, give up, purge, close | a thread per request, a timer per request and a thread per confirmable response share a transaction; the listener and the timer do not take its lock; datagrams are lost, repeated and reordered | a request is executed once; every confirmable request is acknowledged; a confirmable response is repeated until answered, a bounded number of times; nobody waits for ever |
| Observe: `layers/observelayer.py`, `CoAP.notify` | relations by token, non-confirmable counter | register, cancel, notify, remove on RST or give-up | `notify` takes the locks of other transactions and rewrites their responses | no deadlock; every change reaches every observer; a cancelled observer gets nothing |
| Blockwise: `layers/blocklayer.py` | four tables by token of byte, number, size, payload | receive / send request and response | entries outlive abandoned transfers, byte and number are counted separately | the payload put together is the payload sent |
| CoAP client: `client/coap.py`, `client/helperclient.py` | tables of the message layer, waiting callers | send, retransmit, receive, call back, stop | receiver, retransmission and callers; no timeout by default | every call returns; a response reaches the caller that asked |
| Proxies and cache: `forward_proxy`, `reverse_proxy`, `http_proxy`, `layers/forwardLayer.py`, `layers/cachelayer.py`, `caching/` | cache of responses with age and freshness | forward, cache, validate, mark | a thread per datagram, cached Response objects are shared | a hit answers the asker with a fresh response |
| HTCPCP server: `htcpcp_server/*.c` | five pots, five connection slots | BREW, PUT, WHEN, GET, accept, refuse | a thread per connection, no lock on pots; states depend on the clock; `strtok` is shared by all threads | a method acts on the state the pot is in; everyone gets the answer to his own request; slots are reused safely |
| mDNS responder: `mdns_server/mdnsd.c` | record groups, announce and service lists, stop flag | register, answer, announce, goodbye, stop | one thread answers while others register, under a mutex held for one list at a time; the stop flag is a plain variable | a reply answers the question and suffices to use the service; every service is taken back; nothing is freed while the thread runs |
| mDNS packets: `mdns_server/mdns.c` (again in `mdns_parser/`) | the buffer, the names written so far | encode, parse | name compression, lengths filled in afterwards, limits of 63 and of the buffer | what is sent is read as it was written |
| AQL: `aql/*.c` (again in `aql_generator/`) | the record of a statement, byte code, variables and derived ranges | lex, parse, compile, evaluate, derive ranges | fixed limits; the parser moves byte code in place; productions that fail half way | what is accepted is what was written, as far as there is room; evaluation means what the query says; derived ranges lose no tuple |
| JSON: `json_parser/*.c` | stacks of depth 10 of the reader and of the writer, position, last value | next, copy value, print next, find next | both stop after every element and go on | writer, reader and search agree with the tree |
| cJSON: `cjson_example/cjson.c` | items linked by next, prev and child, the error pointer | create, add, reference, detach, replace, delete, parse, print | references share what is below; buffer lengths are computed apart from the text | links stay consistent, everything is freed once; printing and parsing are inverse |
| Rest | | | | the HTCPCP client, `test_cmp`, `test_random`, `_shared_` have no state worth a model |

`PROJECT.json` lists the same parts with their files under `components`, and
under `hazards` the lines where each of these difficulties bites.

## 2. Modules

| module | what it is |
|---|---|
| `CoapExchange` | the exchanges of the CoAP server, thread by thread |
| `RequestReply` | what the server promises for a request, with no threads |
| `CoapExchangeRefinement` | the mapping from the first to the second |
| `MCCoapExchange` | instances for TLC |
| `CoapExchangeProofs` | types, and at most two executions, proved |
| `CoapExchangeThreads` | who holds a lock, what retransmissions do, that separate responses follow the acknowledgement, proved |
| `CoapExchangeRefinementProofs` | the threads implement `RequestReply`, proved |
| `CoffeePot` | a pot of the HTCPCP server and what `getState` makes of it, no variables |
| `HtcpcpServer` | the accept loop, its slots, the threads and the pots they share |
| `HtcpcpServerProofs` | types, every thread owns its slot, answers are own, proved |
| `MCHtcpcpServer` | instances for TLC |
| `MdnsRecords` | the records of the responder, their lists and groups, no variables |
| `Mdnsd` | the responder thread and the threads that register and stop |
| `MdnsdProofs` | what packets hold, stopping is safe, every service takes leave, proved |
| `MdnsPacket` | encoding and parsing of packets, no variables |
| `MdnsWire` | a packet put together, sent and read |
| `MCMdnsd`, `MCMdnsWire` | instances for TLC |
| `AqlLexer`, `AqlParser` | lexer and parser of AQL and the record a statement becomes |
| `LogicVm` | building, running and searching the byte code of predicates |
| `AqlStatements` | statements, the texts they are written as, and what the parser makes of them |
| `MCAqlStatements` | instances for TLC |
| `JsonParse`, `JsonTree` | the JSON reader; the writer and the search |
| `JsonPipe` | a tree printed, read again and searched, call by call |
| `MCJsonPipe` | instances for TLC |
| `CJsonItems` | the items of cJSON in memory and their caller |
| `CJsonLists` | what that promises: items with lists |
| `CJsonItemsProofs` | links are mirrored and all can be given back, proved |
| `CJsonListsProofs` | the links implement the lists, proved |
| `CJsonText` | parsing and printing of cJSON, no variables |
| `CJson` | an item printed and a text parsed |
| `MCCJson` | instances for TLC |

### CoapExchange

*Threads.* The listener is `lpc`, with the transaction in hand in `lreq` and
whether it reacts to a RST in `lrst`. A worker is a pair `<<request, n>>`: the
n-th `receive_request` thread started for that request's transaction, at
`wpc`. With it go its separate-response timer (`timer`), the Response object it
builds (`rtype`, `rmid`, `racked`, `rrej`, `gaveUp`) and the retransmission
thread of that response (`rpc`, `cnt`). `cur[r]` says whose Response is
`transaction.response`, because a second worker replaces the object while the
retransmission thread of the first keeps its own.

*Atomicity.* A step is what runs between two accesses to state that another
thread may write: the two tests of `transaction.completed` in `listen` are two
steps, and so are the test of `acknowledged` in `_send_ack`, its assignment and
the datagram; `retransmit_stop is not None` and `.set()`; the read of the id
counter and its advance (`+=` and `%=` are one step). What a thread does while
nobody else can see it is merged. `with transaction` in the listener's handling
of empty messages is taken and released in one step: nothing in it waits. The
setters of a response clear each other: `acknowledged` and `rejected` clear
`timeouted`, which is one step (`SetAcknowledged`, `SetRejected`), because no
thread acts on the middle of it. Setting `timeouted` clears the two others, and that is
three steps of the retransmission thread: the test, the mark, the clearing
(`RetransmitTests`, `RetransmitGivesUp`, `RetransmitForgets`). An answer that
comes between the first and the last is lost, and one that comes later makes an abandoned
response an answered one.

*Environment.* One peer endpoint, so that a message id stands for the key (host,
port, mid); no two keys collide, but requests may have the same id, and the
counter of the server may come to one of them. At any time the listener may
receive any request of the peer, again and again, any empty message of
`EmptyTypes`, and, with `CanGarble`, a datagram that cannot be read, which it
answers with a RST that takes an id. ACK and RST carry an id the server has put
on the wire, or one of `StrayIds`; an empty CON or NON carries an id that is not
one of the peer's requests. That covers loss (nothing arrives), duplication and
reordering. `OddReq` are requests with a method code the request layer has no
branch for. Responses that arrive are only logged, and are not modelled. Time is
not modelled: a timer that is armed may fire at any moment, a wait for an answer
may end at any moment. A handler returns, raises, or returns the callback of a
separate response, or runs for ever unless a run assumes otherwise.

*Serialising.* A response whose type is still None raises TypeError, which
`listen` does not catch. One that has a type but no id is caught in `serialize`,
and a datagram leaves whose fields are 0: it is nobody's ACK and no response.

*Left out.* Requests carry a token, and neither Observe nor Block options;
`purge` does not run within an exchange (EXCHANGE_LIFETIME is 247 s, an
exchange with four retransmissions lasts at most 93 s); `Close` sets the events
of all transactions in one step.

*Bounds.* `MaxRx` datagrams, `MaxWorkers` workers for a transaction,
`MaxRetransmit` copies (4 in the code), `MidSpace` ids (65535 in the code). The
proof below shows that a third worker is never started, so `MaxWorkers = 3`
cuts off nothing. One or two copies distinguish the first, a middle and the
last pass of the loop. Three datagrams are a request, a duplicate of it that
meets the first execution, and an answer, in any order. `exchange_one` leaves
the server open and `exchange_two` lets it close, because with both, and
liveness, TLC takes too long. In `exchange_two` two requests have the id that
the counter begins with and the third has the next, so that the response of one
replaces the entry of another.

### Refinement

`RequestReply` has per request a phase (idle, working, failed, replied,
waiting, answered, abandoned), the number of copies beyond the first, and
whether the server was closed. `CoapExchangeRefinement` maps the first
execution of every request to it: working from the start of its worker, waiting
from the moment a confirmable response has its id, answered when the listener
marks that response acknowledged or rejected, abandoned when the retransmission
thread has found that it is not. `AnswerLate` of `RequestReply` is an answer after
that. `KeepsPromise` is the abstract
specification under this mapping. `EveryRequestSettles` is its liveness together
with `ThreadsEnd`: no worker and no retransmission thread waits for ever.

### HtcpcpServer

*State.* `main` is at `mpc` with `curThread` in `cur`; the thread started for a
connection is at `tpc`, with the slot it was given and the locals of `getState`
and of the method it runs. `sock` and `busy` are the fields of `threadVars`,
`pots` the array `Pots`. `got`, `ended` and `closed` record what the
world outside sees: the answer written to a connection, the brews whose cup was
served or thrown away, the connections closed. `mixed` are the connections whose
parsing another use of `strtok` got into.

*Atomicity.* Nothing is locked, so every field group a thread reads or writes
is a step of its own: the clock, `cupWaiting`, `finBrew` and the fields that
describe the pouring in `getState`; `finBrew`, `cupWaiting` and the rest in
`resetPot`; `finBrew`, the additions, `cupWaiting` in `brew`. The loads of
`startPour`, `addUnitsPerSec` and `additionsAdded` are one step. When a put of
another thread moves `startPour` beyond the time `getState` took, the function
ends without a return statement: `Garbage`. In `main`, the scan of each
`busy`, `accept`, the assignment of `busy` and `pthread_create` are steps.

*Environment.* A client connects or not, sends one request or closes, and may
close while it waits for the answer; `accept` and `pthread_create` may fail
(`MayFail`). A write to a client that has closed fails or not. The clock moves
one second at a time between any two steps, up to `MaxTime`.

*Parsing.* A request is a method, a pot, the units of its additions and its
form: `full`, `bare` (no Accept-Additions, and the array is read uninitialised) or
`broken` (a line or an addition without a separator, whose missing place is
dereferenced). `strtok` keeps its position in one static variable. A thread that
parses while another one uses `strtok`, to parse, to validate additions or to
serve them, may go on in the other's text or in what is left of it, and may end
the process on a line that is none (`ParserDies`). Its first line is found before
it asks for a second one and is its own, so method and pot are. Which additions
it gets is not modelled: whether `validateAdds` likes them is left open, the more
so as it reads behind them what is uninitialised. Only the upper bound of a pot's
number is tested: with a negative one the methods work on what is in front of
`Pots` (`WorksAstray`). They answer anything they may or end the process; what
they write there, which may be `threadVars`, is not modelled.

*Left out.* `timePoured`, `addsCalced` and
the text of the coffee, which no property is about. `BrewSecs`, `ColdSecs` and
`FreeUnits` are 15, 60 and 100 in the code; the runs take 1 or 2, so that a
cup is brewed, cold and overflowing within the time of a run. The clock starts
at 10 so that no time of a run is 0, which the code uses for "not yet".

*Bounds.* `POTCNT` is the number of slots and of pots; they are separate
constants here. Two slots and three connections are a slot reused while another
is occupied. One slot serialises the requests: what `StatusIsCurrent` says is
true of one request at a time only, since with five slots and no lock another
thread may change the pot between `getState` and what follows (`HtcpcpBrews`
shows what comes of it). `htcpcp_two` has the race, and checks what is true in
spite of it. Every pot
starts from one of `InitPots`, what earlier connections may have left in it
(coffee brewed `Before`), so that two requests and one second reach every state
of a cup.

### Mdnsd

*State.* `group`, `announce`, `services`, `hostname` and `stop_flag` are the
fields of `struct mdnsd`; `group` maps a name to its records. The responder
thread is at `pc` with `pkt`, `reply` and its places `i`, `j` in the lists it
walks. `sent` is the last packet, `zeroed` the records with a ttl of 0, `stopper`
where `mdnsd_stop` is. A record is known by its address in the code, and by its
service and type here.

*Atomicity.* `data_lock` is taken for one list at a time, so every call of
`populate_answers`, every record taken off the announcements, the filing of all
records of a service and the goodbye are steps. Between any two of them another
thread may register a service, set the host name, add a record or stop.

*Environment.* The workshop took the socket out: the thread takes its packet
from a global buffer, which may be filled up to `MaxPackets` times with any of
`Packets`, and the process ends when it finds the buffer empty. The host name is
set once. Nobody registers while or after `mdnsd_stop` runs, as in every use of
the library. Names of hosts and services are what they are registered under;
the same instance is not registered twice. `mdns_encode_pkt` returns -1 when a
packet does not fit, which the responder does not look at; `Send` and `Goodbye`
take it that packets fit, which those of two services do. `MdnsWire` has the ones
that do not.

*Fairness.* The responder thread runs on, and so does a thread that waits in
`mdnsd_stop`, which sleeps and looks again. Nothing else is assumed.

*Bounds.* Two services of one type, one with and one without TXT strings, are
enough for the list of a type to grow while it is walked. Three packets are two
queries with registrations between them and one more while it is stopped. The
packets of `MCMdnsd` ask for a type, for everything, for unicast, with known
answers above, at and below half of their lifetime, and for nothing that can be
answered.

### MdnsPacket, MdnsWire

A buffer is the sequence of the fields in it, with their offsets and sizes:
labels, roots, pointers, numbers, and bytes nobody looks into. Offsets are
bytes, so pointers, lengths and the limit of the buffer are exact. `MdnsWire`
puts up to `MaxRecords` records into each section, encodes, and parses. What
other hosts send is written without compression. `PacketSize` is 65536 and
`PointerRange` 16384 in the code; 220 and 200 here, so that packets of four
records do not fit and pointers do not reach. The properties say what the code
does at its edges: strings of 63 bytes are made but not read (`Refused`), the
flag in the class and the data of SRV and NSEC are not interpreted (`AsRead`).

### AQL

`AqlLexer` works on lexemes, not letters; the table `skip_hint` by which
keywords are found is kept, by the length of the words. In `AqlParser` every
production is an operator from the parser's state to the next, with the status
it returns and what its caller makes of it: statuses that are dropped, returned
as 0 or taken for success are. What the C functions write as a sequence of
`CONSUME`, `PARSE` and assignments is a list of the names of these things, which
`Run` walks with `Step`; a loop or a test in the middle of a function is an
operator that is given the state reached so far. `LogicVm` keeps the byte code
as nodes and counts their bytes where the code compares with its buffer. In
`AqlStatements` somebody means a statement and writes it (`Write` is the
grammar, as a printer), with up to `MaxEdits` lexemes forgotten, put in or
mistaken.

*Limits.* Columns and values beyond `AttributeLimit` are dropped and the status
that says so is not looked at; a STRING's size is cut to a byte. Relations beyond
`RelationLimit` and aggregates beyond `AttributeLimit` are written behind their
arrays: the record is `overrun` then, parsing goes on, and what the record says
is left open. `AcceptedAsWritten` says all of this: every statement that follows
the grammar is accepted, and the record has what `Kept` says, or is overrun
exactly if it has no room (`HasRoom`). `LONG_MIN / -1` ends the process (`TRAP`).

*Bounds.* `RelationLimit` is 3 as in the code, `AttributeLimit` 4 (5 in the code),
and `TooLong` has statements beyond each. `VariableLimit` is 3 as in the code;
predicates with more variables, for which `lvm.c` writes past its arrays, are not
modelled. `LongMax` 3 is a long of three bits, which makes every valuation of
three variables checkable and lets sums and products wrap. `OperandBytes` 12,
`CodeBytes` 128 and `CharBytes` 64 are those of a 32-bit build. `MCAqlStatements`
has every type of statement with every kind of member, and predicates of one to
three comparisons with every operator and both connectives. `MaxEdits` is 1. Names
are no longer than `RELATION_NAME_LENGTH` and `ATTRIBUTE_NAME_LENGTH`, and the
strings of a statement together fit `char_buf`.

*Restrictions.* `NothingSkipped` is about records that are not full, and about a
statement with a predicate only up to its WHERE: in a predicate, strings compile
to nothing, a right parenthesis is swallowed and statuses are dropped
(`aql-parser.c:439`, `aql-parser.c:568`); a list of values is shown to be skipped
by `AqlValues.cfg` (`aql-parser.c:259`). `MeansWhatItSays` is about predicates with
at most one operator on each side of a comparison and no brackets. With more the
code is wrong: `parse_expr` puts the second operator in front of the last operand
only (`AqlChains.cfg`: a + b - 1 < 2). A bracketed expression is rejected or needs
one more bracket, because the right one is taken for a part of the expression
(`aql-parser.c:311`, `aql-parser.c:429`). `RangesAreSound` is about comparisons of a
variable with a number, joined by AND or about one variable; a union of ranges of
different variables is not sound, because each range is narrowed by a comparison
that need not hold.

### JSON

`JsonParse` and `JsonTree` are the two files, function by function, on
characters; `JsonPipe` prints a tree one `jsontree_print_next` at a time, reads
it one `jsonparse_next` at a time as `test_json.c` does, and searches it.
`Rendered`, `ElementsOf` and `Below` define over the tree, with no stack, what
the three walks must give. `MaxDepth` and `ReadDepth`, the depths
of the arrays of the writer and of the reader, are 10 in the code and 5 here. The
writer's are not left by the trees of `MCJsonPipe`, which have up to `MaxDepth`
levels. The reader counts a pair as a level as well, so some of them are too deep for
its stack, whose end it does not respect (`jsonparse.c:40`): reading ends there
(`OVERRUN`), as it does when it would go on behind the NUL (`BEYOND`).

`Readable` says which trees the reader can follow. It knows no negative numbers,
begins with an object, and loses a pair whose value is a container that ends
without an atom. The writer escapes quotes but no backslashes
(`jsontree.c:75`), so a string that ends in one, or has one in front of a quote,
is read past its end (`Quotable`). For trees without such strings
`ReadsNothingElse` says that whatever is read is in the tree.

### cJSON

`CJsonItems` is the heap: items with `next`, `prev`, `child`, and a caller who
holds roots and calls any function in any order, with calls of `malloc` that
fail where the code looks at the result. The caller keeps the rules of the
header, among them that what a reference shares outlives the reference
(`Shared`). `CJsonLists` has no links, only lists, and `ImplementsLists` checks
that the first implements the second. Four items are a container with three
items or two levels, enough for the head, a middle and the tail of a list.
The loops of the code are recursive functions: `Walk` is where `cJSON_GetArrayItem`
is after so many items, and `Deleted` the set `cJSON_Delete` has come by when it
comes by no more, which is after as many rounds as there are items. Being a set,
it does not tell an item that is freed twice; `AllGivenBack` therefore asks that
to no item lead two links. With that there is also no cycle that it would follow
for ever.

`CJsonText` parses and prints tokens; `CJson` prints an item of `MCCJson` in one
of the two formats, changes at most one token, and parses. Numbers have up to
six digits, which `%g` prints exactly. `Lexed` leaves out texts with incomplete
escapes, fewer than four digits behind `\u` and a backslash at the end: there
the parser steps over the NUL (`cjson.c:249`, `cjson.c:272`) and reads what is
behind the text. Nothing is claimed of them; `Stable` is about texts whose
escapes are complete.

## 3. Runs

| run | configuration | shows |
|---|---|---|
| exchange_one | one confirmable request, 3 datagrams of every kind, garbled ones too, 2 copies, handlers that hang, raise or end, `FairSpec` | `TypeOK`, `LockDiscipline`, `AtMostTwoExecutions`, `SeparateOnlyAfterAck`, `RetransmissionIsSound`, `EventuallyAcked`, `ListenerReturns`, `EveryRequestSettles` |
| exchange_two | a confirmable request, a non-confirmable one and one of an unknown method, ids that collide with the server's, 3 datagrams, closing | `KeepsPromise` |
| htcpcp_one | one slot, two clients that may leave, all methods, used cups, one second, `FairSpec` | `TypeOK`, `StatusIsCurrent`, `ServesForEver` |
| htcpcp_two | two slots, three clients, requests that are broken, name no pot, or are parsed at the same time | `OwnSlot`, `OwnAnswer` |
| aql | every kind of statement, too long ones too, one mistake | `TypeOK`, `AcceptedAsWritten`, `NothingSkipped`, `MeansWhatItSays`, `RangesAreSound` |
| mdnsd | two services, three packets, stopping at any time, `FairSpec` | `TypeOK`, `AnswersTheQuestion`, `UsableAtOnce`, `GoodbyeToAll`, `FreedWhenIdle`, `StopReturns` |
| mdns_wire | two records in each section, nearly full buffers | `RoundTrip`, `CanBeWalked` |
| json | trees with every kind of value and with backslashes, up to as deep as the writer goes | `PrintsTheTree`, `ReadsTheTree`, `FindsAll` |
| cjson_items | four items, failing malloc | `LinksMirror`, `AllGivenBack`, `ImplementsLists` |
| cjson_text | items of three levels, both formats, one changed token | `RoundTrip`, `Stable`, `ErrorLeadsThere`, `Fits` |

Some invariants are made of parts: `RetransmissionIsSound` is
`AtMostOneLateCopy` (an answer stops the copies), `GiveUpOnlyWhenExhausted` and
`EventWhileRetransmitting` (the listener can wake the thread);
`ServesForEver` is `EveryoneAnswered` and `SlotsComeBack`, both for as long as
the process lives: a client that leaves early, a failed write and a line the
parser does not expect end it; `TypeOK` of `Mdnsd`
contains `CountersMatch`, that the header counts what is in the packet;
`CanBeWalked` contains `PointersLand` and `LengthsLead`; `PrintsTheTree` and
`LinksMirror` contain the types of their modules, `ReadsTheTree` says both what
is read and which trees are read to the end. The goal of `ListenerReturns` is the
socket itself. It starts where the listener waits for a lock or acknowledges a
duplicate; from where an exception may end it, `ListenerSurvives` is the question.

Two runs show the code doing what its own comments exclude; each is a finding
in `PROJECT.json` with the line and the quotation:

| run | property violated | what happens |
|---|---|---|
| exchange_listener | `ListenerSurvives` | the listener resends a response that has no type yet and dies of a TypeError |
| cjson_planes | `PairsAreTranscoded` | bit 16 of a surrogate pair's character is set, not added: d840 de00, U+20200, is read as U+10200 |

Seven more configurations are kept for running by hand. Each has one
counterexample to look at:

| configuration | property violated | what happens |
|---|---|---|
| CoapExchangeTwice | `AtMostOneExecution` | a duplicate falls between the two tests of `completed` and the handler runs again |
| CoapExchangeFresh | `FreshMids` | two workers fetch the same id |
| CoapExchangeStray | `ListenerSurvives` | the peer answers an id no response has: an ACK and a RST with the id of its own request make the listener dereference None |
| HtcpcpBrews | `NoBrewLost` | two threads find the pot ready, the second brew overwrites the first |
| HtcpcpPours | `LongPourOverflows` | the rate of pouring is always 0, no cup overflows |
| AqlChains | `ChainsMeanWhatTheySay` | the second operator of an expression is put in front of its last operand |
| AqlValues | `ValuesNotSkipped` | a list of values that fails after a comma is accepted, the rest of it skipped |

Further disagreements are in the models, without a run: an empty message that
answers nothing sets `retransmit_stop`, and the remaining copies leave without
waiting (`messagelayer.py:188`); with ids of peer and server in one range, an id
given out by the server replaces the entry of a request (`messagelayer.py:253`),
and a duplicate of that request is then taken for one of another; the event of
`retransmit_stop` may be None when the listener calls `set` on it
(`messagelayer.py:188`); the accept loop looks at the slots before it waits for
a connection and refuses the next one with "TOO MANY CONNECTIONS" although all
are free (`htcpcp_server.c:286`); a client that closes without a request ends
the process (`htcpcp_server.c:163`), and so does a request without the
separators its parser looks for (`htcpcp_server.c:67`, `htcpcp_server.c:71`);
`mdns.c:611` and `mdns.c:647` clear bit 0x80 of the class where the flag is the
bit 0x8000; the additional records of a packet are never read (`mdns.c:790`);
`create_label` makes strings that `dup_label` refuses (`mdns.c:65`); the error
pointer of cJSON may be one token in front of the mistake.

*Fairness.* `FairSpec` assumes that each thread that can run eventually runs:
weak fairness of the listener's internal steps, and of each worker, timer and
retransmission thread. Python schedules its threads fairly, timers and waits
with a timeout fire, and a retransmission thread holds the lock a bounded time,
so no stronger assumption is needed. Nothing is assumed of the network, of the
peer or of `close`. That handlers end is a property of the application:
`ListenerReturns` and `EveryRequestSettles` have it as their premise
(`HandlersEnd`), and `EventuallyAcked` does not need it. In `HtcpcpServer`,
`main` and every thread run on, and a client that connected sends or closes:
`read` has no timeout, so a silent client keeps its slot. That clients connect,
leave, that calls fail and that time passes is never assumed. The fairness of
`Mdnsd` is given with the module; the other modules are sequential and have
none.

## 4. Proofs

Each module of proofs EXTENDS the one before it in the lists below, so that the
invariants add up.

### CoapExchange

For every set of requests, id space and bound allowed by `ExchangeAssumption`:

* `TypeCorrect` (`Spec => []TypeOK`). `TypeOK` alone is not inductive: that
  `register` puts a key into the table needs that the worker has fetched an id
  (`Addressed`), and that the count stays within `MaxRetransmit` needs that a
  thread that waits has copies left (`RetriesLeft`). `TypeInv` is the three.
* `ExecutedAtMostTwice` (`Spec => []AtMostTwoExecutions`). A second worker is
  started only between the listener's two tests of `completed`: at the first it
  was false, at the second true. The invariant `ExecutionInv` says that between
  the tests there has been one worker, that two workers mean a completed
  transaction, and that a request once in the table stays in it. `completed`
  never becomes false again, so the gap cannot be hit twice. Most steps do not
  touch these variables; `ExecutionFrame` says so once for all of them, and the
  other proofs have a frame of the same kind.
* `LocksAreDisciplined` (`Spec => []LockDiscipline`). `LockDiscipline` counts
  the threads inside; `LockInv` says the same with quantifiers and one thread
  at a time, and is inductive because each step of a thread takes one lock for
  itself, gives back the one it has, or leaves all alone (`LockTaken`,
  `LockGiven`, `LocksKept`).
* `RetransmissionsAreSound` (`Spec => []RetransmissionIsSound`). One part of
  `RetransmissionInv` per claim: a copy that left late was the last
  (`LateIsLast`: its thread is past the test that stops it), a thread at its
  end has a reason (`EndsForAReason`), and the event is there as long as the
  thread is (`EventWhileAlive`). The last needs that a worker starts its
  retransmission before it ends, once (`RetransmitsLast`).
* `SeparateFollowsAck` (`AnswersOnly`, which is `StrayIds = {}`, implies
  `Spec => []SeparateOnlyAfterAck`). `acked` may also be
  set by an empty message of the peer. That it does no harm needs `AckInv`: an
  id in the table that is no request's, and an id that was sent, lead to a
  transaction whose acknowledgement is under way already (`OwesNoAck`). Under
  way is not a variable but a place in some thread; `AckGoesOn` says that each
  such place is left only by sending. `ResponseInv` orders what a worker does
  to its response. Ids of peer and server may coincide.
  A peer that acknowledges its own request would spoil it, hence `AnswersOnly`.
* `ThreadsKeepPromise` (`AnswersOnly` implies `Spec => KeepsPromise`), the
  refinement of `RequestReply`: the initial states map to its initial states,
  and each step maps to a step of it or to a stutter (`StepIsAllowed`, with one
  lemma for the listener, one for `close`, one for the threads of a request).
  Three invariants go into it beside those above. `OrderInv`: a second worker
  gets the lock only when the first has ended, so that the transaction's
  response changes hands once. `IdInv`: an id that was sent leads to a
  transaction with a response. `FirstUnanswered`: the first worker's response is
  not answered before it has an id; without it a request might be answered
  before it waits.

### HtcpcpServer

For every number of slots, pots and connections allowed by `ServerAssumption`:

* `ThreadsOwnTheirSlots` (`Spec => []OwnSlot`). The invariant `SlotInv` adds
  what `main` knows between finding a slot and starting its thread: no thread
  runs in it (`MainHasSlot`), the connection in it has none yet
  (`MainHasConn`), and it is marked before the thread starts (`MainIsBusy`).
  Everything a thread does from its first read to the close of its connection
  is one kind of step for the invariant (`RunsOn`), the release of the slot is
  the only other.
* `ServerTypes` (`Spec => []TypeOK`). A thread reads `pots` at the index that
  stands in the request of the connection in its slot: that this is a pot needs
  `OwnSlot`, and that the thread was asked for a pot there is (`PotChosen`).
* `AnswersAreOwn` (`Spec => []OwnAnswer`). `AnswerInv` says that an answer suits
  the request from the moment it is made (`Suits`), and follows it through the
  thread to the connection: a thread past that moment has an answer, one past
  its write has written it, if the process still runs.

That accepted coffee stays in its pot is proved for no number of slots above one,
because it is false: `HtcpcpBrews` is the counterexample.

### Mdnsd

For every set of services, packets and number of packets:

* `FreedSafely` (`Spec => []FreedWhenIdle`). `FlagPassed` follows the stop flag
  from `mdnsd_stop` to the thread and back: only the thread writes 2, only at
  the end of `main_loop`, and nobody writes it after that. Without the values
  of `stopper` and `pc` in it the invariant is not inductive, because `mdnsd_stop`
  writes 1 whatever the flag was.
* `EveryServiceTakesLeave` (`Spec => []GoodbyeToAll`). `LeaveTaken` holds from the
  end of `main_loop` on; no service can be registered after that, because the
  thread that registers is the one that is in `mdnsd_stop` by then, which is
  `FlagPassed` again.
* `PacketsAreCounted` (`Spec => []TypeOK`). `TypeOK` speaks of the packet that
  left; the invariant `Shapes` says the same of every list, and of the reply
  while it is made: its counters count, and nothing is in it twice. What an
  operator does to a list is stated once for each (`AppendSound`,
  `RemoveSound`, `GroupAddSound`, `PopulateSound`, `FiledSound`). Dropping
  known answers and answering from the group both go through `Kept`, what a
  walk picks from a list; `KeptIsSublist` says that it holds the members picked,
  once each. It rests on `RanksAreAll`, that the ranks of a set of n places are
  1 to n.
* `ServicesAreUsable` (`Spec => []UsableAtOnce`). Four invariants beside
  `Shapes` and `FlagPassed`. `FiledWhole`: a service is filed with all its
  records in one step, and the host before it. `FromGroup`: what is in a reply
  is in the group, for as long as the reply is made; here `FlagPassed` is
  needed, since the group is emptied when the thread has ended. `SecondIsSrv`:
  only an SRV has a second list to ask for. `Followed`: the records
  `add_related_rr` has passed have what belongs to them in the reply. A record
  appended to the list that is being walked stands behind the place of the walk,
  so it is passed later; that is why the second walk is not upset by the lists
  it makes longer.
* `RepliesAnswerQuestions` (`Spec => []AnswersTheQuestion`). `Answered` says
  from the first question on that each answer belongs to a question, and from
  the dropping of known answers on that the asker lacks it. The code decides by
  the first known answer that matches a record; that there is a first is
  `LeastElement`, which is proved from what the library says of the subsets of a
  finite set.

### CJsonItems

For every number of items (`ItemsAssumption`), every set of names and of types:

* `LinksAreMirrored` (`Spec => []LinksMirror`) and `EverythingIsGivenBack`
  (`Spec => []AllGivenBack`). Both follow from one invariant, `Sound(node, held)`:
  links have their types and are mirrored (`Linked`), a list has one owner
  (`OneOwner`), what is held is in no list (`Loose`), a reference was made of an
  older item and has its child (`Shares`), and everything can be reached from what
  is held (`Spanned`). TLC has checked it on the instance of `cjson_items`.
* `Spanned` says that no smaller set has the held items and is closed under links,
  and so excludes cycles: a cycle nothing leads to could be left out
  (`NoWayBack`). `LinksMirror` alone would allow one. What `cJSON_Delete` frees is
  characterised likewise, as the least closed set with its item (`DeletedIs`), so
  that the proofs do not speak of rounds.
* What each function does to the links is stated apart from how it does it:
  `InsertSound`, `DetachSound`, `DeleteSound`, `NewSound`, `RenameSound` say of any
  sound memory that it stays sound when an item is put into a list, taken out,
  freed, made, renamed. `AddSound`, `DetachIs` and `ReplaceIs` then show that the
  assignments of `cjson.c` come to that. `cJSON_ReplaceItemInArray` is an insertion
  before the old item, a detachment and a deletion.
* `DeleteSound` needs that no reference was made of what is freed. The caller sees to
  it (`Untouched`), and that he leaves a reference's list alone is needed once more in
  `InsertSound` and `DetachSound` (`Unshared`): the first of a list is found through
  the owner, and a reference would keep the old one. `Original` says why it is enough
  to look at what references were made of directly.
* That a walk ends (`WalkEnds`) is the pigeonhole principle: its items differ, because
  each has one before it, and there are only so many. The induction on numbers that this
  and `DeletedIs` need is proved as `Induction`, for sets, from the well-foundedness of
  the subsets of finite sets.
* `LinksImplementLists` (`Spec => ImplementsLists`): every step is one of
  `CJsonLists`, or leaves all lists alone. The lists of a memory are `Kids(node)`, and a
  list is what one finds by following `next`; `KidsAre` turns that round: a function
  that for each item without a reference is a chain from its `child` to an end is
  `Kids`. With it `InsertKids`, `DetachKids`, `DeleteKids` and `NewKids` say what each
  change of links does to every list at once (one gets or loses a place, all others
  stay), and one lemma for each action (`AddLists` to `DeleteRootLists`) puts them
  together, `cJSON_ReplaceItemInArray` from three of them. `CJsonLists` deletes all
  that can be reached through lists, `cjson.c` what its recursion visits: `BelowIs` and
  `WholeIs` show that these are the same items.

### Only model-checked

* Liveness (`EventuallyAcked`, `ListenerReturns`, `EveryRequestSettles`,
  `ServesForEver`, `StopReturns`): the prover does not reach fairness.
* AQL, JSON, `CJsonText`, `CJson`, `MdnsPacket` and `MdnsWire`: their operators are
  declared RECURSIVE, and the prover has no SMT backend in a module that reaches
  such an operator. They are checked against definitions over bounded inputs.

## 5. What is left

In this order:

1. `CoapObserve`, composed with a reduced `CoapExchange`: relations, the changed
   flag, workers that hold a lock and want others.
2. `CoapClient` and `HelperClient`: sender, receiver, retransmission thread and
   blocking callers, against an abstract call that returns.
3. `BlockTransfer`: both ends of a blockwise transfer over a lossy channel.
4. `ProxyCache` and `ForwardProxy`.

## 6. Not modelled, and why

* CoAP: `purge` and exchanges that outlive EXCHANGE_LIFETIME, tokenless requests,
  Observe, blockwise transfers, the clients, the proxies and their cache. Each
  would be a system of the size of `CoapExchange`.
* Message formats (`serializer.py`, `messages/`, `utils.py`): what the model needs
  of them (what comes of serialising a response without type or id) is in it.
* Resources: containers of attributes; a handler's outcomes are in
  `CoapExchange`.
* mDNS: sockets and pipes; the return of the harness, which waits for the
  buffer to become empty and ends the process while the responder still parses
  (`test_mdns_server.c:139`); packets that end within a record.
* HTCPCP: the additions themselves, the text of the coffee, the memory before
  the first pot.
* AQL: names longer than their arrays, more variables than there is room for,
  what is overwritten behind an array, code that fills its buffer, float operands,
  the printing of code.
* JSON: what is found behind the reader's stack or text once it is past their
  ends; trees deeper than the writer's arrays, which it does not refuse; comparing
  and converting the value of an element.
* cJSON: numbers of more than six digits, incomplete escapes, `malloc` that fails
  in the parser, the printer and the array constructors (the last go on with a
  null pointer), and the name that `cJSON_ReplaceItemInObject` does not free.
* The second copies (`mdns_parser/mdns.c`, `aql_generator/`), the HTCPCP client
  (one request, one answer), the demonstration targets, the example CoAP
  programs and the scripts.
