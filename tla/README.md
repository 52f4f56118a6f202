# A TLA+ model of libfds

libfds (Flow Data Storage) is a C/C++ library for IPFIX flow data: it parses
messages and records, keeps the templates of exporters and the definitions of
Information Elements, filters and converts records, and stores them in FDS files. It
starts no threads of its own. What makes it hard is history and sharing: templates
are shared between snapshots of different Export Times and freed by whoever comes
last; a file is written by one process, read by others, appended to by a third, and
left behind by any of them; definitions are replaced under templates that use them;
and iterators, filters and parsers keep a position between calls.

This directory holds TLA+ modules for the parts of the library that keep state or
decide something, the TLC configurations that check them, and proofs about four of
them: who owns a template, and what of the template manager's history may still change;
where a writer puts its blocks and that it keeps every record; what definitions do to a
template; and where iterators may go in a message. `PROJECT.json` relates every
definition to the lines it models.

    cd tla
    tlc -config tm_udp.cfg MCTemplateManager      # see the table of runs below
    tlapm TemplateOwnership_proofs.tla            # and the other *_proofs modules

Contents: 1 inventory, 2 modules, 3 runs, 4 bounds and views, 5 fairness,
6 proofs, 7 disagreements with the code, 8 what is not modelled, 9 plan.

## 1. Inventory

### Template manager (`src/src/template_mgr`)

*State.* `struct fds_tmgr`: the type of the Transport Session (UDP, TCP, SCTP,
FILE) and what it allows; a doubly linked list of snapshots, from the oldest to the
newest Export Time; the selected time and snapshot; lifetimes of templates and
snapshots; the IE manager; a list of garbage. A snapshot is a two-level table from
template ID to a record: a pointer to a template and flags, of which `CREATE` (first
added in this snapshot) and `DESTROY` (this snapshot frees it) decide who owns the
template. Export Times are 32-bit and wrap around.

*Operations.* Select a time (creates, clones or finds a snapshot, going back in
history where the session allows it), add, withdraw and remove templates, set a flow
key, take a snapshot for reading, collect garbage, change lifetimes or the IE
manager, clear.

*Interaction.* The user keeps pointers to frozen snapshots and their templates until
it destroys the garbage it was handed; the parsers and the file storage look up
templates in snapshots.

*Hard.* Late messages edit the past, and the change is carried to newer snapshots
only when the past is left; every template is referred to from many snapshots and
must be freed exactly once; expiry, redefinition and withdrawal stop the carrying;
the change of IE manager copies a hierarchy of shared templates.

*Correct when* a template has one owner, nothing reachable is freed, nothing is lost,
garbage may be destroyed at any time in order, a frozen snapshot never changes, and
what is seen at a time is what messages up to that time defined.

### File storage (`src/src/file`)

*State.* On disk: a header, which points to the Content Table or to nothing while a
writer is at work; Session, Template and Data Blocks; the Content Table. In a writer:
known sessions, a context for every session and ODID with its templates and two
buffers, the offset of the next block, the table to be. In a reader: the table
(loaded or rebuilt from the blocks), caches of sessions and templates, the current and
the next block, a filter.

*Operations.* Open for writing, appending or reading, add sessions, select a context,
add and remove templates, write a record, set the IE manager, rewind, filter, read a
record, close.

*Interaction.* Processes meet in the file alone: a lock keeps writers apart, nothing
keeps readers apart from them. Writes of Data Blocks and reads ahead are asynchronous
(`aio`).

*Hard.* A buffer is in flight while the other is filled; templates change under
buffered records; blocks arrive in the file out of order, partly, or never; an
appender overwrites the table; a reader opens the file in the middle of all this; a
crash may come between any two writes.

*Correct when* a reader gets, of every session and ODID, the records that were
written, in order, once, decoded by the template and with the Export Time they were
written with, and misses none of a file that was closed.

### Reading messages (`src/src/parsers`, `template_mgr/template.c`, `drec`)

*State.* A template: its fields with definitions and flags (last of its kind, several
of its kind, scope, biflow key, direction), and the same fields seen from the other
direction. Iterators: a position in a message, a Set, a record or a structured field.

*Operations.* Parse a template, define its elements by an IE manager, set a flow key,
copy and compare; go to the next Set, definition, withdrawal, record, field or list
member; find a field; rewind.

*Interaction.* A collector runs these loops inside each other; what one iterator says
is where the next one starts. The message is not checked beforehand.

*Correct when* what was sent is what is read, parser and iterators agree on where
everything ends, every loop ends, and the two views of a record are mirror images.

### Information Elements (`src/src/iemgr`)

*State.* Scopes by PEN and by name; elements of a scope by ID and by name; their
reverse elements, in the same scope or in another one, depending on the mode of the
scope; aliases of elements, and mappings of names to values.

*Operations.* Read a directory or a file, add an element or a reverse element, remove
one, copy the manager, clear it, find.

*Interaction.* XML files give the definitions; templates and filters point to them.

*Hard.* A file may extend or rewrite what another one defined and may be wrong half
way; five structures point to each element.

*Correct when* the two indices of a scope agree, a reverse element follows its
element, nothing is lost or rewritten without permission, no pointer is left behind.

### Filter (`src/src/filter`, `ipfix_filter`, `trie`)

*State.* A tree of an expression; at run time the last value of each node, the node
that may have more values, and a position in the sources of an alias; prefix tries.

*Operations.* Scan, parse, check types and choose operations, generate, evaluate on a
record or on both directions of it.

*Interaction.* Names are looked up by callbacks of the IPFIX filter, which ask the IE
manager for elements, aliases and mappings and the record for values.

*Correct when* the answer is what the expression means, for every value of a name,
whatever the filter was evaluated on before; and senseless expressions are refused.

### Converters (`src/src/converters`) and XML parser (`src/src/xml_parser`)

Converters set, get and print values of fields; the conversion of a record to JSON
keeps a buffer that may grow or be too small, and takes back what it cannot finish.
They are right when what was written is read back and nothing is written outside the
room given. The XML parser checks documents against a description with
nested tables, and gives contexts that are walked. It is right when it accepts what
meets the description and a walk shows what the document says.

### Which parts are modelled

| Component | Here |
| --- | --- |
| Template manager, file writer, file reader | modelled |
| File blocks and file handle | partly: what writer and reader tell apart |
| Template parser, message and Set iterators, list iterators, Data Record iterator | modelled |
| Information Element manager | partly: definitions are given as records, not as XML |
| Prefix trie, filter, filter operations, IPFIX filter | modelled but for the scanner and floating point |
| Converters | modelled but for floating point |
| XML parser | modelled on top of the tree libxml2 gives |
| API helpers, `proposals`, `3rd_party`, `config`, `examples`, `tests` | not modelled: one-line functions, not compiled, vendored, or data |

Hazards, the things here that are hard to test, are listed at their lines in
`PROJECT.json`, with the properties that watch them.

## 2. Modules

| Module | What it is |
| --- | --- |
| `SnapshotList` | the list of snapshots as a sequence, the operations that move references and flags in it, and what a sound list is |
| `SnapshotList_proofs` | what these operations do to a list, and that they keep it sound |
| `Loop` | a loop of the code, by what ends it and what a round does; that an invariant of the rounds holds of the result |
| `TemplateManager` | EXTENDS `SnapshotList`: the manager, one action per function of `template_mgr.h`, and its properties |
| `TemplateManager_proofs` | what holds after every call |
| `TemplateOwnership` | EXTENDS `SnapshotList`: the internal functions as actions of their own, without times; the inductive invariant |
| `TemplateOwnership_proofs` | that it is inductive |
| `StorageFile` | the content of a file: header, extents, blocks; what a partial or overwriting write leaves |
| `FileWriter` | EXTENDS it: handles open for writing or appending, in processes of their own; completion of asynchronous writes; crashes |
| `FileWriter_proofs` | where blocks go and stay |
| `WriterRecords_proofs` | EXTENDS it: no record is lost, stored twice or decoded wrongly |
| `FileReader` | EXTENDS `StorageFile`: a handle open for reading |
| `RecordLog` | what `file.h` promises about records, without blocks or tables: the abstract specification |
| `FileStorage` | EXTENDS `FileWriter` and `FileReader`: both at work on one file, and the refinement mapping to `RecordLog` |
| `Template` | bytes of IPFIX structures (numbers, headers, prefixes of variable length); parsing, definitions, flow keys and the reverse view of a template |
| `Iterators` | EXTENDS it: next, find and rewind over the fields of a record; iterators over Sets, their contents, and structured fields |
| `MessageReader` | EXTENDS `Iterators`: a collector that runs all loops on one message |
| `MessageReader_proofs` | iterators stay where they belong, and agree on lengths |
| `Records` | EXTENDS `Iterators`: a template and a record in the hands of a user |
| `Records_proofs` | what definitions and flow keys leave in a template |
| `Converters` | 64-bit arithmetic; setters, getters and texts of values |
| `Json` | EXTENDS `Converters` and `Iterators`: conversion of a record |
| `RecordJson` | EXTENDS `Records` and `Json`: the user also sets values and converts |
| `Elements` | the heap of the IE manager: elements, their reverse elements, the scopes that list them |
| `ElementManager` | EXTENDS it: aliases and mappings, and the calls of the IE manager |
| `Trie` | nodes of a prefix trie, add and find |
| `FilterParser`, `FilterTypes` | tokens to trees; names, types and operations |
| `FilterEval` | EXTENDS them and `Trie`: generator and evaluator |
| `IpfixFilter` | EXTENDS it: one filter from creation to destruction; what an expression says, stated without all that |
| `XmlParser` | a parser with a description, documents and the contexts it gives |
| `MC...` | instances for TLC: values of constants, views, symmetry |

### Template manager

`mgr` is `struct fds_tmgr` with what it allocated: `mgr.snaps` the list, `mgr.cur`
and `mgr.now` the selected snapshot and time, `mgr.tm` the heap (address to template),
`mgr.trash` the garbage collected so far, `mgr.handed` the garbage the user holds. A
function of the code is an operator from manager to manager, so a call is one step
whatever internal functions it goes through; the names are those of the code without
their prefix (`SnapClone` is `mgr_snap_clone()`, `SeekBackwards` is
`mgr_seek_backwards()`). An `assert()` of the code clears `mgr.asserts` when it would
fail. Templates have addresses: a freed address is not in the heap any more, and is
allocated again only when nothing refers to it, so that a dangling reference remains
visible. `hist` records what was asked for each ID at each Export Time.

Time is a number modulo `TimeMod`, compared by the sign of the difference as
`mgr_time_cmp()` does; the instances put the wrap-around in the middle of the times
in use.

A loop over snapshots or records is an instance of `Loop`: an operator that says where
it ends (`PropagationEnds`, `Arrived`, `WithdrawEnds`, ...), one for its body
(`PropagateTo`, `Pass`, `WithdrawAt`, ...), and a bound on the rounds, which the length
of the list gives. `Repeat` is a recursive function, so that theorems can be proved
about what it returns.

`TemplateOwnership` drops times, IE managers and flow keys and lets each internal
function run whenever the list allows it, with any choice (which records expired,
which snapshots a template is carried to) that respects the flags. Its invariant holds
after each call of `TemplateManager` (`INSTANCE TemplateOwnership` there): TLC checks it,
and `TemplateManager_proofs` takes each call apart into the same operations of
`SnapshotList`.

### File storage

A file is a header and a set of extents: what is still there of each write. Lengths
are scaled down to cells, but keep the order the real ones have: a Data Block with one
short record is shorter than a Session Block, and longer than a block header
(`MCFileStorage`). A writer's `ctxs` are the entries of `m_odids`, each with two
buffers, the request in flight, and the offset of the Template Block in the file (0:
to be written). Records carry their number, so a lost, doubled or swapped record is
seen.

A call is one step. Three things are split, because another process can get in
between: an asynchronous write is started by one call and completed, with success or
not, by `Complete`, from the buffer as it is then; `fds_file_close()` puts the
Content Table in place (`CloseWriter`) before it waits for the last blocks
(`CloseEnd`); `fds_file_open()` for reading loads the header first (`ReaderOpen`) and
the table or blocks later (`ReaderOpened`). An asynchronous read returns the content
of the moment it was started or of the moment it is waited for. A call that has to
wait for a write of its own is not enabled until the write is complete. A fault is
chosen before the call: which of its writes fails, and how many cells reach the file;
`Crash` releases the lock and forgets the writer. Of a Data Block of which a part is in the
file `Queue` delivers the records that are there; what is missing reads as zeros, which is
an error in the place of a header, but a record (`Garbled`) in a Set that was begun.

`RecordLog` is the specification a user of the file has in mind: per session and ODID
a log of records; a reader has read a prefix of it, decoded as written; what was in the
log when the file was last closed is *due* before the reader may see the end. A
file truncated by an open for writing starts new logs, and nothing is promised to
readers of the old one; nor to one that was given what nobody wrote (`Garble`), which is
possible only once a write failed. `FileStorage` adds three history variables (`pos`, `due`,
`trust`) and shows that the composition implements it: `LogSpec` is
`INSTANCE RecordLog WITH ...`.

### Templates, messages and records

A buffer is a sequence of bytes and a pointer a distance in it, so that a read behind
its end is an error of TLC. A template is the record `struct fds_template`, its
fields the sequence of `struct fds_tfield`. An IE manager is a function from PEN and
ID to a definition. Iterators are records, and `fds_..._next()` an operator that gives
the iterator after the call and its result, so that it can be composed: a step of
`MessageReader` is one call by the innermost loop that is running (`phase`), with
what the collector does with its result: it parses definitions, forgets withdrawn
templates, and opens the next loop. `Records` lets a user call the functions of
`template.h` and `drec.h` in any order instead.

### Conversion

Numbers of 64 bits are sequences of eight bytes, as TLC's have 32. A text is a
sequence of pieces (kind, value, length): JSON is read back from them, and room is
counted in characters. `RecordJson` has two users, chosen by `use`: one who iterates
(`Records`), one who sets values and converts into a buffer of his own or of an
earlier conversion.

### Information Elements

The manager is a record with heaps of elements, scopes, aliases and mappings. A
function of the code takes a manager and gives the one it leaves, with its outcome in
`rc`; the rest of a function runs only while that is `OK`, so a failed call leaves what
it had done. `"CRASH"` stands for access to freed memory. A name is its place in the
alphabetical order. After a copy the original lives on in `old` until it is destroyed.

### Filter

`ParseFilter` is the precedence climbing of `parser.c` on tokens; `FilterTypes` tries
the operations in the order of the code's table, with casts and constructors;
`FilterEval` names a node of the evaluation tree by its path and keeps values,
`reevaluate_node` and the position in the sources of an alias in `run`, which survives
from one evaluation to the next, as in the code. A trie node is named by the bits that
lead to it. The last part of `IpfixFilter` is the reference: `Written` gives the tokens of an
expression with the fewest parentheses, `MakesSense` and `Satisfies` its meaning.
A failed assertion or a null pointer ends the program (`status = "gone"`).

### XML parser

A description is a function from names of tables to sequences of options, a document
a tree of elements, texts and comments with attributes. The recursion of `check_all()`
and `parse_all()` is that of `CheckAll` and `ParseAll`; contexts are named by the path
that leads to them. `Meets` says which documents a description allows, from
`xml_parser.h`, and a document is accepted if the caller gets a context; `HasPlain`,
`AttrsTyped` and `NoSpaces` name the documents for which the code is known to say
otherwise (section 7).

## 3. Runs

| Run | Module | Checks | Distinct states |
| --- | --- | --- | --- |
| `tm_udp` | `MCTemplateManager` | `SequencedByExportTime`, `CurrentIsValid` | 65 000 |
| `tm_scopes` | | `SingleOwner`, `OtherAssertsHold`, `IesCurrent`, `PastIsFrozen`, `FrozenStays` | 170 000 |
| `ownership` | `TemplateOwnership` | `OwnershipInv` | 142 000 |
| `fw_write` | `MCFileStorage` | `FTypeOK`, `Accounted`, `ClosedComplete`, `BlocksAreKept` | 533 000 |
| `fs_read` | | `LogSpec` | 265 000 |
| `fs_live` | | `LogSpec` | 127 000 |
| `records` | `MCRecords` | `DefineForgets`, `ViewsMirror`, `IteratorInStep`, `JsonReadsBack`, `ValuesReadBack`, `TextFits` | 133 000 |
| `message` | `MCMessage` | `DefinitionsParse`, `FieldsFillRecord`, `ReadsWhatWasSent`, `LoopsEnd` | 28 000 |
| `elements` | `MCElements` | `LoadedBothWays`, `MappingsFound`, `VectorsAgree`, `AddsButToSplit`, `RemovedIsGone`, `CopyFinds` | 36 000 |
| `filter` | `MCFilter` | `ParsedAsWritten`, `RefusedIffSenseless`, `MatchesReference`, `EndsOnlyWhen`, `TriesFind` | 33 000 |
| `xml` | `MCXmlParser` | `AcceptsAsDescribed`, `WalkShowsDocument` | 17 000 |

| `filter_asserts` | | `AssertsHold`: violated | |

The last run ends with a violation, of an assertion of the code; the others pass. Further
promises of headers, comments and tests that the code breaks are listed in section 7.

- **`tm_udp`** A UDP session whose messages come in any order, around the wrap-around of
  time, with two definitions of one ID that expire; the manager may be cleared. The
  template seen at a selected time is the one asked for last at or before it, unless
  it has expired: the propagation of late definitions, refreshes, clones and cleanup
  agree on that.
- **`tm_scopes`** Sessions of all four kinds, each with a part of the calls its rules
  allow (`ScopeOps`): a TCP session with removals and changes of IE manager, an SCTP
  session with withdrawals, the history of a file with flow keys and removals, a UDP
  session with changes of lifetimes and IE managers; in all of them snapshots are handed
  out, and in all but the first garbage is taken and destroyed. Every template has one owner; nothing reachable is
  freed; what was handed out never changes, also when the list moves on; garbage is
  independent of the list and of later garbage; what is older than the selected time is
  frozen, so that nothing added there can miss its propagation; no assertion fails but
  the one of `FkeyMeetsCopies` (section 7); after a change of IE manager no template of the list refers to
  the old one. Times do not wrap around here (`tm_udp` has that).
- **`ownership`** The invariant that is proved, on a small instance.
- **`fw_write`** A writer, synchronous or asynchronous, and a second opening that writes
  or appends: templates of three lengths redefined under buffered records, two Export
  Times, more sessions than IDs, one failing or torn write at any place, a crash at any
  point. While nothing failed, the records accepted are those in the blocks listed, in
  flight and in the buffer, in order, each decodable by the template it was written
  with; buffers keep their limit; a closed file is complete under its Content Table and
  its counter is right; no stored block is overwritten.
- **`fs_read`** Reader and writer together, two ODIDs, all filters of up to two parts set
  at any time, a torn write. Exactly the selected records are read.
- **`fs_live`** Asynchronous I/O on both sides, and two parts of the behaviours
  (`EitherSpec`). Without faults, the file is opened again for writing or appending while
  it is read, templates are redefined then, and writers crash: blocks in flight, leftovers
  of an overwritten Content Table and missing tables lead to fewer records or an error,
  never to other ones, and never to fewer than were there when the file was closed.
  With one writer, one write fails at any place, of messages with two Export Times
  in one block, and leaves nothing or a block with one of its records. That record is
  read as it was written; then comes an error or something that passes for a record,
  the latter only after a failed write.
- **`records`** One user defines all templates of up to three fields by one IE manager
  after another, sets flow keys, and iterates and searches in both views: definitions
  leave nothing behind, the reverse view mirrors the forward one, and iterator, search
  and the flag of the last occurrence agree. The other one sets values and converts
  records of all types, with lists within lists, good and malformed, into buffers too
  small, reused or growing: the JSON says what the record says, values are read back,
  and texts fit the documented room.
- **`message`** All messages of up to two Sets of templates, withdrawals, records and
  lists, with templates known or not, and messages of one Set with any byte changed or
  the end missing. What was sent is delivered, what is announced as a definition can be
  parsed, fields fill their record, and the loops end.
- **`elements`** Up to three calls, with directories of files that extend and rewrite each
  other in each of the three modes of reverse elements, and files that are wrong half way;
  elements are added, reversed and removed, the manager is copied and cleared.
- **`filter`** 2 869 expressions of up to three comparisons, over names of one and of
  several values, constants, arithmetic, lists and prefixes, evaluated on sequences of
  four records in one and both directions.
- **`xml`** Four descriptions, among them that of the IE manager and a table within
  itself, eight that are refused, and 32 documents in both modes, parsed one after the
  other and walked with `fds_xml_next()` and `fds_xml_rewind()` in any order.

Each property of a passing run has at least one mutant, a change of one mapped
definition that a plausible bug would make (`PROJECT.json`, "mutants"); the operator
that replaces the original stands before it, marked `Mutant`.

## 4. Bounds and views

The bounds are constants, named in the modules (`MaxSnaps`, `Addrs`, `MaxHanded`,
`MaxRecs`, `MaxOpens`, `MaxFaults`, `MaxFilter`).

- *Template manager.* One ID: records of different IDs meet only in the lifetime of a
  snapshot and in garbage; `ownership` is proved for any number. Two definitions show
  redefinition, a third would be another redefinition. Three or four snapshots give a
  predecessor, a gap and a successor around the one that is edited. A call that would
  need more is not taken. The addresses bound templates alive at once; the longest
  chain needs one per snapshot and garbage.
- *File storage.* A buffer takes two short records but not two long ones, so two records
  reach a second block and a swap of buffers; a second opening truncates or appends. One
  fault at any of the writes of a call. A torn write leaves nothing or two cells, a
  block header but not the header of a Data Block; in `fs_live` nothing or six, a block with
  one of two records.
- *Messages.* Two Sets show a template before and behind its records, and a withdrawal in
  between; a Set has up to two records, one with a short and one with a long prefix,
  and padding. Changed bytes take the values of headers, lengths and prefixes at their
  edges. *Records:* three fields give a pair and another one, or three of one kind;
  three calls an iterator that was moved and moved back. Buffers are allocated in
  multiples of 40 characters instead of 4096, so that records of a few fields outgrow
  them several times; user buffers of 30, 60 and 130 are full at different depths.
- *Elements.* Three calls are a definition, a change and a look at both; IDs have 4 bits
  instead of 15, which leaves room for the bit of the mode `SPLIT`. Up to two files of
  one PEN meet in a directory.
- *Filter.* Addresses have one word and two words, of two bits; three prefixes split a
  node twice; integers have 5 bits; three comparisons are two logical operations below
  each other.
- *XML.* Two elements of a name show order, occurrence and neighbours; a table within
  itself gives three levels. Integers have 8 bits.

`VIEW`s leave out the return code, which no later step reads (properties of steps still
see it), and name a template by the place where the list refers to it first, since
addresses are interchangeable. `tm_udp` leaves out garbage, which its properties do not
look at. `CHECK_DEADLOCK FALSE` is set because the bounds stop all runs in the end.

## 5. Fairness

`LoopsEnd` assumes weak fairness of `MessageReader`'s steps: its only process is the
caller of the iterators, which goes on as long as they return something, and no call
of theirs waits. That a loop ends for every message, also for a damaged one, is what the
code has to do for it. (No cycle of states leads back: the bounds do not stop it.)

No fairness is assumed elsewhere. The library has no threads, queues or retries; every
other call returns, unless the operating system never completes an asynchronous
request. That reading of a file makes progress is part of `RecordLog`'s `End`: the
end of the file may be reported only once all records that are due were read.

## 6. Proofs

TLC checks small instances; the theorems below hold for every value of the constants
that meets the named assumptions. Each inductive invariant was checked by TLC on the
instance of its module's run before it was proved. `TemplateManager_proofs` and
`WriterRecords_proofs` are the longest to check, some twenty and some ten minutes.

### Who owns a template (`TemplateOwnership_proofs`)

For any set of IDs, any set of addresses and lists of any length, and any order of the
internal operations:

- `Ownership`: `OwnershipInv` is an invariant;
- `GarbageIndependent`: its part `GarbageUnused`, garbage may be destroyed in the order it
  was handed out. (That nothing reachable is freed and nothing is lost are two other parts.)

*Assumptions:* `NoTmplt` is not an address; the bounds are natural numbers.

*The inductive invariant.* That nothing reachable is freed is not inductive by itself:
a step that drops a record must know that the flag it moves arrives at the newest
remaining reference. `OwnershipInv` adds what the code relies on:

- the `DESTROY` flag is at the newest reference to a template, and there is one
  (`OwnerIsNewest`, `HasOwner`), so that a copy may take over all flags of its source;
- the `CREATE` flag is at the oldest reference (`CreateIsOldest`), so that the search
  for an older one may stop there;
- references with different IDs never share a template (`OneId`), so that searches may
  look at one ID only;
- a template added to a snapshot that is still editable is in no other snapshot and in
  no garbage (`AddedIsOwned`, `AddedIsUnseen`), so that its removal may free it at once;
- garbage, the list and batches of garbage own disjoint sets, and an older batch owns
  nothing that a newer one or the list uses (`OwnersDisjoint`, `GarbageUnused`).

*The argument.* In such a list, the templates in use and those owned are the same set
(`OwnedIsRefs`). For each operation on the list there is a lemma on its shape
(`CloneShape`), one that it keeps the list part (`CloneInv`), and one on how it changes
the set in use. Garbage is then a matter of four sets (`GarbageInv`): lemmas
`GarbageAdd` to `GarbageGone` say what allocation, discarding, freeing, handing out and
destruction do to them. `Sound` puts list and garbage together, with a lemma for each
operation (`CloneSound`). All this is `SnapshotList_proofs`, which knows nothing of what
else a snapshot holds; here one lemma per action remains, and `NextInv` collects them.

### What a call of the template manager leaves (`TemplateManager_proofs`)

For any number of IDs, addresses, definitions and snapshots, any times and lifetimes,
every type of session, and every sequence of calls:

- `FreedOnce`: `SingleOwner`, each template has one owner, nothing reachable was freed and
  nothing is lost, whatever a call did on the way;
- `SeenStays`: `FrozenStays`, the action property that a frozen snapshot and the templates it
  refers to stay as they are, in the list or in garbage, until the user destroys that garbage;
- `CurrentElements`: `IesCurrent`, the templates of the list belong to the current IE manager;
- `PastFrozen`: `PastIsFrozen`, what is older than the selected time is frozen;
- `Invariance`: the inductive invariant, of which the others are consequences.

*Assumptions:* `ParamsAssumption`, of which the proofs use that IDs and addresses are finite
sets of numbers, and `NoTmpltAssumption`. Nothing is assumed of Export Times: the proofs treat
`LT` and `LE` as any two relations, so their results do not depend on the wrap-around.

*The inductive invariant.* `Inv` says that the manager is `Good`: its list and garbage are
`Sound`, what the list refers to is allocated and has the current elements, and the
garbage handed out is a sequence of pieces. It adds that snapshots older than the selected
one are frozen (`OlderFrozen`) and that an editable selected one starts at the selected time
(`AtNow`). The soundness of the list needs `AtNow`: `mgr_modify_prepare()` clones the selected
snapshot when it is older than the selected time, and a clone of an editable snapshot would share
a template that was added and not propagated yet, which its removal frees at once. And
`OlderFrozen` needs itself, since a seek freezes what it passes and nothing before that. In
the middle of a call more is needed: `Good(m, X)` lets the templates X be allocated and not
referred to yet (one just parsed, the copies of `fds_tmgr_set_iemgr()`), and `Keeps(m, n)` says
that everything seen before is still there.

*The argument.* Three layers. Each internal function is one of the list operations, with
times and lifetimes next to it (`CloneStep`, `SnapRemoveStep`, `AddRefStep`, ...). Each loop has
an invariant of its rounds; for a flow key it is (`Copied`) that the copy in use is owned by
the last snapshot it was put in. `LoopInvariant` of `Loop` then gives what the loop
returns; it rests on induction over the number of rounds, stated with a set in place of a
predicate (`Climb`).
Each call is a sequence of functions and loops, one lemma each (`SetTimeSteps`, ...), and
`NextSteps` collects them.

The hardest loop is that of `mgr_snap_freeze_cb()`. It removes records, inserts snapshots and
adds references without flags, and moves the Delete flag from the snapshot where the template was
added to the last one it was carried to only at the end, so the list is not sound in
between. Its invariant (`Riding`) says that the list would be sound if the flag were moved now
(`MoveOwner`); a list and the one with the flag moved differ in that flag alone (`Alike`).

### Where blocks go (`FileWriter_proofs`)

For any number of handles, sessions, contexts, template IDs, records, openings and
faults, and any lengths:

- `WriterTypes`: `FTypeOK`, which says that no buffer outgrows a Data Block, that a
  Template Block is in front of the Data Blocks that refer to it, and which values occur;
- `BlocksStayWhole`: `BlocksAreKept`, the action property that no step overwrites a part
  of a complete block, be it a write, its asynchronous completion, a failure, a crash,
  closing, or appending later;
- `OneWriter`: no two handles are open for writing at a time.

*Assumptions:* `LengthsAssumption` and `WriterAssumption`: headers have a length and the
order of lengths is the real one, an empty buffer has room for a record of each
definition, IDs and the descriptions of sessions (structures of a fixed size) are
finite in number, `NoHandle` is no handle.

*The inductive invariant.* `FInv` says of the file that its extents lie behind the
header, apart from each other (`FileOK`), and that nothing which must stay is behind the
table that the header refers to (`TableLast`), so that an appender may start at the
table. Of the writer that has the lock it says that every complete block ends in front
of where the next one goes, that the places of running writes are apart from each
other and from complete blocks (`Placed`), and that the header refers to no table while
records may be written (`HeaderInStep`). It adds what makes those lengths right: a buffer is never
longer than a block and the running write of a context is in the buffer that is not being
filled (`BufferOK`, `ContextOK`). Without the last point, `Complete` could write a block
longer than the place that was kept for it. That extents end somewhere (a bound
on their ends exists) is the one part that TLC does not evaluate; the rest it checked on
`fw_write`'s instance and on one with two ODIDs (1.4 million states).

*The argument.* A write is a change of the extents (lemmas on `Overlaid`, `Kept`), a call
is a sequence of writes. `flush_all()`, which goes over all contexts, is a fold: the
lemmas show that the chain of its intermediate states exists and that each keeps the
invariant. One lemma per action, then `WriterStep`.

### No record is lost (`WriterRecords_proofs`)

On top of `FInv`, from the same assumptions and as generally:

- `RecordsAccounted`: `Accounted`, the records accepted for a session and ODID are those of
  the blocks in the table, of the write in flight and of the buffer, in that order, each
  decoded by the template and with the Export Time it was written with;
- `ClosedFilesComplete`: `ClosedComplete`, the Content Table of a closed file leads to exactly
  the records accepted since the file was made, and the header counts them.

As in the properties, nothing is claimed once a write failed or a writer crashed (`lost`).

*The inductive invariant.* `Accounted` alone does not survive a flush or a new definition, and
says nothing of a file that is closed and opened again. `Recorded` adds, for an open writer
(`InStep`, `LogInStep`):

- every entry of the table leads to a Data Block that is in the file or whose write is
  running, and to a Template Block that is in the file (`Stored`);
- a Template Block that a context has written holds the context's templates, the one used
  last is the one of its ID, and every buffered record has a template (`CtxInStep`), so that
  records mean the same once `flush()` has moved them from the buffer to a block;
- session IDs are places in the table, each leads to a Session Block with the description
  the writer knows, and no description has two (`SessionsInStep`), so that
  `fds_file_session_add()` may answer with a known ID;
- while the writer is being closed its buffers are empty and the table is in the file
  (`TableStored`).

Of a closed file it says that the handle an appender would get of it now (`Reopened`) is in
step with the log (`ClosedInStep`): closing and appending then meet in the middle. The header's
counter is the sum of the lengths of all logs (`Total`).

*The argument.* Most steps move records without changing them: `Carries` says so of a
sequence of writes, `Retold` of a change of handles. `TemplatesCarry` and `DataCarries` are about
the two writes of a flush, `FlushAllCarries` about the fold over all contexts, `LandedTells`
about an asynchronous write that completes. Only `StoreRecorded` adds a record, to the buffer
(`BufferGains`), hence to what is held (`ContextGains`), to the log (`LogGains`) and to the counter
(`TotalGrows`). That complete blocks stay where they are is `WriterStep` of `FileWriter_proofs`.
`FlattenSeq` and the sum are recursive: their equations are shown to have a solution
(`FlatExists`, `SumExists`), and what follows from them rests on induction over an interval
(`Climb`) and over the parts of a finite set (`SubsetClimb`), stated with sets in place of
predicates.

### What definitions leave in a template (`Records_proofs`)

For templates of any length, any IE managers and any order of definitions, flow keys,
iteration and search; nothing is assumed of the managers:

- `ViewsAlwaysMirror`: `ViewsMirror`, the view from the other direction mirrors every
  field of the template;
- `DefinitionsForgotten`: `DefineForgets`, the action property that a definition without
  preserve gives what it gives on the template as it was parsed;
- `TemplateInvariant`: `RInv`.

*The inductive invariant.* `RInv` says which flags a template and its fields can have, as
a function of parsing, definition and flow key (`FieldsOK`), that a field is marked as
a reverse one exactly when its definition is (`MarkedReverse`), and relates the
two views field by field (`Mirrored`). `MarkedReverse` is what makes `Mirrored`
inductive: `fds_template_ies_define()` decides by that flag which of two fields of a
pair is the forward one.

*The argument.* `template_ies_biflow()` treats a field and its counterpart at a time; the
lemmas go through its cases for one field, then for all. Setting a flow key commutes
with a definition.

### Where iterators go (`MessageReader_proofs`)

For a message of any bytes and of any length, and any templates known before:

- `IteratorInvariant`: `MInv`, every iterator stays in what the loop around it gave it: the
  message holds the Set, the Set the record, the record the field, and the list its blocks
  and members;
- `RecordsAreFilled`: `FieldsFillRecord`, the iterator over a Data Set and the one over
  fields agree on where fields end;
- `DefinitionsAreParsed`: `DefinitionsParse`, what the iterator over a Template Set
  announces as a definition can be parsed, to a template of that length and those fields.

*Assumption:* `MessagesAssumption`: what is read are bytes, the message is as long as its
header says (`ipfix_parsers.h:102` leaves that to the caller), and the templates known
before have the length and the `DYNAMIC` flag that parsing gives (`IsTemplate`). Nothing
is assumed of the bytes behind the header.

*The inductive invariant.* `MInv` has one part for each loop (`SetsOK`, `TsetOK`, `DsetOK`,
`DrecOK`, `ListOK`), which places its iterator in the one around it. Two parts are less
obvious. `Filled` says that the offsets of the record's fields, found one after the other,
end at the record's size; the iterator over fields moves along these offsets. And every
known template is an `IsTemplate`, which a new one is because the parser makes it so.

*The argument.* The code walks over fields, specifiers and blocks, the model with
recursive functions on places. For each there is a lemma that its equation has a solution
(`LengthsExist`, `PlacesExist`, `SpecsExist`, `SkipExists`), one that the operator is that
solution, and one on where it goes (`PlacesWithin`, `SpecsAreWithin`, `SkipStops`). All rest on
`Climb`, induction over an interval of integers, stated with a set in place of
a predicate and proved from the least element of a set (`Minimum`). `DefinedParses` compares
the checks of `fds_tset_iter_next()` with those of `fds_template_parse()` one by one, and
`FilledBy` the walk of `fds_dset_iter_next()` with that of `fds_drec_iter_next()`.

### Only model-checked

In the template manager what depends on the order of times (`SequencedByExportTime`,
`CurrentIsValid`, `OtherAssertsHold`): on times that wrap around `TIME_LE` is not transitive, so
that the list is sorted only as long as all times in use are near each other, which the code
leaves to its callers. The
reader and the refinement `LogSpec`; `IteratorInStep` and `ReadsWhatWasSent`; the conversions, the IE
manager, the filter and the XML parser. Their parsers and
evaluators are recursive over trees, whose theorems would need induction over data,
and their modules use recursive operators, which the provers' translation does not take.
`LoopsEnd` is a liveness property, which the provers do not reach.

## 7. Disagreements with the code

The run `filter_asserts` ends with a violation that TLC shows step by step: the
evaluator goes on from a node of another operand, meets a logical operation and fails the
assertion at `eval_evaluator.c:90`. Its finding in `PROJECT.json` quotes it.

The following definitions state what a header, a comment, an assertion or a test says, and do
not hold either. No run checks them; TLC shows each violated within a minute when it takes
the place of the properties of the configuration named. The passing properties name these
cases and say what holds beside them.

- `FkeyMeetsCopies` (`tm_udp.cfg` with `Sessions = {"FILE"}`, `Keys = {0, 1}` and
  `Ops <- ScopeOps`): the assertion `fds_template_cmp(...) == 0` of
  `fds_tmgr_template_set_fkey()` (`template_manager.c:2259`). A definition added into
  history is carried to newer snapshots only when its own one is frozen: times 0 and 14 are
  selected, a is added at 14, b at 15, and the flow key of b is set; the loop meets a in the
  snapshot that starts at 0. Without assertions a gets the flow key too. The other
  assertions are `OtherAssertsHold`.
- `OnlyNewestEditable` (`tm_scopes.cfg`): "only the newest snapshot can be editable" if
  history cannot be modified (`template_manager.c:1760`). `fds_tmgr_set_iemgr()` forgets the
  current time (`:2170`), so that a TCP session may go back afterwards and gets
  an editable snapshot there. `PastIsFrozen` holds nevertheless.
- `AddsOnly` (`elements.cfg`): without the permission to overwrite "elements can be only
  added" (`iemgr.h:555`). `elements_remove_reverse()` frees the reverse elements of a `SPLIT`
  scope before the file is read (`iemgr_scope.cpp:210`), and they are gone if it is
  refused. `AddsButToSplit` has all the others.
- `CopyOutlives` (`elements.cfg`): "Remove the original scope.  The copy should be still
  available" (`tests/unit_tests/iemgr/iemgr_copy.cpp:80`). The reverse element that
  `scope_copy()` copies (`iemgr_scope.cpp:75`) points to the forward element of the original
  (`iemgr_element.cpp:78`). `CopyFinds` says what a copy is good for.
- `ReverseIgnored` (`elements.cfg`): "Element's reverse element is ignored" (`iemgr.h:599`).
  `fds_iemgr_elem_add()` keeps the reverse pointer, aliases and mappings of its argument
  (`iemgr.cpp:528`).
- `OmittedIsEqual` (`filter.cfg`): "if the comparison operator is ommited, the default
  comparison is `==`" (`filter/README.md:9`). For flags it is a test for a subset
  (`flags.c:54`): `flags 2` is true of a record with 3. `MatchesReference` is about all other
  expressions.
- `ContextMeansMet` (`xml.cfg`): "after successful document parsing it is guaranteed that all
  elements have met all required conditions" (`xml_parser.h:358`).
  `parse_all_properties()` ignores the result of `parse_content()`
  (`xml_parser.cpp:1194`): for a required attribute whose value is not of its type the
  caller gets a context without it. `AcceptsAsDescribed` is about the other documents.

Shown by TLC on instances that the runs above leave out, by their choice of operations,
lifetimes or inputs:

- A flow key set on a template just added in history replaces it by a copy without the
  `CREATE` flag, and freezing the snapshot then does not carry it to newer ones
  (`template_manager.c:2286`, `:1056`). The comment there expects longer searches only.
- A definition that arrives late, with a time before that of a withdrawal, is carried
  past the withdrawal, since a snapshot without the ID does not stop it
  (`template_manager.c:1056`). A late definition of a longer lifetime is likewise valid
  again after a newer one of a shorter lifetime expired (`:1065`). `template_mgr.h:69`
  says actions are sequenced using Export Time; `tm_udp` checks that for sessions that
  do not withdraw and do not change lifetimes.
- An open for writing truncates the file before it tries the lock (`File_base.hpp:39`); the
  file of the process that holds it is gone although `FDS_ERR_DENIED` is returned.
- The walk of `ctable_rebuild()` ends 56 bytes before the end of the file
  (`File_reader.cpp:287`); a shorter last Data Block is left out although it "iterates
  through all blocks" (`File_reader.cpp:255`).
- While a Data Block is in flight, blocks written after it leave a hole in front of
  them; a reader that opens the file then meets a block of length zero and fails
  (`File_reader.cpp:302`), although the table is rebuilt for files "being written"
  (`File_reader.hpp:38`). `RecordLog` therefore allows a reader of a file that is
  not closed to fail.
- An asynchronous write that fails after the table was written goes unnoticed by
  `fds_file_close()`, which swallows exceptions; readers then fail at that block, or are
  given zeros for the records of a Set that was begun (`Block_data_reader.cpp:153`). No text
  of the repository says what a reader gets then; `fs_live` reaches both.

Seen in the code while it was modelled. The models do as the code does, or their inputs
leave the case out:

- *Templates and records.* A definition with preserve does not copy the flag `STRUCT`
  to the reverse fields, and keeps `BKEY`. A manager whose pairs are one-sided may define
  both fields of a pair the same. `opts_detector()` asserts that the scope of an element has the
  element's PEN, also for vendor elements named `source...` or `destination...`.
  `fds_template_parse()` accepts templates whose records have no length; only the
  iterator over Sets refuses them. The iterator that collects fields of several
  occurrences for JSON stops at the first one flagged as the last (`json.c:902`).
- *IE manager.* An element with a lower ID that extends a scope can leave its reverse
  scope unsorted. After a failed load, loading the corrected file may follow freed
  pointers, `parsed_ids` is cleared by loads of files only, and a refused file
  with a duplicate name stays loaded in part. Elements added to an unknown PEN get a scope
  without name. Copying aliases moves elements of the original; a reverse
  element that no element refers to is not copied. An overlay of mode `INDIVIDUAL` that names
  a reverse ID leaves the reverse pointer at the temporary element, which is freed
  (`iemgr_element.cpp:234`). An overwritten reverse element leaves the old one. Removing an element leaves pointers of aliases and
  mappings. A mapping that names nothing is swallowed when a directory is read
  (`iemgr.cpp:287`). `biflow mode="split"` without a text shifts by -1.
- *Filter.* Of two names of several values on both sides of a comparison, not all pairs
  are tried; the same constant twice in a list fails an assertion; `in []` follows a null pointer; prefixes on a
  word boundary are never matched; floating point elements end the program;
  `is_oct_digit()` accepts 8; a time zone is added where it is to be subtracted; units are
  tried on after one was found, so that `4kM` is 4M; `5-3-1` is read as a date; numbers without
  sign are compared to negative ones as very large.
- *Converters.* A fraction of an NTP timestamp near 2^32 is rounded to 10^9
  nanoseconds (`converters.h:860`); milliseconds lose one on the way through a fraction;
  seconds wrap after 2036 and before 1970. An error in JSON conversion after a
  reallocation frees the wrong pointer (`json.c:1514`); a record of which nothing is shown
  ends in a comma; `FDS_ERR_BUFFER` is returned in one place although the text would fit
  (`converters.h:1465`).
- *XML parser.* The message of an earlier error stays; nested tables that repeat a pointer
  are checked once; at most one text is allowed in the whole description, not in an
  element; the ID 0 may be shared; the overflow checks of numbers never hold, since the
  conversion saturates; text next to a comment is dropped, a comment in front of it taken
  for it; elements in a simple element are not seen, even in pedantic mode; arguments are
  found by name alone, so that an attribute may be taken for an element (`IsPlain` leaves
  these out of `AcceptsAsDescribed`). In pedantic mode an element with nothing but blanks is
  refused where no text is described (`IsSpaced`).

## 8. Not modelled

- *Everywhere:* failing allocations (`template_mgr.h:104` says to destroy the manager then),
  null arguments and other calls that are refused before anything happens, floating point.
- *Template manager:* the two-level table of a snapshot (an implementation of a map);
  parsing of templates, for which `Template` is there (definitions are opaque).
- *File storage:* compression and sequence numbers, which are data the properties do not
  tell apart (a part of a compressed block gives an error, which the model also allows); statistics other than the record counter; failing reads; more than one fault;
  getters; more than one reader (readers do not see each other).
- *IE manager:* reading XML, except as definitions that come in the order of the file, and
  `XmlParser` on its own: the two are not composed; times of files
  (`fds_iemgr_compare_timestamps()`); files for the PEN of a reverse scope; an overlay that
  names a reverse ID; aliases of reverse elements.
- *Filter:* the scanner, time zones, and the texts of errors.
- *XML parser:* libxml2 itself, which gives the tree; destruction of a parser.
- *API helpers* (`api.c`, error texts, version) hold one field or none. *`proposals`* is not
  compiled. *`config`, `examples`, `tools`, `tests`* are data or use the library from outside; tests
  were read as documentation. *`3rd_party`* is vendored (`lz4`, `zstd`): it is
  34 194 of the 69 382 lines of implementation, and most of the rest that the map does not
  name are headers and comments.

## 9. Plan

1. `CurrentIsValid` and `SequencedByExportTime` for times that lie in half of the circle, where
   `TIME_LE` is an order; what a snapshot shows of each ID, as a function of `hist`, is the
   invariant they need.
2. The part of `LogSpec` that is about a reader of a closed file, from `Recorded`;
   `IteratorInStep`, whose offsets are those of `MessageReader_proofs`; a measure that each step of
   `MessageReader` makes smaller, from which `LoopsEnd` follows.
3. Node invariants of `Trie`, and the list of intervals it stands for.
4. `XmlParser` composed with `ElementManager`: what a file says is what is defined.
