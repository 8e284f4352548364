# A specification of lpc-ext

TLA+ models of the extension modules of this repository for the LPC servers
DGD and Hydra, checked with TLC and, in part, proved with TLAPS. The models
are read from the C and C++ source; `PROJECT.json` maps every definition to the
lines it stands for.

## The system

| part | source | state it keeps | operations |
|---|---|---|---|
| JIT cache front end | `src/jit/jit.c` | `programs[]` (hash, library handle, function table, reference count), `objects[]` (index, instance, program), the mutex, `active` | `jit_init`, `jit_finish`, `jit_compile`, `jit_execute`, `jit_functions`, `jit_release`, the loader thread `jit_thread` |
| compiler process | `src/jit/jitcomp.cpp` | the cache directory: program files, `.ll` and `.so` files | read a hash, read the file, compile, reply |
| decoder | `code.cpp`, `Block::function()` | a position in a function's code and line numbers | kfun prototypes, functions, instructions |
| blocks | `block.cpp` | the blocks of one function in a tree, their flow graph | find, split, the four passes |
| analyses | `typed.cpp`, `flow.cpp` | types and values of variables and of the stack, for each block | evaluate until nothing changes |
| code generator | `genclang.cpp` | registers, relays and what is in the frame | write LLVM code, run clang |
| child process and pipes | `lpc_ext.c` | two pipes (`in`/`back`, `out`), the process id | `lpc_ext_spawn`, `ext_fdlist`, `ext_finish`, read, write, writeback |
| database | `dbase/dbase.c` | a directory per generation, `snapshot`, `snapshot-N` | open, new, load, refresh, resize, read, write, remove, save and restore snapshots |
| zlib kfuns | `kfun/zlib/zlib.c` | (de)compression state in the value of a special object | `gzip`, `gunzip`, `deflate`, `inflate` |
| TLS kfuns | `kfun/tls/tls.c` | two pointers in the value of a special object | `tls_server`, `tls_client`, `tls_send`, `tls_receive`, `tls_close` |
| regular expressions | `kfun/rgx/regexp.c` | a compiled pattern in the value of a special object | `regexp` |
| crypto | `kfun/crypto.c` | none between calls | hashes, ciphers, signatures, key exchange, certificates, masks |
| lower_case | `kfun/lower_case.c` | none | a pure function |

The host's threads call into the JIT module. They share its tables with the
loader thread under one mutex, send programs to jitcomp through the cache
directory and the pipe `out`, and send messages to their own loader through the
pipe `in`, on which jitcomp replies as well. Inside jitcomp a program goes
through the decoder, the blocks, the type and flow analyses and the code
generator, in this order and for one function at a time. The kfuns are called
by one thread at a time for each object and share a different thing: the one
"special" slot an LPC object has. The database is called by several threads, for
different objects, and its snapshots by one.

What is hard in it, and the properties it has to have:

- *JIT cache*: code that reads a table entry after giving the mutex up, libraries
  that are unmapped while code in them may run, messages in any order, a
  compiler that dies, files left behind by a crash. Entries in use stay, counts
  are exact, native code in use stays mapped and is the right one, programs are
  compiled whole and once, calls return, native code arrives, released objects
  are forgotten.
- *child process*: who holds which end of which pipe decides who ever sees an
  end of file, and so whether shutting down ends.
- *decoder*: where an instruction ends, and what it is, follows from those
  before it; an error of one byte changes all that follows.
- *blocks and analyses*: blocks are split while others refer to them; fixpoints
  must end, and be right for every path that is executed, errors that are caught
  included.
- *code generator*: a value is in a register, on the stack or in the frame, and
  every way to a place has to agree with every other on which.
- *database*: a crash between any two steps of a snapshot, generations that wrap
  around. The last complete snapshot must be restorable.
- *special objects*: every exit of a kfun, errors included, must leave the
  object marked with a usable state, or not marked.
- *buffers and sessions*: output lists at their limit, bytes that pass through
  four buffers in two directions.
- *crypto*: a chain of up to nine calls any of which may fail, with one error exit.

The hazards are listed line by line in `PROJECT.json`, each with the properties
that cover it.

## Modules

| module | role |
|---|---|
| `JitCache` | the JIT cache, the loader, jitcomp, the cache directory; faults |
| `NativeCode` | what the cache promises the host: its abstract specification |
| `MCJitCache` | values of the constants for TLC |
| `JitCacheProofs` | the inductive invariant, its proof, the refinement; what holds in addition when the host has one thread |
| `ExtProcess` | fork, descriptors, exec, the handshake of `jit_init`, the loader thread, shutdown; faults |
| `ExtProcessProofs` | the inductive invariant of `ExtProcess` and its theorems |
| `Dbase` | the database, the file system it works on, the host; faults |
| `SnapshotStore` | what the database promises the host: its abstract specification |
| `MCDbase`, `DbaseProofs` | values for TLC; the inductive invariant and its theorems |
| `SpecialObject` | the slot of an object, with all kfuns and the driver that use it |
| `MCSpecialObject`, `SpecialObjectProofs` | values for TLC; theorems |
| `ZlibBuffers` | the output list of `process()` in zlib.c |
| `TlsTransfer`, `TlsTransferProofs` | the loops of `tls_send` and `tls_receive`; theorems |
| `Crypto` | every kfun of crypto.c, call of OpenSSL by call |
| `MCKfuns` | the modules about kfuns side by side: `ZlibBuffers`, `Crypto`, `TlsTransfer`, `SpecialObject` |
| `KfunProofs` | theorems about `ZlibBuffers` and `Crypto` |
| `Decode` | bytes of a program to lists of instructions |
| `BlockTree`, `BlockTreeProofs` | the tree of blocks that is rotated by every search; theorems |
| `MCDecode` | programs as the host's compiler writes them, and what they should be read as; `Decode` followed by `BlockTree` |
| `BlockGraph` | the four passes over blocks |
| `MCBlockGraph`, `BlockGraphProofs` | functions for TLC; theorems |
| `TypedAnalysis` | extends `BlockGraph`: types |
| `FlowAnalysis` | extends `TypedAnalysis`: which value an instruction reads |
| `GenCode` | extends `FlowAnalysis`: the code that is written, and its execution next to the interpreter |
| `MCGenCode`, `MCFunctions` | functions for TLC, put together from statements |

`BlockGraph`, `TypedAnalysis`, `FlowAnalysis` and `GenCode` extend one another as
the classes of the source do: `gen_code` checks them together, from a single block
of all code to the code that is written.

### JitCache

State and code:

| variable | in the code |
|---|---|
| `data`, `so` | the files `cache/xx/HASH` and `cache/xx/HASH.so` |
| `object` | `objects[]`: no entry, `program == NULL`, `program` set |
| `refCount`, `functions` | `Program.refCount` (0: no entry in `programs[]`), and whether `Program.functions` is set |
| `opened`, `mapped` | the C library's count of `dlopen` calls, and what it has mapped |
| `running`, `tables`, `released` | what the host does with the code it was given |
| `pc`, `cur` | where a thread stands inside a call, and for which object |
| `inq`, `outq` | messages in the pipes |
| `loading` | the handle the loader has, between `dlopen` and the mutex |
| `jitcomp` | the compiler's loop: idle, a file read (whole or partial), about to reply, dead |

A stretch of `jit.c` between `MUTEX_LOCK` and `MUTEX_UNLOCK` is one action. What
happens outside the mutex has an action of its own for every point where another
actor can come in: the read of `program->functions`, `access`, `open` with
`O_TRUNC`, `write`, the message. The loader opens a library outside the mutex and
installs it under it, so these are two actions.

Assumptions about what is not in the repository:

- *The host* never uses an (index, instance) pair again after releasing it, and
  releases an object only when no thread is in a call for it or runs its code;
  a function table that `jit_functions` handed out is used until then. A lookup
  that returns -1 is followed by `jit_compile` on the same thread. The host
  ignores SIGPIPE.
- *Pipes*: messages of 16 and 17 bytes are written whole, and wait for room. A
  pipe whose reader is gone takes nothing, and the code ignores the result.
- *Pointers*: `program->functions` is read without the mutex and is the old or
  the new value. `CompileCheck`, `ExecuteResult` and `FunctionsResult` read it
  at one moment between the end of the section before and the return.
- *The C library*: `dlopen` of a path that is already open gives the same
  mapping and counts; `dlclose` unmaps on the last count.
- *clang* makes a library appear at once, under its final name.
- *Restart*: a jitcomp that outlives its host may still compile what it was
  asked for (`Leftover`); it has ended when the next host starts.

`active` is TRUE in this model. `ExtProcess` justifies that: `LoaderStaysActive`
proves it from a successful `jit_init` to `ext_finish`.

Faults are chosen by the constant `Faults`: "host" restarts the host at any
moment, "jitcomp" kills the compiler at any moment, "disk" makes `open` or
`write` fail or write too little. A partial program makes jitcomp compile
buffers nobody has filled: the outcome is some library, none, or its death.

### NativeCode

Five sets: the objects announced, those a thread was just asked to compile, those with native code,
those whose native code is in use, those released. `KeepsPromise` says that
`JitCache` implements it under the mapping given there: native code appears only
for announced objects, may appear for several objects at once, and disappears
only for released ones; an object is announced only once. It is what the host
relies on when it keeps a function table.

### ExtProcess

The life of the child process, around what `JitCache` models. In it the messages
of `JitCache` are one kind of message in each direction.

| variable | in the code |
|---|---|
| `host` | where the main thread is: in `lpc_ext_spawn`, `ext_fdlist` ("num", "list"), `jit_init` ("info", "protos", "reply"), at work, in `ext_finish` and `jit_finish` |
| `fds`, `unsent` | `size` of `ext_fdlist` at the start and now |
| `ends` | which of `in`, `out` and `back` are open |
| `inq`, `outq` | the two pipes |
| `child` | the loop before `execl`, then `main` of jitcomp |
| `inherited` | descriptors of the host still open in the child |
| `batch` | `num` of the child |
| `loader`, `active` | the loader thread: at the top of its loop, in `read`, ended |
| `valid` | what `CodeContext::validVM` says of the host's version |

The action of a system call is the call with the assignments that follow it. Who
reads an end of file is computed from who holds an end: `InHasWriter` and
`EndOfInput`. The point of the module is that the pipe `in` has two writers, the
child and the module, so that the death of the child alone is never an end of file.

Assumptions: the host calls `ext_fdlist` in the parent before `jit_init`, and
`ext_finish` before `jit_finish` (which joins the loader, and would wait for ever in the other order);
it calls `jit_finish` for a module whose `jit_init` failed only if there is
nothing to join; `read` and `write` of one message are one step; a thread that is
reading from a descriptor when another closes it goes on reading until the end of
file; the descriptors of the list do not include 0 and 1. `sh -c` and jitcomp
are one process here, and the failure of `exec` is a death of the child.

### Dbase

| variable | in the code |
|---|---|
| `root`, `dirs`, `files` | the directory of the database, those of the generations, the objects' files in them |
| `info`, `current` | the files `snapshot-N` (tables and header) and `snapshot` (the number in it, 0 when it is empty) |
| `up`, `snap` | how far `db_open` is, and the last step done of `db_save` and `db_save_snapshot`: "tables", "header", "truncated", "named", "grown" |
| `generation` | `db->generation` |
| `refs` | `LPC_db_object`: generation, directory of the open file, descriptor |
| `creating` | the generation of the path for which `db_new_obj` has opened a file, before it reads `db->generation` again |
| `table`, `mem` | the handles in the host's tables, and what the host has written |

The first line is the disk, which a crash leaves as it is. A snapshot is five
actions, and creating an object is two, because a crash or, in Hydra, a call for
another object can come in between; other calls are one. A refresh is part of
every call that changes an object, as in the code. A call of the file system
fails when "disk" is in `Faults`.

The constants say what host and environment do: `Host` ("concurrent": objects
are created while a snapshot is saved; "removeOld": objects of earlier generations are
removed), `Wrap` (more than 65534 snapshots), `Trailing` (digits of the path that
`atoi` meets behind what was read), "window" in `Faults` (a crash between emptying and
writing `snapshot`). The host is otherwise as the comments of dbase.c describe
it. `MaxGen` is 65534 in the code and a constant here.

`SnapshotStore` is a store that after a crash is as the last snapshot found it:
three variables. `KeepsSnapshots` says that `Dbase` implements it, with `saved`
being what a restart would find on disk now.

### SpecialObject

| variable | in the code |
|---|---|
| `special` | the mark of the object: none, the driver's, an extension's |
| `sig` | the first element of its value |
| `blocks`, `saved` | the (de)compression state: its blocks by index, and whether pointers are offsets |
| `session`, `live` | the pointers of a TLS session in the value, and the sessions that exist |
| `rx`, `used` | the pattern, the flag and the compiled code in the value; what was last asked for and used |
| `happened` | a history variable: which kinds of events there were |

A kfun has the object to itself while it runs, so a call is one action, and a call
with several ways out is several. All users of the slot are in one module
because the property is about their mixture: the driver's own special objects,
kfuns of three modules, destructed objects, and restarts, after which values are
those of a snapshot but pointers in them are not. `happened` lets an invariant say
"until the host restarts" without excluding that it does.

### ZlibBuffers

The loop of `process()`: `n`, `buf` and `next` are its variables, `link` and `data`
the buffers, `heap` those that `malloc` returned, and `misuse` records a buffer that is
freed or read when it is not there. `left` bytes of the `total` of this call's
output are still to come, in chunks that `func` decides on; `array` is the result.

### TlsTransfer

| variable | in the code |
|---|---|
| `loop` | which of the loops runs, or why the session is at an end |
| `str`, `text`, `len` | the argument and how far it has been consumed |
| `buflen`, `outbuflen` | what is in `buffer` and `outbuf` |
| `bio`, `pend` | the two directions of the BIO pair |
| `rbuf`, `plain`, `unput` | inside OpenSSL: part of a record, decrypted data, output for which there was no room |
| `leftover` | what `tls_receive` gave back as not processed |
| `written`, `recs`, `produced`, `got`, `sent` | counts of bytes and records since the session began |

A round of a loop is an action. OpenSSL is reduced to how many bytes it takes and
gives: a record is decrypted when it is complete, one per `SSL_read_ex`; what
`SSL_write_ex` makes goes to the BIO as far as there is room. Bytes that arrive are
numbered, so `InSequence` can say that each one goes into the session once and in
order. With each call a caller of one of the `Callers` is chosen: a "trusting" one goes
on with the string that was returned to it, as doc/tls_receive:12 has it, a "looking" one
with the end, of that length, of the string it gave. For the first `InSequence` does not
hold (`tls_left`); for the second it could not be otherwise, and nothing is claimed.
What is claimed of the leftover holds for both: `LeftOnlyIfFull` says that there is one
only when `tls_receive` has a full buffer to return.

### Crypto

A kfun is a value: its checks, its stages of OpenSSL calls, each with the pointers
that it sets and needs, its error exits with the chain of `if (p != NULL) free(p)`
as it is written, and what decides on the answer. The variables are the
interpreter of that: `kfun`, `args`, `stage`, `step`, the pointers (`ptr`, which
may be unset), what is `owned`, who `holds` a reference, what was `made` and
`refused`, and the first `fault`. So the paths of all kfuns are written
as the calls they make, in order. `UncheckedFail` says whether calls whose result is ignored may fail.

### Decode

`bytes` are the functions of a program, `program`, `lines`, `at` and `lc` the code
and the line numbers of the current one with the two positions in them, `line` the line, `list`
the instructions so far, and `stores`, `lval` and `spread` what `Block::function()`
expects next. Numbers are put together from bytes with their sign, as the FETCH
macros do; floats are kept as sign, exponent and two parts. `MCDecode` is the other direction: it writes each
instruction with operands at the limits of every encoding and records what it
wrote (`source`).

### BlockTree and BlockGraph

`BlockTree` is `Block::find()` and `split()` step by step, with the header on the
stack that collects the two sides. `BlockGraph` takes what they promise (the block
of an address) and is the passes of `fragment()`, an action for each split, instruction or
edge: `last`, `next`, `to`, `from`, `dflt`, `sp`, `caught`, `nFrom` are members of `Block`;
`phase`, `list`, `cur`, `at`, `k`, `here`, `handler` are the loops' variables.
Addresses are instruction numbers. The graph is compared with all that can be executed (`Executed`): the
pairs of an instruction and the contexts it is executed in that `Steps` leads to from the start.

### TypedAnalysis, FlowAnalysis, GenCode

`ctx` is the `TypedContext` (one array for the stacks of all blocks, linked, and
for each catch what was modified in it), `start`, `end`, `ends` and `fromVisit` are members of
`TypedBlock`; `in` and `out` those of `FlowBlock`; `text`, `heads` and `gen` what
genclang.cpp writes and keeps. One action evaluates one block.

What they are compared with is an interpreter: `Executions` is the set of all states
that a function can reach when it is executed with values of any kind, errors at
every call, and every way of every branch. `TypesSound` and `RefsRight` compare
the analyses with it. For the generated code, `Lockstep` executes what was written,
with its registers, labels, calls of `VM_` functions, the stack and the frame of the virtual
machine, next to the interpreter, and records wherever it takes a value that is
not the interpreter's or goes back without counting a tick. `Accepted` is
what clang demands before it takes the code at all.

`MCFunctions` puts functions together from statements as the host's compiler does:
`if`, `while`, `catch`, `rlimits`, `switch`, assignments and their several-lvalue form.

## Runs

| run | instance | shows |
|---|---|---|
| `dgd` | 1 thread, 3 objects of 2 programs, pipes of 2, all faults | `CompilesWholePrograms` |
| `hydra` | 2 threads, 2 objects of 1 program, pipes of 1, all faults, fairness | tables and code under interleaving (`RefCountsExact`, `PointersValid`, `CodeInUseMapped`), the refinement `KeepsPromise`, `CallsReturn`, `EventuallyForgotten` |
| `native` | 1 thread, 3 objects of 2 programs of which 1 compiles, pipes of 1, no faults, fairness | `EventuallyNative` |
| `ext_process` | up to 5 descriptors in batches of 2, pipes of 2, all faults, fairness | `ExecClean`, `Framed`, `ShutdownEnds`, `ChildEnds` |
| `db_safe` | 2 objects, 3 generations, crashes and disk errors | `SnapshotComplete`, `SnapshotFrozen`, the refinement `KeepsSnapshots` |
| `kfuns` | `process()` with up to 20 bytes in up to 5 buffers of 3; every kfun of crypto.c with arguments around every limit, any call failing; sessions of TLS with sizes of 1/1024 (buffers of 63, BIO of 17, records of 16 and 1) and callers of both kinds; 2 objects, 2 sessions, 2 patterns, all events | `NoMisuse`, `NoLeak`, `ArrayIsOutput`; `CallsSound`, `NothingLeft`, `Genuine`, `Reversed`; `GotIsDecrypted`, `SentIsProduced`, `LeftOnlyIfFull`; `SessionsLive`, `SessionsReachable`, `StateRestorable`, `MatchesAsked` |
| `block_graph` | all functions of up to 4 of plain, jump, branch, catch, return whose instructions have the same contexts however they are reached, and longer ones with nested catches, rlimits, switches | `Partition`, `ContextsRight`, `EdgesRight` |
| `gen_code` | statements nested two deep, and 14 longer functions with every kind of instruction; fairness | `TypesSound`, `RefsRight`, `Accepted`, `CodeRight`, `TicksCounted`, `CodeWritten` |
| `decode` | programs of 3 functions, every instruction and every group, inherits of 1 and 2 bytes; a function of 7 addresses, searched and split in every order | `ReadAsWritten`, `FindsBlock` |
| `tls_left` | the same sizes of TLS, a caller that trusts what it got back | violates `InSequence` |
| `db_race` | 1 object, a host that creates it while a snapshot is saved | violates `RefsTruthful` |
| `ext_hang` | up to 3 descriptors, pipes of 2, the child may die | violates `InitReturns` |

`kfuns` is one run for four modules that share no state: a behaviour begins in one of them and
stays there, so that each is explored as if it were alone, and no property of one can be spoiled, or saved, by another.

Bounds. *JIT*: two objects of one program are the smallest case of sharing; the
third, of another program, shows that the two programs' messages do not mix.
The races of `jit.c` are between one thread and the loader, or two threads with the
same program, so two threads reach all of them. A pipe of one message is full
whenever another is sent; one of two also holds two messages in an order. (index,
instance) pairs are never used again, so every behaviour between two restarts of
the host is finite and no counter needs a bound. *Process*: lists of 0 to 5
descriptors in batches of 2 are empty, smaller than a batch, equal to one or two
batches, and end in a batch that is not full.
*Database*: what a step touches is one object and two generations, the current one
and the one before; the second object has a snapshot hold objects of two
generations, and the third generation is the one where files of the first are
no longer those of the previous. *Slot*: two
objects, so that one can have what belongs to the other. *zlib*: 5
buffers of 3 with every output from 0 to 20 fill none, some, and all of them, with
and without a rest. *TLS*: the real sizes are 65535, 17408, 16384 and (about) 29; what
matters is that a string holds several records, the BIO one and a part, and that neither
is a multiple of the other; `MaxWire` and `MaxSent` end a session after
several of the longest strings. *Blocks*: a jump into the middle of a block that is
already split, from before or behind, takes two jumps and a target; catches that a jump leaves need
the longer functions. *Types, values and code*: two statements in one another let
each construct be met by each other one, errors in the inner one included. *Decode*: each field
takes its smallest and largest values, and the ones at which the next longer encoding begins.

Fairness is weak fairness of what is already going on. In `JitCache`: a call that
is inside the module, the loader thread and jitcomp, each a thread or process
that runs whenever it is not waiting for a pipe. In `ExtProcess` the same for the
main thread once it is in a call, for the loader and for the child. In `GenCode`: the
steps of one call of jitcomp, which is sequential. Nothing obliges the host
to make a call, and no fault is ever obliged to happen.

Deadlock is not checked where the system stops: when all objects are
released and the host does not restart (`hydra`, `native`), when it has ended
(`ext_process`, `ext_hang`), when generations are used up (`db_safe`, `db_race`), when the
call or the compilation that is modelled has returned (`kfuns`,
`block_graph`, `gen_code`, `decode`), and when the bounds on a session are reached
(`kfuns`, `tls_left`).

## Findings

`ext_hang`, `db_race` and `tls_left` are runs. The other findings have a .cfg of their own, or a constant to change,
named with each; but for `DbTorn.cfg`, TLC shows a counterexample within seconds.

JIT cache and process:

- `ExtHang.cfg`: the module waits for the reply to `jit_init` on a pipe of which it
  is itself a writer (jit.c:333). A child that cannot run jitcomp, or that dies after the
  parameters have been written, leaves it waiting for ever, and the server does not start.
- `JitOrphan.cfg`: `access` (jit.c:414) takes a cache file for a program that is compiled
  or being compiled. After a restart, or a failed `write`, it may be neither,
  and the program is interpreted for as long as the cache lives.
- `JitTruncate.cfg`: `access` and `open` are not under the mutex (jit.c:424). Two threads with the
  same new program both create the file, and the second truncates what the
  first has announced. jitcomp does not look at what its `read` calls return.
- `JitLeak.cfg`: a program reported compiled twice has its library opened twice and
  closed once.

Database:

- `DbWindow.cfg`: the file `snapshot` is truncated and then written (dbase.c:363). A
  crash in between leaves it empty; `db_open` reads 0 from it and begins generation 1
  with 65534 as the previous one, so the snapshot that was complete is not found.
  `DbTorn.cfg` has no error: even then the files of that snapshot stay as they are, and
  handles of the host lead to what was written.
- `DbMkdir.cfg`: the directory of a generation is made at the end of the snapshot before
  (dbase.c:380). If a crash skips that, or it fails, no object can be created.
- `DbRemove.cfg`: removing an object that was not changed since the last snapshot unlinks
  the file that the snapshot refers to (dbase.c:283).
- `DbRace.cfg`: `db_new_obj` reads `db->generation` twice without a lock (dbase.c:160); with a
  snapshot in between, which the comment at dbase.c:10-12 allows, the reference leads to a directory
  that does not have the file. Hosts whose calls do not overlap cannot see it.
- `DbWrap.cfg`: generations are compared for equality (dbase.c:211), so that an object not
  touched for 65534 snapshots is taken for one of the current generation and changed in place.
- `DbSafe.cfg` with `Trailing <- MCDigitPath` and `OpensLast`: what was read from `snapshot`
  is not terminated, in a buffer that still holds the path (dbase.c:115); a digit at the
  right place in the name of the database becomes part of the number.

Special objects and kfuns:

- `SlotReset.cfg`: `tls_close` unmarks the object and leaves the freed pointers in its value (tls.c:440;
  doc/extensions.md:113-114 asks for a reset).
- Sessions are pointers in a value that snapshots save (tls.c:93); after a restart they are those of
  another process. `SessionsLive` therefore only speaks of hosts that have not restarted.
- `gunzip` and `inflate` set `context.index` on every call (zlib.c:495): a window that is allocated
  later than in the first call takes the place of the state. `StateRestorable` excludes it with
  the event "late", and failed initialisations with "init".
- `TlsLeft.cfg`: what `tls_receive` gives back is taken from a pointer that has already been
  advanced (tls.c:389), and is not the rest of the string. A caller that goes on with it, as
  doc/tls_receive:12 has it, feeds the session other bytes than those that come next.
- `TlsUnread.cfg`: `tls_receive` returns after the data of one record when the whole string is in
  the BIO; further complete records wait for the next call (tls.c:382).
- `TlsHeld.cfg`: output of the longest messages stays in the BIO after `tls_send` has returned
  (tls.c:297). With `Resumable` in place of `NothingHeldBack`: after many of those a message is
  encrypted in part and given back whole, and sending it again is a bad write retry (tls.c:303).
- `Kfuns.cfg` with `UncheckedFail = TRUE` violates `CallsSound`: `hash()` uses a context that
  may be NULL (crypto.c:27-50), and the key functions a pointer that was not set (667). With
  `NothingForgotten` in place of `NothingLeft` it is violated as it is: the error exits of signing,
  verifying and deriving forget the key or the context.

Compiler:

- `Decode.cfg` with `CheckedCalls = TRUE`: I_CALL_CKFUNC and I_CALL_CEFUNC leave `kfun.lval` as
  it was in memory (code.cpp:849-868), and typed.cpp:287 reads it for every call.
- The .cfg `GenFrame.cfg` takes a value of `Bodies`, a function that is a special case:
  "inner" and "loop" violate `TypesSound` (what an inner catch modifies is handed on only when
  its end is evaluated, typed.cpp:378; a function that begins with a loop never has its first
  block evaluated again, typed.cpp:966), "outer" `RefsRight`, "wide" `StackFits` (three
  elements for two bytes are not enough for an aggregate of 32 conditional values, typed.cpp:50;
  for 11 of them, "row", they are), "unsaved"
  `LocalsSaved` and `CodeRight` (genclang.cpp:502: variables that a catch modifies are stored only if
  they are needed inside), "continue" `TicksCounted` and `Accepted` (a branch of
  which the code that follows is a jump back goes there without the relay that counts a tick and that merges name, genclang.cpp:1301), "shared" `Accepted` (a case label that is also the default), "line" `LinesRight` (the line is only written
  when it differs from the one written last, whatever was executed).
- Read, and outside of what the runs check: the result of a several-lvalue assignment that is itself
  stored reads below the stack (typed.cpp:723-790); a block that ends with values on the stack is
  always evaluated again, which can take exponential time (typed.cpp:424).

## Proofs

`JitCacheProofs` proves for all values of the constants that meet the
assumptions of `JitCache` (finitely many objects; any threads, programs, pipe
capacity and faults):

| theorem | property |
|---|---|
| `TypeCorrect` | `TypeOK` |
| `CountsExact` | `RefCountsExact` |
| `PointersStayValid` | `PointersValid` |
| `TablesStayMapped` | `TablesMapped` |
| `CodeInUseStaysMapped` | `CodeInUseMapped` |
| `PromiseKept` | `KeepsPromise`, the refinement of `NativeCode` |

With one thread (`SingleThread`), and nothing assumed about faults, there are also, in the same module:

| theorem | property |
|---|---|
| `SingleCompilesWhole` | `CompilesWholePrograms` |
| `SingleCodeIsOwn` | `CodeInUseIsOwn` |
| `SingleCompilesOnce` | `CompiledOnce` |

With two threads the first of these is false (`JitTruncate.cfg`), which is why they
are theorems about DGD.

None of the invariants is inductive alone. `IInv` is the conjunction of `TypeOK`,
`RefCountsExact` and

- `Discipline`: an object in a lookup or a compilation is not released, every
  "removed" message is for a released object, and no code of a released object is
  in use. This is what the host's discipline amounts to inside the module.
- `Entries`: the entry of an object in a call is there, without a program before
  `p_new` and with one after it; and no two threads are about to link the same
  object, because the lookup returned -1 to one of them only.
- `Libraries`: a program with functions has references and an open library; the
  library that the loader holds is open once more; a library that is not mapped is
  not open. The number of times it is open is only bounded from below, because of
  the leak described under findings.
- `InUseLinked`: the object of code in use leads to a program with functions.

Each conjunct has a lemma that shows it to be preserved, with a step for each
action that can disturb it; `Invariance` combines them. The exactness of
reference counts rests on the cardinality of the set of objects that point to a
program, which grows or shrinks by one object per step (`FS_AddElement`,
`FS_RemoveElement`). The refinement is shown step by step from `IInv`: a new
call announces, gives up or uses; a step inside a call compiles, uses or
stutters; the loader provides or forgets.

The single-thread theorems add `WholeInv` to `IInv`: a program that is not saved
whole has no library and is not in the compiler (`CacheInv`); what the compiler
has been told of is whole, has no library, and was sent once (`SentInv`); and the
cache file is absent, partial or whole and unsent at the three points of
`jit_compile` (`SavingInv`, the only conjunct that needs the single thread: nobody
else moves the file between `access` and the message).

`ExtProcessProofs` proves for any number of descriptors, any batch size and pipe
capacity, and all faults:

| theorem | property |
|---|---|
| `ExtTypeCorrect` | `TypeOK` |
| `ExecStartsClean` | `ExecClean` |
| `MessagesFramed` | `Framed` |
| `LoaderStaysActive` | `ActiveWhileRunning` |

Its invariant says where every descriptor and every message is: a descriptor open
in the child is unsent or in a batch in the pipe (`StillListed`), and a count of 0
is only followed by the messages of `jit_init` and of `jit_compile` (`ListEnds`).
`Chain` gives each message a stage of the protocol: the first message in the
pipe is in the child's stage, each one in the stage after the one before, and the
host in the stage after the last. `TypeOK` needs it, since a reader that took one
message for another would get any number. `Handshake` separates the time before
the loader, when the pipe "in" holds at most the reply, from the time after,
when it holds messages only.

`DbaseProofs` proves, for any number of objects, contents and generations, what
an orderly host can rely on (`Orderly`: no call overlaps with a snapshot, only
objects of the current generation are removed, at most `MaxGen` generations, no
digit at the wrong place in the path, no crash while `snapshot` is empty; each of these is
needed, as the findings show):

| theorem | property |
|---|---|
| `TypeCorrect` | `TypeOK` |
| `SnapshotStaysComplete` | `SnapshotComplete` |
| `SnapshotStaysFrozen` | `SnapshotFrozen` |
| `HandlesLeadToContents` | `HandlesLead` |
| `OpensAfterLast` | `OpensLast` |
| `StoreRefined` | `KeepsSnapshots`, the refinement of `SnapshotStore` |

Its invariant is `TypeOK` with: which generation is open, next to the number in
`snapshot` and the step of the snapshot (`GenerationsInv`); each reference is to a
file of its generation (`RefsInv`; without overlapping calls, see `db_race`); the last snapshot has tables, header and every file, and
all of them are in earlier generations than the one that is written (`SnapshotsInv`); what the
host has written is in the files its references lead to (`MemoryInv`). That files
of a snapshot are never written follows from the third, since a refresh moves an
object to the current generation before it changes.

The refinement reads the abstract contents from the file of each reference and the
abstract snapshot from the files that a restart would find. It needs the whole invariant:
a write changes one object because no two references share a file (`RefsInv`), and no
write reaches the snapshot (`SnapshotsInv`). `NoTableAssumption` says that what stands for a missing
table is none; a restart with it would otherwise be one with a table.

`SpecialObjectProofs` assumes nothing but different objects, sessions and patterns; what
a restart or an event spoils is said in the properties, with `happened`:

| theorem | property |
|---|---|
| `SlotTypeCorrect` | `SlotOK` |
| `HandsKept` | `KeepsHands`: no kfun touches the mark or the value of another user |
| `SessionsStayLive` | `SessionsLive` |
| `SessionsStayReachable` | `SessionsReachable` |
| `StateStaysRestorable` | `StateRestorable` |
| `MatchesAreAsked` | `MatchesAsked` |

The first four need no more than types; `MatchesAreAsked` needs that every container holds
what its own pattern and flag compile to, also the one a failed compilation leaves (`ContainersOwn`);
`StateStaysRestorable` that every value of zlib has one of three sets of
blocks, each in its place.

`KfunProofs`, for output buffers of any size, any limit and any output:

| theorem | property |
|---|---|
| `BufTypeCorrect` | `TypeOK` |
| `NeverMisused`, `NeverLeaks` | `NoMisuse`, `NoLeak` |
| `RefusesOnlyTooLarge` | `RefusedIfTooLarge` |
| `OutputIsWhole` | `ArrayIsOutput`: the array has all output, in full strings but for the last |

The invariant says that the list, from the buffer that is next, is what is on the heap (`ListInv`,
`Linked`): buffer k was linked to k - 1, the heap is exactly the numbers below n that are not yet freed. For
the last theorem it also says how much of the output each buffer of the list has, and that the
strings of the array so far are those of the buffers that are freed.

For any arguments of the kfuns of crypto.c, strings of any length and any number of certificates and
hash arguments (`CallSpec`):

| theorem | property |
|---|---|
| `AnswersAreGenuine` | `Genuine`, if the calls whose result the code ignores do not fail (`UncheckedFail = FALSE`) |
| `CallsAreSound` | `CallsSound`, under the same assumption |
| `NothingElseIsLeft` | `NothingLeft`, under the same assumption |
| `EncryptionsReversed` | `Reversed`, without that assumption |

`UncheckedFail = FALSE` is an assumption about OpenSSL and not a fact: a hash that cannot allocate its context
is the counterexample under Findings (the run has the same value). A kfun that decrypts or verifies ignores
only `sk_X509_push`. For the first theorem the invariant is `Pending`: a call that failed and was passed over while
the kfun goes on can only be `X509_STORE_new` or `X509_STORE_CTX_new`, the pointer it should have set is
null, and the third call of that stage, which tests for it, has not been made. That takes a lemma on the shape
of every kfun (`KfunShape`): in all other stages each call that can fail is checked at once and the error is
none of "" and "good". For the last it is that a kfun
that got past its checks was given what `CipherTakes` or the mask's checks say (`AcceptedInv`); the lemma
`TakenBack` turns that, with the tag appended to the text, into the checks of the decryption, and
`MaskRepeated` is the arithmetic of doubling a mask and of the bytes after the last whole word.

`CallsAreSound` and `NothingElseIsLeft` need to know what a kfun has at each of its calls. That is a plan
for the kfun: what it has kept when a stage begins, and for each call of the stage (`At`) the objects it has got,
the pointers that are null and the calls it has made for a cipher. `CallOK` says what makes the plan good: a call
uses only what there is and overwrites nothing, OpenSSL's order is kept, and if the call is checked and fails, the
chains of the error exit free all but what `Lost` names; `Passes` and `StageOK` say it of a stage, `Sound` of
a kfun. `KfunSound` gives such a plan for every kfun and any arguments, also where the number of calls
or of stages depends on them (the certificates of `verify_certificate`, the strings of `hash`); it
depends on no state. The invariant (`SoundInv`) is that the kfun stands at
its place in a plan (`Runs`), with exactly the objects of the plan. Of a chain of pointers the first that is not null
is freed, and two chains never free the same object (`Picks`, `Cleans`), which is what makes an error exit
free each object once. `FreeAll` is a recursive function and not a fold, so that this could be
proved. The one exception is in `verify_certificate`, where two results
are looked at only after a third call (`Late`): a store or a context may be null in the plan's place.

`TlsTransferProofs`, for any sizes and any strings:

| theorem | property |
|---|---|
| `TlsTypeCorrect` | `TransferOK`: nothing is written past a buffer or into a full BIO |
| `DataAccountedFor` | `GotIsDecrypted` |
| `OutputAccountedFor` | `SentIsProduced` |
| `LeavesOnlyWhenFull` | `LeftOnlyIfFull`, for any callers |

`Accounts` counts the bytes in every place they can be. The last theorem is about why the loop stops:
a round without progress that leaves part of the string wrote nothing, so the BIO is full, and
a full BIO has a whole record. `Waiting` adds what is needed to know that this record is
data and that there is room for it: before the end of the handshake a round leaves nothing in
the BIO, and a round only begins with room in the buffer.

`BlockGraphProofs`, for every set of well-formed functions (`ProgramsAssumption`; `OpsAssumption` keeps the names that pass 2
gives out of the bytecode) in which an instruction is executed in the same catches and rlimits however it
is reached (`BalancedAssumption`, used by `ContextsAreRight` and `EdgesAreRight`). The host's compiler closes a catch and an rlimits
in the block that opens it, and pass2 relies on that: it visits a block once. TLC evaluates the assumptions for every function of `block_graph`:

| theorem | property |
|---|---|
| `BlocksPartition` | `Partition`: blocks follow one another in order and have every instruction exactly once, however they are split |
| `CodeIsStraight` | `Straight`: after the first pass, every jump leads to the start of a block and ends its own |
| `ContextsAreRight` | `ContextsRight`: the contexts and the innermost catch of every block that is executed are those of the interpreter, and so is what every RETURN ends |
| `EdgesAreRight` | `EdgesRight`: the edges that pass3 threads lead from a block where the interpreter goes from its end, but for jumps, and the blocks reached by them hold all that is executed but jumps |

The invariant of the first two adds to these that the code is well-formed with its CAUGHTs (`CodeOK`), the types of
blocks and cursors (`BlocksOK`, `CursorOK`), and that all code before the cursor is already
split (`Progress`).

That of the third (`ContextInv`) says how far pass2 is: what is known of a block or of the cursor is right
for a configuration that the interpreter reaches (`KnownOK`, `HereOK`), handlers that stand in contexts
have been found, what is not visited is as it was, and a block that was visited has its RETURNs named and the blocks that follow it known
(`DoneOK`) or listed (`ListOK`). Once the list is empty, the configurations at hand are closed under the steps
of the interpreter, and `ExecutedLeast` (what is executed is the least set that is) gives that nothing executed was left out.

The invariant of the fourth (`EdgeInv`) is what passes 3 and 4 keep while they follow the list: a RETURN that ends no catch ends
its block (`ReturnsEnd`); nothing is counted before pass3 starts (`Uncounted`); a block that was met is executed, one that waits in the
list has the edges that pass2 gave it, and one that was visited has threaded edges with the targets met so far
(`Pass3OK`, `EdgeOK`). Threading compares landings: where the interpreter gets from an address before it executes anything
but jumps. A landing is a function over `N` steps, and that one step more makes no difference (`LandingThrough`)
is the pigeonhole principle: a chain of more than `N` jumps has been somewhere twice. When the list is empty
the blocks that were met are closed under edges (`GraphOK`), and again what is executed is the least set (`ReachedAll`).

`BlockTreeProofs`, for a function of any number of addresses and any sequence of searches and splits:

| theorem | property |
|---|---|
| `TreeTypeCorrect` | `TypeOK` |
| `FindsItsBlock` | `FindsBlock`: the search ends at the block that has the address |
| `NoNullFollowed` | `NoNullLink`: every link that `find()` follows without a test leads to a block |
| `TreeStaysWhole` | `TreeIsWhole`: between two searches the tree has every block once, in order |

The run says that the tree is in order by a recursive walk (`TreeOrdered`), about which nothing can be
proved. The theorem says it by intervals instead (`SearchTree`): there is a set of labels,
for each block an interval of blocks it is the root of, such that its left child has the part below it
and its right child the part above. While `find()` runs, the invariant (`Searching`)
has three such trees: that of the block it is at, for the interval between what was cut off to the left and to the
right, and the two that hang under the header, each a tree but for the one link where the next
block is going to be put. A rotation changes the label of two blocks; `Return` joins the three.

The type invariants are theorems and no run checks them; TLC checks them as easily.

Only model-checked:

- everything under fairness (`EventuallyNative`, `CallsReturn`, `EventuallyForgotten`, `ShutdownEnds`, `ChildEnds`,
  `InitReturns`, `CodeWritten`, `SearchEnds`), which is beyond the prover;
- `TreeOrdered`, for which `TreeIsWhole` stands in;
- `ReadAsWritten`, `TypesSound`, `RefsRight`, `Accepted`, `CodeRight` and `TicksCounted`, which compare the tables of the
  compiler's passes with recursive functions over the code.

## Not modelled

- *Third-party and pure code*: the regular expression engine (libiberty) and the zlib headers,
  `lower_case.c`, `disasm.cpp` (formatting only), the Windows variants of the system calls,
  the import of the host's function tables in `lpc_ext.c`.
- *JIT*: the cache directory exists and can be written; a cache that outlives its process when kfuns have changed.
- *Compiler*: sums (`KF_SUM`) and kfuns with lvalue arguments in the analyses and the generator; the spelling of
  LLVM code for its versions, the tables of a switch and the call of clang; functions whose
  jumps lead out of their code; dead code that jumps back; the virtual machine's functions, which are
  external and modelled as declared; `Code::~Code()` (code.cpp:927-945) frees arrays as objects.
  Programs are those that the host's compiler writes; a kfun index without a prototype is none of them.
- *Database*: offsets and parts of a request (an object's contents are one value), `db_valid`.
- *zlib*: the contents of blocks, and that an initialisation that fails leaves the object marked is taken as the
  event "init"; `malloc` is not tested by the code and does not fail.
- *TLS*: the handshake is a number of records each of which is answered; certificates, status, and what
  `tls_close` sends; `tls_send("")`.
- *regexp*: the registers of a match, of which the code has 30; that no test is made for a missing
  object; its prototype lacks the terminating 0 that doc/extensions.md:64 shows.
- *Crypto*: what is encrypted, hashed or signed; ticks; errors raised by the host's own functions
  while a kfun holds objects. Kfuns that differ in the curve or the hash only are one.

## Plan

What would come next, in this order: the lvalue kfuns and sums in `TypedAnalysis` and `GenCode`;
the registers of a match; a cache that outlives a process with other kfuns.
