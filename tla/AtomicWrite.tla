----------------------------- MODULE AtomicWrite -----------------------------
(***************************************************************************)
(* `valua build -o PATH` at the level of the file system: `cmd_build` and  *)
(* `atomic_write` of valua-cli, run by several processes at once, with     *)
(* I/O errors at every call and a kill between any two of them.            *)
(*                                                                         *)
(* A directory binds names to inodes.  The names are the output paths and  *)
(* the temporary names `.{stem}.{pid}.tmp`; an inode holds a set of        *)
(* located blocks, <<b, k>> being the k-th block of what build b writes,   *)
(* so that a file mixing two outputs, or missing the end of one, is a      *)
(* value of its own.  Creating a file under a name that is still bound     *)
(* truncates the inode it is bound to, as open(2) does.                    *)
(*                                                                         *)
(* A build is one process.  Pids are unique among live processes and are   *)
(* given out again after a process has ended, so that a build may meet the *)
(* temporary file of a dead one under its own temporary name.              *)
(***************************************************************************)
EXTENDS Naturals

CONSTANTS
    Builds,    \* processes that run cmd_build
    Paths,     \* output paths, all in one directory
    Stems,     \* file stems
    Pids,      \* process identifiers
    Target,    \* Target[b]: the output path given to build b
    Stem,      \* Stem[q]: the file stem of path q
    Blocks,    \* Blocks[b]: how many blocks the output of build b has
    None       \* unbound name, process without a pid

TmpNames == Stems \X Pids
Names    == Paths \cup TmpNames
Inodes   == Builds \cup Paths

ASSUME TargetAssumption == Target \in [Builds -> Paths]
ASSUME StemAssumption   == Stem \in [Paths -> Stems]
ASSUME BlocksAssumption == Blocks \in [Builds -> Nat]
ASSUME NameAssumption   == /\ Paths \cap TmpNames = {}
                           /\ Builds \cap Paths = {}
                           /\ None \notin Inodes \cup Pids

VARIABLES
    pc,        \* pc[b]: where build b is in cmd_build / atomic_write
    pid,       \* pid[b]: std::process::id() of build b
    pos,       \* pos[b]: blocks build b has written through its open file
    open,      \* open[b]: the inode build b's File refers to
    dir,       \* dir[n]: the inode name n is bound to
    data       \* data[i]: the blocks inode i holds

vars == <<pc, pid, pos, open, dir, data>>

-----------------------------------------------------------------------------
Live   == {"compiling", "creating", "writing", "dropping", "removing",
           "renaming", "reporting"}
Ended  == {"ok", "compile_err", "write_err", "remove_err", "rename_err",
           "panicked", "killed"}
PCs    == {"unborn"} \cup Live \cup Ended

(* Wrong: a temp file that is not this process's own.                      *)
SharedTmpName(b) == <<Stem[Target[b]], CHOOSE id \in Pids : TRUE>>

(* The sibling temp file of atomic_write: `.{stem}.{pid}.tmp`.             *)
TmpName(b) == <<Stem[Target[b]], pid[b]>>

(* The complete text of build b.                                           *)
Output == [b \in Builds |-> {b} \X (1..Blocks[b])]

(* What output path q holds before any of these builds, if it exists.      *)
Original == [q \in Paths |-> {<<q, 1>>}]

(* A write at offset k replaces whatever block was at that offset.         *)
WriteAt(file, b, k) == {blk \in file : blk[2] # k} \cup {<<b, k>>}

Goto(b, from, to) ==
    /\ pc[b] = from
    /\ pc' = [pc EXCEPT ![b] = to]

TypeOK ==
    /\ pc   \in [Builds -> PCs]
    /\ pid  \in [Builds -> Pids \cup {None}]
    /\ pos  \in [Builds -> Nat]
    /\ open \in [Builds -> Inodes \cup {None}]
    /\ dir  \in [Names -> Inodes \cup {None}]
    /\ data \in [Inodes -> SUBSET (Inodes \X Nat)]

Init ==
    /\ pc   = [b \in Builds |-> "unborn"]
    /\ pid  = [b \in Builds |-> None]
    /\ pos  = [b \in Builds |-> 0]
    /\ open = [b \in Builds |-> None]
    /\ dir \in [Names -> Paths \cup {None}]
    /\ \A q \in Paths : dir[q] \in {q, None}
    /\ \A n \in TmpNames : dir[n] = None
    /\ data = [i \in Inodes |-> IF i \in Paths THEN Original[i] ELSE {}]

-----------------------------------------------------------------------------
(* The OS starts a build and gives it a pid no live process has.           *)
Spawn(b) ==
    /\ Goto(b, "unborn", "compiling")
    /\ \E id \in Pids :
         /\ \A c \in Builds : pc[c] \in Live => pid[c] # id
         /\ pid' = [pid EXCEPT ![b] = id]
    /\ UNCHANGED <<pos, open, dir, data>>

(* read_to_string and Compiler::compile, both before any output is touched *)
Compile(b) ==
    /\ \/ Goto(b, "compiling", "creating")
       \/ Goto(b, "compiling", "compile_err")
    /\ UNCHANGED <<pid, pos, open, dir, data>>

(* The inode that File::create(&tmp) opens.                                *)
CreatedInode(b) == IF dir[TmpName(b)] = None THEN b ELSE dir[TmpName(b)]

(* Wrong: opened without truncation.                                       *)
KeptData(file) == file

(* What File::create leaves in it: it truncates.                           *)
CreatedData(file) == {}

(* File::create(&tmp) succeeds.                                            *)
CreateTmp(b) ==
    /\ Goto(b, "creating", "writing")
    /\ open' = [open EXCEPT ![b] = CreatedInode(b)]
    /\ dir'  = [dir EXCEPT ![TmpName(b)] = CreatedInode(b)]
    /\ data' = [data EXCEPT ![CreatedInode(b)] = CreatedData(@)]
    /\ UNCHANGED <<pid, pos>>

(* File::create(&tmp) fails: `?` leaves the closure, no writer to drop.    *)
CreateFails(b) ==
    /\ Goto(b, "creating", "removing")
    /\ UNCHANGED <<pid, pos, open, dir, data>>

(* One write(2), issued by write_all or by flush.                          *)
WriteBlock(b) ==
    /\ pc[b] = "writing"
    /\ pos[b] < Blocks[b]
    /\ pos'  = [pos EXCEPT ![b] = @ + 1]
    /\ data' = [data EXCEPT ![open[b]] = WriteAt(@, b, pos[b] + 1)]
    /\ UNCHANGED <<pc, pid, open, dir>>

(* Wrong: an error starts the write over.                                  *)
WriteRetries(b) ==
    /\ Goto(b, "writing", "creating")
    /\ pos[b] < Blocks[b]
    /\ UNCHANGED <<pid, pos, open, dir, data>>

(* Wrong: an error steps back over a block, the first one included.        *)
WriteRewinds(b) ==
    /\ Goto(b, "writing", "dropping")
    /\ pos[b] < Blocks[b]
    /\ pos' = [pos EXCEPT ![b] = @ - 1]
    /\ UNCHANGED <<pid, open, dir, data>>

(* write_all or flush returns Err (disk full, I/O error).                  *)
WriteFails(b) ==
    /\ Goto(b, "writing", "dropping")
    /\ pos[b] < Blocks[b]
    /\ UNCHANGED <<pid, pos, open, dir, data>>

(* Leaving the closure after an error drops the BufWriter, which tries to  *)
(* write what it still buffers, then closes the file.                      *)
DropWriter(b) ==
    /\ Goto(b, "dropping", "removing")
    /\ \E k \in pos[b]..Blocks[b] :
         /\ pos'  = [pos EXCEPT ![b] = k]
         /\ data' = [data EXCEPT ![open[b]] =
                       {blk \in @ : blk[2] \notin (pos[b] + 1)..k}
                         \cup ({b} \X ((pos[b] + 1)..k))]
    /\ open' = [open EXCEPT ![b] = None]
    /\ UNCHANGED <<pid, dir>>

(* Wrong: the error is returned without the removal.                       *)
LeaveTmp(b) ==
    /\ Goto(b, "removing", "write_err")
    /\ UNCHANGED <<pid, pos, open, dir, data>>

(* `let _ = remove_file(&tmp)`, then return the first error.  The removal  *)
(* may fail too, which is ignored; an absent file is not left behind.      *)
RemoveTmp(b) ==
    /\ \/ /\ Goto(b, "removing", "write_err")
          /\ dir' = [dir EXCEPT ![TmpName(b)] = None]
       \/ /\ Goto(b, "removing", "remove_err")
          /\ dir[TmpName(b)] # None
          /\ UNCHANGED dir
    /\ UNCHANGED <<pid, pos, open, data>>

(* Wrong: no flush before the rename.                                      *)
CloseUnflushed(b) ==
    /\ Goto(b, "writing", "renaming")
    /\ open' = [open EXCEPT ![b] = None]
    /\ UNCHANGED <<pid, pos, dir, data>>

(* flush has returned Ok: the closure ends and the file is closed.         *)
CloseTmp(b) ==
    /\ Goto(b, "writing", "renaming")
    /\ pos[b] = Blocks[b]
    /\ open' = [open EXCEPT ![b] = None]
    /\ UNCHANGED <<pid, pos, dir, data>>

(* rename(&tmp, path): one atomic step of the file system.                 *)
Rename(b) ==
    /\ Goto(b, "renaming", "reporting")
    /\ dir[TmpName(b)] # None
    /\ dir' = [dir EXCEPT ![Target[b]] = dir[TmpName(b)],
                          ![TmpName(b)] = None]
    /\ UNCHANGED <<pid, pos, open, data>>

(* rename fails: the error is returned and the temp file stays.            *)
RenameFails(b) ==
    /\ Goto(b, "renaming", "rename_err")
    /\ UNCHANGED <<pid, pos, open, dir, data>>

(* println!("{}: {bytes} bytes written"), which panics on a closed stdout. *)
Report(b) ==
    /\ \/ Goto(b, "reporting", "ok")
       \/ Goto(b, "reporting", "panicked")
    /\ UNCHANGED <<pid, pos, open, dir, data>>

(* The process is killed between two calls; the kernel closes its file.    *)
Kill(b) ==
    /\ pc[b] \in Live
    /\ pc'   = [pc EXCEPT ![b] = "killed"]
    /\ open' = [open EXCEPT ![b] = None]
    /\ UNCHANGED <<pid, pos, dir, data>>

(* What the process itself does next.                                      *)
Run(b) ==
    \/ Compile(b)
    \/ CreateTmp(b) \/ CreateFails(b)
    \/ WriteBlock(b) \/ WriteFails(b) \/ DropWriter(b) \/ RemoveTmp(b)
    \/ CloseTmp(b) \/ Rename(b) \/ RenameFails(b)
    \/ Report(b)

Next == \E b \in Builds : Spawn(b) \/ Run(b) \/ Kill(b)

Spec == Init /\ [][Next]_vars

(* The OS keeps scheduling a process, and every call returns.              *)
FairSpec == Spec /\ \A b \in Builds : WF_vars(Run(b))

-----------------------------------------------------------------------------
(* An output path that exists holds one whole text: its first one, or the  *)
(* complete output of a build aimed at it, never a prefix of one, nor two  *)
(* outputs mixed, whatever other builds, errors and kills happen around    *)
(* (main.rs, atomic_write: "Write `content` to `path` atomically").        *)
WholeOutputs ==
    \A q \in Paths : dir[q] # None =>
        \/ data[dir[q]] = Original[q]
        \/ \E b \in Builds : Target[b] = q /\ data[dir[q]] = Output[b]

(* A program that has an output file open reads a text that does not       *)
(* change under it: no step of any build writes to, or truncates, an inode *)
(* that an output path is bound to.                                        *)
PublishedFrozen ==
    [][\A q \in Paths : dir[q] # None => data'[dir[q]] = data[dir[q]]]_vars

(* A temporary file is left in the directory only by a build that still    *)
(* uses it, or that was killed, or whose removal or rename the OS refused  *)
(* (main.rs: "The temp file is removed on write failure to avoid leaving   *)
(* stale files"): none outlives a build that succeeded, or that reported a *)
(* write error after a removal that worked.                                *)
TmpAccounted ==
    \A n \in TmpNames : dir[n] # None =>
        \E b \in Builds :
            /\ n = TmpName(b)
            /\ pc[b] \in {"writing", "dropping", "removing", "renaming",
                          "killed", "remove_err", "rename_err"}

(* The outcome a caller of the process can tell from its exit.             *)
OutcomeOf(b) ==
    CASE pc[b] = "ok"        -> "ok"
      [] pc[b] = "reporting" -> "published"
      [] pc[b] \in {"compile_err", "write_err", "remove_err", "rename_err"}
                             -> "failed"
      [] pc[b] \in {"killed", "panicked"} -> "lost"
      [] OTHER               -> "running"

ContentOf(q) == IF dir[q] = None THEN None ELSE data[dir[q]]

Promise == INSTANCE OutputFile WITH
    Absent  <- None,
    content <- [q \in Paths |-> ContentOf(q)],
    outcome <- [b \in Builds |-> OutcomeOf(b)]

(* The processes implement OutputFile: outputs change only by whole        *)
(* replacement, a build returns Ok only after its replacement, and one     *)
(* that returns an error has left its output alone.                        *)
ImplementsPromise == Promise!Spec

(* A build that has started ends, whatever errors it meets: there is no    *)
(* retry loop and nothing is waited for.                                   *)
EveryBuildEnds == \A b \in Builds : pc[b] \in Live ~> pc[b] \in Ended

-----------------------------------------------------------------------------
(***************************************************************************)
(* The inductive invariant behind the safety properties above.  Why an     *)
(* output stays whole: a name bound to an inode is the only one (OneName), *)
(* so the temp file a build writes is not an output; the build's own pid   *)
(* keeps live builds from sharing a temp name (PidsDiffer); and what a     *)
(* build has written so far is exactly its own first blocks (OwnPrefix),   *)
(* because creation emptied whatever a dead build had left there.          *)
(***************************************************************************)
PidsDiffer ==
    \A b \in Builds : pc[b] \in Live =>
        /\ pid[b] \in Pids
        /\ \A c \in Builds : c # b /\ pc[c] \in Live => pid[c] # pid[b]

OneName ==
    \A m, n \in Names : dir[m] # None /\ dir[m] = dir[n] => m = n

OriginalsKept ==
    \A q \in Paths : /\ data[q] = Original[q]
                     /\ \A n \in Names : dir[n] = q => n = q

NotYetCreated ==
    \A b \in Builds : pc[b] \in {"unborn", "compiling", "creating"} =>
        /\ pos[b] = 0
        /\ \A n \in Names : dir[n] # b

OwnPrefix ==
    \A b \in Builds :
        IF pc[b] \in {"writing", "dropping"}
        THEN /\ open[b] \in Builds
             /\ dir[TmpName(b)] = open[b]
             /\ pos[b] \in 0..Blocks[b]
             /\ data[open[b]] = {b} \X (1..pos[b])
        ELSE open[b] = None

ReadyToRename ==
    \A b \in Builds : pc[b] = "renaming" =>
        /\ dir[TmpName(b)] # None
        /\ data[dir[TmpName(b)]] = Output[b]

IInv ==
    /\ TypeOK
    /\ PidsDiffer
    /\ OneName
    /\ OriginalsKept
    /\ NotYetCreated
    /\ OwnPrefix
    /\ ReadyToRename
    /\ WholeOutputs
    /\ TmpAccounted
=============================================================================
