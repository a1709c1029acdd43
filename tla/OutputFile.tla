----------------------------- MODULE OutputFile -----------------------------
(***************************************************************************)
(* What `valua build -o PATH` promises about the files it produces.        *)
(*                                                                         *)
(* An output file only ever holds one of whole contents: what it held      *)
(* before, or the complete text some build produced.  A build that comes   *)
(* back with an error has not touched its output; a build that reports     *)
(* success has replaced it.  A build that is killed, or that panics after  *)
(* the replacement, promises only that the replacement was all or nothing. *)
(*                                                                         *)
(* The detailed specification is AtomicWrite.tla, which refines this one.  *)
(***************************************************************************)
CONSTANTS
    Builds,    \* runs of `valua build -o`
    Paths,     \* output files
    Target,    \* Target[b]: the output file of build b
    Output,    \* Output[b]: the text build b produces
    Original,  \* Original[q]: what output path q holds before any build
    Absent     \* the content of an output file that does not exist

VARIABLES
    content,   \* content[q]: what is at output path q
    outcome    \* outcome[b]: how far build b has come

vars == <<content, outcome>>

Init ==
    /\ content \in [Paths -> {Absent} \cup {Original[q] : q \in Paths}]
    /\ \A q \in Paths : content[q] \in {Absent, Original[q]}
    /\ outcome = [b \in Builds |-> "running"]

(* The build replaces its output in one step.                              *)
Publish(b) ==
    /\ outcome[b] = "running"
    /\ content' = [content EXCEPT ![Target[b]] = Output[b]]
    /\ outcome' = [outcome EXCEPT ![b] = "published"]

(* The build returns Ok, which it may do only after it has published.      *)
Succeed(b) ==
    /\ outcome[b] = "published"
    /\ outcome' = [outcome EXCEPT ![b] = "ok"]
    /\ UNCHANGED content

(* The build returns Err: its output is as if it had never run.            *)
Fail(b) ==
    /\ outcome[b] = "running"
    /\ outcome' = [outcome EXCEPT ![b] = "failed"]
    /\ UNCHANGED content

(* The build ends without returning: killed, or panicking after the fact.  *)
Vanish(b) ==
    /\ outcome[b] \in {"running", "published"}
    /\ outcome' = [outcome EXCEPT ![b] = "lost"]
    /\ UNCHANGED content

Next == \E b \in Builds : Publish(b) \/ Succeed(b) \/ Fail(b) \/ Vanish(b)

Spec == Init /\ [][Next]_vars
=============================================================================
