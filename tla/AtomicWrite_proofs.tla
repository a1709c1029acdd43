------------------------- MODULE AtomicWrite_proofs -------------------------
(***************************************************************************)
(* Proofs about AtomicWrite for any number of builds, paths, stems and     *)
(* pids, and any output lengths.                                           *)
(***************************************************************************)
EXTENDS AtomicWrite, TLAPS

USE TargetAssumption, StemAssumption, BlocksAssumption, NameAssumption

(* The names of a build are names, and its temp name is no output path.    *)
LEMMA NamesOfBuild ==
    ASSUME TypeOK, NEW b \in Builds
    PROVE  /\ Target[b] \in Paths
           /\ Target[b] \in Names
           /\ pid[b] \in Pids => TmpName(b) \in TmpNames /\ TmpName(b) \in Names
           /\ \A q \in Paths : q \notin TmpNames
  BY DEF TypeOK, TmpName, TmpNames, Names

(* Two live builds have different temp names.                              *)
LEMMA TmpNamesDiffer ==
    ASSUME TypeOK, PidsDiffer, NEW b \in Builds, NEW c \in Builds, b # c,
           pc[b] \in Live, pc[c] \in Live
    PROVE  TmpName(b) # TmpName(c)
  BY DEF TypeOK, PidsDiffer, TmpName

(* Before any build has started the directory holds the originals only.    *)
LEMMA InitInv == Init => IInv
  <1> SUFFICES ASSUME Init PROVE IInv
    OBVIOUS
  <1> USE DEF Init
  <1>1. TypeOK
    BY DEF TypeOK, PCs, Live, Ended, Inodes, Original, Names
  <1>2. PidsDiffer
    BY DEF PidsDiffer, Live
  <1>3. OneName /\ OriginalsKept
    BY DEF OneName, OriginalsKept, Names, Inodes
  <1>4. NotYetCreated
    BY DEF NotYetCreated, Names, Inodes
  <1>5. OwnPrefix /\ ReadyToRename
    BY DEF OwnPrefix, ReadyToRename
  <1>6. WholeOutputs /\ TmpAccounted
    BY DEF WholeOutputs, TmpAccounted, Inodes, Names
  <1> QED
    BY <1>1, <1>2, <1>3, <1>4, <1>5, <1>6 DEF IInv

-----------------------------------------------------------------------------
(* Steps that touch no file: only pc changes, and not out of a writing     *)
(* state.                                                                  *)
LEMMA QuietInv ==
    ASSUME IInv, NEW b \in Builds,
           Compile(b) \/ CreateFails(b) \/ RenameFails(b) \/ Report(b)
    PROVE  IInv'
  <1> USE DEF Compile, CreateFails, RenameFails, Report, Goto
  <1>1. UNCHANGED <<pid, pos, open, dir, data>>
    OBVIOUS
  <1>2. PICK to \in PCs : /\ pc' = [pc EXCEPT ![b] = to]
                          /\ to # "unborn"
                          /\ to \in Live => pc[b] \in Live
                          /\ to \notin {"writing", "dropping", "renaming"}
                          /\ to \in {"compiling", "creating"} => pc[b] = "compiling"
                          /\ pc[b] \notin {"writing", "dropping"}
                          /\ pc[b] \in {"removing", "renaming"} => to = "rename_err"
    BY DEF PCs, Live, Ended
  <1>3. TypeOK'
    BY <1>1, <1>2 DEF IInv, TypeOK
  <1>4. PidsDiffer'
    BY <1>1, <1>2 DEF IInv, PidsDiffer, TypeOK, Live
  <1>5. OneName' /\ OriginalsKept' /\ WholeOutputs'
    BY <1>1 DEF IInv, OneName, OriginalsKept, WholeOutputs
  <1>6. NotYetCreated'
    BY <1>1, <1>2 DEF IInv, NotYetCreated, TypeOK
  <1>7. OwnPrefix' /\ ReadyToRename'
    BY <1>1, <1>2 DEF IInv, OwnPrefix, ReadyToRename, TypeOK, TmpName
  <1>8. TmpAccounted'
    BY <1>1, <1>2 DEF IInv, TmpAccounted, TypeOK, TmpName
  <1> QED
    BY <1>3, <1>4, <1>5, <1>6, <1>7, <1>8 DEF IInv

(* A new process takes a pid no live one has, and has no file yet.         *)
LEMMA SpawnInv ==
    ASSUME IInv, NEW b \in Builds, Spawn(b)
    PROVE  IInv'
  <1> USE DEF Spawn, Goto
  <1>1. UNCHANGED <<pos, open, dir, data>>
    OBVIOUS
  <1>2. TypeOK'
    BY DEF IInv, TypeOK, PCs, Live
  <1>3. PidsDiffer'
    BY DEF IInv, PidsDiffer, TypeOK, Live
  <1>4. OneName' /\ OriginalsKept' /\ WholeOutputs'
    BY <1>1 DEF IInv, OneName, OriginalsKept, WholeOutputs
  <1>5. NotYetCreated'
    BY DEF IInv, NotYetCreated, TypeOK
  <1>6. OwnPrefix' /\ ReadyToRename'
    BY DEF IInv, OwnPrefix, ReadyToRename, TypeOK, TmpName
  <1>7. TmpAccounted'
    BY DEF IInv, TmpAccounted, TypeOK, TmpName
  <1> QED
    BY <1>2, <1>3, <1>4, <1>5, <1>6, <1>7 DEF IInv

(* A kill closes the file and leaves the directory as it is.               *)
LEMMA KillInv ==
    ASSUME IInv, NEW b \in Builds, Kill(b)
    PROVE  IInv'
  <1> USE DEF Kill
  <1>1. UNCHANGED <<pid, pos, dir, data>>
    OBVIOUS
  <1>2. TypeOK'
    BY DEF IInv, TypeOK, PCs, Ended
  <1>3. PidsDiffer'
    BY DEF IInv, PidsDiffer, TypeOK, Live
  <1>4. OneName' /\ OriginalsKept' /\ WholeOutputs'
    BY <1>1 DEF IInv, OneName, OriginalsKept, WholeOutputs
  <1>5. NotYetCreated'
    BY DEF IInv, NotYetCreated, TypeOK
  <1>6. OwnPrefix' /\ ReadyToRename'
    BY DEF IInv, OwnPrefix, ReadyToRename, TypeOK, TmpName
  <1>7. TmpAccounted'
    BY DEF IInv, TmpAccounted, TypeOK, TmpName
  <1> QED
    BY <1>2, <1>3, <1>4, <1>5, <1>6, <1>7 DEF IInv

-----------------------------------------------------------------------------
(* Opening the temp file: the inode is either new or the one a dead build  *)
(* left under the same temp name, which nobody else is bound to or writes. *)
LEMMA CreateTmpInv ==
    ASSUME IInv, NEW b \in Builds, CreateTmp(b)
    PROVE  IInv'
  <1> DEFINE i == CreatedInode(b)
             t == TmpName(b)
  <1> USE DEF Goto
  <1>1. /\ pc[b] = "creating"
        /\ pc' = [pc EXCEPT ![b] = "writing"]
        /\ open' = [open EXCEPT ![b] = i]
        /\ dir' = [dir EXCEPT ![t] = i]
        /\ data' = [data EXCEPT ![i] = {}]
        /\ UNCHANGED <<pid, pos>>
    BY DEF CreateTmp, CreatedData
  <1>2. /\ TypeOK /\ PidsDiffer /\ OneName /\ OriginalsKept /\ NotYetCreated
        /\ OwnPrefix /\ ReadyToRename /\ WholeOutputs /\ TmpAccounted
    BY DEF IInv
  <1>3. pid[b] \in Pids /\ t \in TmpNames /\ t \in Names /\ t \notin Paths
    BY <1>1, <1>2, NamesOfBuild DEF PidsDiffer, Live
  <1>4. i \in Builds /\ i \in Inodes /\ i # None
    <2>1. CASE dir[t] = None
      BY <2>1 DEF CreatedInode, Inodes
    <2>2. CASE dir[t] # None
      BY <2>2, <1>2, <1>3 DEF CreatedInode, TypeOK, Inodes, OriginalsKept
    <2> QED
      BY <2>1, <2>2
  <1>5. \A n \in Names : n # t => dir[n] # i
    BY <1>1, <1>2, <1>3 DEF CreatedInode, OneName, NotYetCreated
  <1>6. TmpName(b)' = t /\ \A c \in Builds : TmpName(c)' = TmpName(c)
    BY <1>1 DEF TmpName
  <1>7. \A c \in Builds : c # b /\ pc[c] \in Live => TmpName(c) # t
    BY <1>1, <1>2, TmpNamesDiffer DEF Live
  <1>8. \A c \in Builds : c # b /\ pc[c] \in {"writing", "dropping", "renaming"} =>
                            TmpName(c) \in Names /\ dir[TmpName(c)] # i
    BY <1>2, <1>5, <1>7, NamesOfBuild DEF PidsDiffer, Live
  <1>9. TypeOK'
    BY <1>1, <1>2, <1>4 DEF TypeOK, PCs, Live
  <1>10. PidsDiffer'
    BY <1>1, <1>2 DEF PidsDiffer, TypeOK, Live
  <1>11. OneName'
    BY <1>1, <1>2, <1>4, <1>5 DEF OneName, TypeOK
  <1>12. OriginalsKept'
    BY <1>1, <1>2, <1>4 DEF OriginalsKept, TypeOK, Inodes
  <1>13. NotYetCreated'
    <2> SUFFICES ASSUME NEW c \in Builds,
                        pc'[c] \in {"unborn", "compiling", "creating"}
                 PROVE  pos'[c] = 0 /\ \A n \in Names : dir'[n] # c
      BY DEF NotYetCreated
    <2>1. c # b /\ pc[c] = pc'[c]
      BY <1>1, <1>2 DEF TypeOK
    <2>2. i # c
      BY <2>1, <1>2, <1>3 DEF CreatedInode, NotYetCreated
    <2> QED
      BY <1>1, <1>2, <1>3, <2>1, <2>2 DEF NotYetCreated, TypeOK
  <1>14. OwnPrefix'
    <2>1. /\ dir'[t] = i /\ open'[b] = i /\ data'[i] = {} /\ pos'[b] = 0
          /\ {b} \X (1..0) = {} /\ 0 \in 0..Blocks[b]
      BY <1>1, <1>2, <1>3, <1>4 DEF TypeOK, NotYetCreated
    <2> SUFFICES ASSUME NEW c \in Builds
                 PROVE  IF pc'[c] \in {"writing", "dropping"}
                        THEN /\ open'[c] \in Builds
                             /\ dir'[TmpName(c)] = open'[c]
                             /\ pos'[c] \in 0..Blocks[c]
                             /\ data'[open'[c]] = {c} \X (1..pos'[c])
                        ELSE open'[c] = None
      BY <1>6 DEF OwnPrefix
    <2>2. CASE c = b
      BY <1>1, <1>2, <1>4, <2>1, <2>2 DEF TypeOK
    <2>3. CASE c # b /\ pc[c] \in {"writing", "dropping"}
      <3>1. open[c] # i /\ open[c] \in Inodes /\ TmpName(c) # t
        BY <1>2, <1>7, <1>8, <2>3 DEF OwnPrefix, TypeOK, Inodes, Live
      <3> QED
        BY <1>1, <1>2, <1>8, <2>3, <3>1 DEF OwnPrefix, TypeOK
    <2>4. CASE c # b /\ pc[c] \notin {"writing", "dropping"}
      BY <1>1, <1>2, <2>4 DEF OwnPrefix, TypeOK
    <2> QED
      BY <2>2, <2>3, <2>4
  <1>15. ReadyToRename'
    BY <1>1, <1>2, <1>6, <1>7, <1>8 DEF ReadyToRename, TypeOK, Live
  <1>16. WholeOutputs'
    BY <1>1, <1>2, <1>3, <1>5 DEF WholeOutputs, TypeOK, Names
  <1>17. TmpAccounted'
    <2> SUFFICES ASSUME NEW n \in TmpNames, dir'[n] # None
                 PROVE  \E c \in Builds :
                          /\ n = TmpName(c)
                          /\ pc'[c] \in {"writing", "dropping", "removing",
                                "renaming", "killed", "remove_err", "rename_err"}
      BY <1>6 DEF TmpAccounted
    <2>1. CASE n = t
      BY <1>1, <1>2, <2>1 DEF TypeOK
    <2>2. CASE n # t
      <3>1. dir[n] # None
        BY <1>1, <1>2, <2>2 DEF TypeOK, Names
      <3> QED
        BY <1>1, <1>2, <3>1 DEF TmpAccounted, TypeOK
    <2> QED
      BY <2>1, <2>2
  <1> HIDE DEF i, t
  <1> QED
    BY <1>9, <1>10, <1>11, <1>12, <1>13, <1>14, <1>15, <1>16, <1>17 DEF IInv

-----------------------------------------------------------------------------
(* Writing touches no inode but the build's own.                           *)
LEMMA OwnInode ==
    ASSUME IInv, NEW b \in Builds, pc[b] \in {"writing", "dropping"}
    PROVE  /\ open[b] \in Builds /\ open[b] \in Inodes /\ open[b] \notin Paths
           /\ open[b] # None
           /\ \A n \in Names : n # TmpName(b) => dir[n] # open[b]
           /\ \A q \in Paths : dir[q] # open[b]
           /\ \A c \in Builds : c # b /\ pc[c] \in {"writing", "dropping"} =>
                open[c] # open[b]
           /\ \A c \in Builds : c # b /\ pc[c] = "renaming" =>
                dir[TmpName(c)] # open[b]
  <1>1. /\ open[b] \in Builds /\ open[b] \in Inodes /\ open[b] \notin Paths
        /\ open[b] # None /\ dir[TmpName(b)] = open[b]
    BY DEF IInv, OwnPrefix, Inodes
  <1>2. TmpName(b) \in TmpNames /\ TmpName(b) \in Names /\ TmpName(b) \notin Paths
    BY NamesOfBuild DEF IInv, PidsDiffer, Live
  <1>3. \A n \in Names : n # TmpName(b) => dir[n] # open[b]
    BY <1>1, <1>2 DEF IInv, OneName
  <1>4. \A q \in Paths : dir[q] # open[b]
    BY <1>2, <1>3 DEF Names
  <1>5. \A c \in Builds : c # b /\ pc[c] \in {"writing", "dropping", "renaming"} =>
            TmpName(c) \in Names /\ dir[TmpName(c)] # open[b]
    BY <1>3, NamesOfBuild, TmpNamesDiffer DEF IInv, PidsDiffer, Live
  <1> QED
    BY <1>1, <1>3, <1>4, <1>5 DEF IInv, OwnPrefix

(* One more block, at the next offset.                                     *)
LEMMA WriteBlockInv ==
    ASSUME IInv, NEW b \in Builds, WriteBlock(b)
    PROVE  IInv'
  <1>1. /\ pc[b] = "writing" /\ pos[b] < Blocks[b]
        /\ pos' = [pos EXCEPT ![b] = pos[b] + 1]
        /\ data' = [data EXCEPT ![open[b]] = WriteAt(data[open[b]], b, pos[b] + 1)]
        /\ UNCHANGED <<pc, pid, open, dir>>
    BY DEF WriteBlock
  <1>2. /\ TypeOK /\ PidsDiffer /\ OneName /\ OriginalsKept /\ NotYetCreated
        /\ OwnPrefix /\ ReadyToRename /\ WholeOutputs /\ TmpAccounted
    BY DEF IInv
  <1>3. pos[b] \in Nat /\ Blocks[b] \in Nat /\ pos[b] + 1 \in 0..Blocks[b]
    BY <1>1, <1>2 DEF TypeOK
  <1>4. WriteAt(data[open[b]], b, pos[b] + 1) = {b} \X (1..(pos[b] + 1))
    <2>1. data[open[b]] = {b} \X (1..pos[b])
      BY <1>1, <1>2 DEF OwnPrefix
    <2> QED
      BY <1>3, <2>1 DEF WriteAt
  <1>5. {b} \X (1..(pos[b] + 1)) \in SUBSET (Inodes \X Nat)
    BY <1>3 DEF Inodes
  <1>6. TypeOK'
    <2>1. pos' \in [Builds -> Nat]
      BY <1>1, <1>2, <1>3 DEF TypeOK
    <2>2. data' \in [Inodes -> SUBSET (Inodes \X Nat)]
      BY <1>1, <1>2, <1>4, <1>5 DEF TypeOK
    <2> QED
      BY <1>1, <1>2, <2>1, <2>2 DEF TypeOK
  <1>7. PidsDiffer' /\ OneName' /\ TmpAccounted'
    BY <1>1, <1>2 DEF PidsDiffer, OneName, TmpAccounted, TmpName
  <1>8. OriginalsKept' /\ WholeOutputs'
    BY <1>1, <1>2, OwnInode DEF OriginalsKept, WholeOutputs, TypeOK, Inodes
  <1>9. NotYetCreated'
    BY <1>1, <1>2 DEF NotYetCreated, TypeOK
  <1>10. OwnPrefix'
    BY <1>1, <1>2, <1>3, <1>4, OwnInode DEF OwnPrefix, TypeOK, TmpName
  <1>11. ReadyToRename'
    BY <1>1, <1>2, OwnInode DEF ReadyToRename, TypeOK, TmpName
  <1> QED
    BY <1>6, <1>7, <1>8, <1>9, <1>10, <1>11 DEF IInv

(* The writer gives up: it stays the owner of what it has written.         *)
LEMMA WriteFailsInv ==
    ASSUME IInv, NEW b \in Builds, WriteFails(b)
    PROVE  IInv'
  <1> USE DEF WriteFails, Goto
  <1>1. TypeOK'
    BY DEF IInv, TypeOK, PCs, Live
  <1>2. PidsDiffer'
    BY DEF IInv, PidsDiffer, TypeOK, Live
  <1>3. OneName' /\ OriginalsKept' /\ WholeOutputs'
    BY DEF IInv, OneName, OriginalsKept, WholeOutputs
  <1>4. NotYetCreated'
    BY DEF IInv, NotYetCreated, TypeOK
  <1>5. OwnPrefix' /\ ReadyToRename'
    BY DEF IInv, OwnPrefix, ReadyToRename, TypeOK, TmpName
  <1>6. TmpAccounted'
    BY DEF IInv, TmpAccounted, TypeOK, TmpName
  <1> QED
    BY <1>1, <1>2, <1>3, <1>4, <1>5, <1>6 DEF IInv

(* Dropping the writer may add blocks; nobody will read them.              *)
LEMMA DropWriterInv ==
    ASSUME IInv, NEW b \in Builds, DropWriter(b)
    PROVE  IInv'
  <1>picked. PICK k \in pos[b]..Blocks[b] :
          /\ pc[b] = "dropping" /\ pc' = [pc EXCEPT ![b] = "removing"]
          /\ pos' = [pos EXCEPT ![b] = k]
          /\ data' = [data EXCEPT ![open[b]] =
                        {blk \in @ : blk[2] \notin (pos[b] + 1)..k}
                          \cup ({b} \X ((pos[b] + 1)..k))]
          /\ open' = [open EXCEPT ![b] = None]
          /\ UNCHANGED <<pid, dir>>
    BY DEF DropWriter, Goto
  <1>blocks. PICK blks : blks = {blk \in data[open[b]] : blk[2] \notin (pos[b] + 1)..k}
                             \cup ({b} \X ((pos[b] + 1)..k))
    OBVIOUS
  <1>1. /\ pc[b] = "dropping" /\ pc' = [pc EXCEPT ![b] = "removing"]
        /\ pos' = [pos EXCEPT ![b] = k]
        /\ data' = [data EXCEPT ![open[b]] = blks]
        /\ open' = [open EXCEPT ![b] = None]
        /\ UNCHANGED <<pid, dir>>
    BY <1>picked, <1>blocks
  <1>2. /\ TypeOK /\ PidsDiffer /\ OneName /\ OriginalsKept /\ NotYetCreated
        /\ OwnPrefix /\ ReadyToRename /\ WholeOutputs /\ TmpAccounted
    BY DEF IInv
  <1>3. pos[b] \in Nat /\ Blocks[b] \in Nat /\ k \in Nat
    BY <1>1, <1>2 DEF TypeOK
  <1>4. blks \in SUBSET (Inodes \X Nat)
    <2>1. data[open[b]] \in SUBSET (Inodes \X Nat)
      BY <1>1, <1>2, OwnInode DEF TypeOK
    <2>2. {b} \X ((pos[b] + 1)..k) \in SUBSET (Inodes \X Nat)
      BY <1>3 DEF Inodes
    <2> QED
      BY <1>blocks, <2>1, <2>2
  <1>5. TypeOK'
    BY <1>1, <1>2, <1>3, <1>4 DEF TypeOK, PCs, Live
  <1>6. PidsDiffer'
    BY <1>1, <1>2 DEF PidsDiffer, TypeOK, Live
  <1>7. OneName' /\ TmpAccounted'
    BY <1>1, <1>2 DEF OneName, TmpAccounted, TypeOK, TmpName
  <1>8. OriginalsKept' /\ WholeOutputs'
    BY <1>1, <1>2, OwnInode DEF OriginalsKept, WholeOutputs, TypeOK, Inodes
  <1>9. NotYetCreated'
    BY <1>1, <1>2 DEF NotYetCreated, TypeOK
  <1>10. OwnPrefix'
    BY <1>1, <1>2, OwnInode DEF OwnPrefix, TypeOK, TmpName
  <1>11. ReadyToRename'
    BY <1>1, <1>2, OwnInode DEF ReadyToRename, TypeOK, TmpName
  <1> QED
    BY <1>5, <1>6, <1>7, <1>8, <1>9, <1>10, <1>11 DEF IInv

(* The temp name is unbound if it still was bound.                         *)
LEMMA RemoveTmpInv ==
    ASSUME IInv, NEW b \in Builds, RemoveTmp(b)
    PROVE  IInv'
  <1>1. PICK to \in {"write_err", "remove_err"} :
          /\ pc[b] = "removing"
          /\ pc' = [pc EXCEPT ![b] = to]
          /\ \/ dir' = [dir EXCEPT ![TmpName(b)] = None] /\ to = "write_err"
             \/ dir' = dir /\ to = "remove_err"
          /\ UNCHANGED <<pid, pos, open, data>>
    BY DEF RemoveTmp, Goto
  <1>2. /\ TypeOK /\ PidsDiffer /\ OneName /\ OriginalsKept /\ NotYetCreated
        /\ OwnPrefix /\ ReadyToRename /\ WholeOutputs /\ TmpAccounted
    BY DEF IInv
  <1>3. TmpName(b) \in TmpNames /\ TmpName(b) \in Names /\ TmpName(b) \notin Paths
    BY <1>1, <1>2, NamesOfBuild DEF PidsDiffer, Live
  <1>4. \A c \in Builds : c # b /\ pc[c] \in Live => TmpName(c) # TmpName(b)
    BY <1>1, <1>2, TmpNamesDiffer DEF Live
  <1>5. \A n \in Names : n # TmpName(b) => dir'[n] = dir[n]
    BY <1>1, <1>2 DEF TypeOK
  <1>6. \A n \in Names : dir'[n] = dir[n] \/ dir'[n] = None
    BY <1>1, <1>2 DEF TypeOK
  <1>7. TypeOK'
    BY <1>1, <1>2 DEF TypeOK, PCs, Ended
  <1>8. PidsDiffer'
    BY <1>1, <1>2 DEF PidsDiffer, TypeOK, Live
  <1>9. OneName' /\ OriginalsKept'
    BY <1>1, <1>2, <1>6 DEF OneName, OriginalsKept, Inodes
  <1>10. NotYetCreated'
    BY <1>1, <1>2, <1>6 DEF NotYetCreated, TypeOK, Inodes
  <1>11. OwnPrefix'
    <2>1. \A c \in Builds : pc[c] \in {"writing", "dropping"} =>
              c # b /\ TmpName(c) \in Names /\ dir'[TmpName(c)] = dir[TmpName(c)]
      BY <1>1, <1>2, <1>4, <1>5, NamesOfBuild DEF PidsDiffer, Live
    <2> QED
      BY <1>1, <1>2, <2>1 DEF OwnPrefix, TypeOK, TmpName
  <1>12. ReadyToRename'
    <2>1. \A c \in Builds : pc[c] = "renaming" =>
              c # b /\ TmpName(c) \in Names /\ dir'[TmpName(c)] = dir[TmpName(c)]
      BY <1>1, <1>2, <1>4, <1>5, NamesOfBuild DEF PidsDiffer, Live
    <2> QED
      BY <1>1, <1>2, <2>1 DEF ReadyToRename, TypeOK, TmpName
  <1>13. WholeOutputs'
    BY <1>1, <1>2, <1>3, <1>5 DEF WholeOutputs, Names
  <1>14. TmpAccounted'
    BY <1>1, <1>2, <1>3, <1>6 DEF TmpAccounted, TypeOK, TmpName, Names
  <1> QED
    BY <1>7, <1>8, <1>9, <1>10, <1>11, <1>12, <1>13, <1>14 DEF IInv

(* Closing after the last block: the temp file holds the whole output.     *)
LEMMA CloseTmpInv ==
    ASSUME IInv, NEW b \in Builds, CloseTmp(b)
    PROVE  IInv'
  <1> USE DEF CloseTmp, Goto
  <1>1. TypeOK'
    BY DEF IInv, TypeOK, PCs, Live
  <1>2. PidsDiffer'
    BY DEF IInv, PidsDiffer, TypeOK, Live
  <1>3. OneName' /\ OriginalsKept' /\ WholeOutputs'
    BY DEF IInv, OneName, OriginalsKept, WholeOutputs
  <1>4. NotYetCreated'
    BY DEF IInv, NotYetCreated, TypeOK
  <1>5. OwnPrefix'
    BY DEF IInv, OwnPrefix, TypeOK, TmpName
  <1>6. ReadyToRename'
    BY OwnInode DEF IInv, OwnPrefix, ReadyToRename, TypeOK, TmpName, Output
  <1>7. TmpAccounted'
    BY DEF IInv, TmpAccounted, TypeOK, TmpName
  <1> QED
    BY <1>1, <1>2, <1>3, <1>4, <1>5, <1>6, <1>7 DEF IInv

(* The rename moves a whole output onto the path.                          *)
LEMMA RenameInv ==
    ASSUME IInv, NEW b \in Builds, Rename(b)
    PROVE  IInv'
  <1> DEFINE t == TmpName(b)
             q == Target[b]
  <1>1. /\ pc[b] = "renaming" /\ pc' = [pc EXCEPT ![b] = "reporting"]
        /\ dir[t] # None
        /\ dir' = [dir EXCEPT ![q] = dir[t], ![t] = None]
        /\ UNCHANGED <<pid, pos, open, data>>
    BY DEF Rename, Goto
  <1>2. /\ TypeOK /\ PidsDiffer /\ OneName /\ OriginalsKept /\ NotYetCreated
        /\ OwnPrefix /\ ReadyToRename /\ WholeOutputs /\ TmpAccounted
    BY DEF IInv
  <1>3. t \in TmpNames /\ t \in Names /\ t \notin Paths /\ q \in Names /\ q \in Paths
    BY <1>1, <1>2, NamesOfBuild DEF PidsDiffer, Live
  <1>4. \A c \in Builds : c # b /\ pc[c] \in Live => TmpName(c) # t
    BY <1>1, <1>2, TmpNamesDiffer DEF Live
  <1>5. /\ dir'[q] = dir[t] /\ dir'[t] = None
        /\ \A n \in Names : n # t /\ n # q => dir'[n] = dir[n]
    BY <1>1, <1>2, <1>3 DEF TypeOK
  <1>6. data[dir[t]] = Output[b]
    BY <1>1, <1>2 DEF ReadyToRename
  <1>7. \A c \in Builds : c # b /\ pc[c] \in Live =>
            TmpName(c) \in Names /\ dir'[TmpName(c)] = dir[TmpName(c)]
    BY <1>2, <1>3, <1>4, <1>5, NamesOfBuild DEF PidsDiffer
  <1>8. \A c \in Builds : TmpName(c)' = TmpName(c)
    BY <1>1 DEF TmpName
  <1>9. data' = data /\ dir[t] # None /\ OneName /\ OriginalsKept /\ WholeOutputs
    BY <1>1, <1>2
  <1>10. TypeOK'
    BY <1>1, <1>2, <1>3 DEF TypeOK, PCs, Live
  <1>11. PidsDiffer'
    BY <1>1, <1>2 DEF PidsDiffer, TypeOK, Live
  <1>12. OneName'
    BY <1>9, <1>3, <1>5 DEF OneName
  <1>13. OriginalsKept'
    BY <1>9, <1>3, <1>5 DEF OriginalsKept, Inodes
  <1>14. NotYetCreated'
    <2> SUFFICES ASSUME NEW c \in Builds,
                        pc'[c] \in {"unborn", "compiling", "creating"}
                 PROVE  pos'[c] = 0 /\ \A n \in Names : dir'[n] # c
      BY DEF NotYetCreated
    <2>1. pc[c] \in {"unborn", "compiling", "creating"}
      BY <1>1, <1>2 DEF TypeOK
    <2> QED
      <3>1. pos[c] = 0 /\ pos' = pos /\ \A n \in Names : dir[n] # c
        BY <1>1, <1>2, <2>1 DEF NotYetCreated
      <3>2. c # None
        BY DEF Inodes
      <3> QED
        BY <1>3, <1>5, <3>1, <3>2
  <1>15. OwnPrefix'
    BY <1>1, <1>2, <1>7, <1>8 DEF OwnPrefix, TypeOK, Live
  <1>16. ReadyToRename'
    BY <1>1, <1>2, <1>7, <1>8 DEF ReadyToRename, TypeOK, Live
  <1>17. WholeOutputs'
    <2> SUFFICES ASSUME NEW r \in Paths, dir'[r] # None
                 PROVE  \/ data'[dir'[r]] = Original[r]
                        \/ \E c \in Builds : Target[c] = r /\ data'[dir'[r]] = Output[c]
      BY DEF WholeOutputs
    <2>1. CASE r = q
      BY <1>1, <1>5, <1>6, <2>1 DEF q, t
    <2>2. CASE r # q
      <3>1. r \in Names /\ r # t /\ dir'[r] = dir[r]
        BY <1>3, <1>5, <2>2 DEF Names
      <3> QED
        BY <1>9, <3>1 DEF WholeOutputs
    <2> QED
      BY <2>1, <2>2
  <1>18. TmpAccounted'
    <2> SUFFICES ASSUME NEW n \in TmpNames, dir'[n] # None
                 PROVE  \E c \in Builds :
                          /\ n = TmpName(c)
                          /\ pc'[c] \in {"writing", "dropping", "removing",
                                "renaming", "killed", "remove_err", "rename_err"}
      BY <1>1 DEF TmpAccounted, TmpName
    <2>1. n # t /\ n # q /\ n \in Names
      BY <1>3, <1>5, NameAssumption DEF Names
    <2>2. dir[n] # None
      BY <1>5, <2>1
    <2>3. PICK c \in Builds :
            /\ n = TmpName(c)
            /\ pc[c] \in {"writing", "dropping", "removing",
                  "renaming", "killed", "remove_err", "rename_err"}
      BY <1>2, <2>2 DEF TmpAccounted
    <2> QED
      BY <1>1, <1>2, <2>1, <2>3 DEF TypeOK, t
  <1> QED
    BY <1>10, <1>11, <1>12, <1>13, <1>14, <1>15, <1>16, <1>17, <1>18 DEF IInv

-----------------------------------------------------------------------------
(* Every step keeps the invariant, one lemma per kind of step.             *)
LEMMA StepInv == IInv /\ [Next]_vars => IInv'
  <1> SUFFICES ASSUME IInv, [Next]_vars PROVE IInv'
    OBVIOUS
  <1>1. ASSUME NEW b \in Builds, Spawn(b) \/ Run(b) \/ Kill(b)
        PROVE  IInv'
    BY <1>1, SpawnInv, KillInv, QuietInv, CreateTmpInv, WriteBlockInv,
       WriteFailsInv, DropWriterInv, RemoveTmpInv, CloseTmpInv, RenameInv
       DEF Run
  <1>2. CASE UNCHANGED vars
    BY <1>2 DEF vars, IInv, TypeOK, PidsDiffer, OneName, OriginalsKept,
       NotYetCreated, OwnPrefix, ReadyToRename, WholeOutputs, TmpAccounted, TmpName
  <1> QED
    BY <1>1, <1>2 DEF Next

(* The inductive invariant holds of every behaviour.                       *)
THEOREM AlwaysIInv == Spec => []IInv
  BY InitInv, StepInv, PTL DEF Spec

(* The processes, the directory and the inodes are typed in every state    *)
(* reached, for any builds, paths and pids (AtomicWrite.TypeOK).           *)
THEOREM FilesTyped == Spec => []TypeOK
  BY AlwaysIInv, PTL DEF IInv

(* For every number of concurrent builds, every pid assignment and reuse,  *)
(* and every place an error or a kill can strike, an output path only ever *)
(* holds a whole text (atomic_write).                                      *)
THEOREM OutputsWhole == Spec => []WholeOutputs
  BY AlwaysIInv, PTL DEF IInv

(* A temp file still in the directory belongs to a build that is using it, *)
(* was killed, or was refused its removal or its rename (atomic_write).    *)
THEOREM TmpsAccounted == Spec => []TmpAccounted
  BY AlwaysIInv, PTL DEF IInv

-----------------------------------------------------------------------------
(* The inode a step writes is a temp file's, and OneName says that no      *)
(* output path is bound to it.                                             *)
LEMMA StepFrozen ==
    IInv /\ [Next]_vars =>
        \A q \in Paths : dir[q] # None => data'[dir[q]] = data[dir[q]]
  <1> SUFFICES ASSUME IInv, [Next]_vars, NEW q \in Paths, dir[q] # None
               PROVE  data'[dir[q]] = data[dir[q]]
    OBVIOUS
  <1>1. /\ TypeOK /\ PidsDiffer /\ OneName /\ NotYetCreated
        /\ q \in Names /\ dir[q] \in Inodes
    BY DEF IInv, TypeOK, Names
  <1>2. CASE data' = data
    BY <1>2
  <1>3. ASSUME NEW b \in Builds, CreateTmp(b)
        PROVE  data'[dir[q]] = data[dir[q]]
    <2>1. /\ pc[b] = "creating"
          /\ data' = [data EXCEPT ![CreatedInode(b)] = {}]
      BY <1>3 DEF CreateTmp, CreatedData, Goto
    <2>2. TmpName(b) \in Names /\ TmpName(b) # q
      BY <1>1, <2>1, NamesOfBuild DEF PidsDiffer, Live
    <2>3. CreatedInode(b) # dir[q]
      BY <1>1, <2>1, <2>2 DEF CreatedInode, OneName, NotYetCreated
    <2> QED
      BY <1>1, <2>1, <2>3 DEF TypeOK
  <1>4. ASSUME NEW b \in Builds, WriteBlock(b) \/ DropWriter(b)
        PROVE  data'[dir[q]] = data[dir[q]]
    <2>1. /\ pc[b] \in {"writing", "dropping"}
          /\ \E blks : data' = [data EXCEPT ![open[b]] = blks]
      BY <1>4 DEF WriteBlock, DropWriter, Goto
    <2> QED
      BY <1>1, <2>1, OwnInode DEF TypeOK
  <1> QED
    BY <1>2, <1>3, <1>4
       DEF Next, Run, vars, Spawn, Compile, CreateFails, WriteFails, RemoveTmp,
           CloseTmp, Rename, RenameFails, Report, Kill

(* No step of any build writes to, or truncates, what an output path is    *)
(* bound to: a reader of an output never sees it change (atomic_write).    *)
THEOREM OutputsFrozen == Spec => PublishedFrozen
  <1>1. IInv /\ [Next]_vars =>
          [\A q \in Paths : dir[q] # None => data'[dir[q]] = data[dir[q]]]_vars
    BY StepFrozen
  <1> QED
    BY <1>1, AlwaysIInv, PTL DEF Spec, PublishedFrozen

-----------------------------------------------------------------------------
Contents == [q \in Paths |-> ContentOf(q)]
Outcome  == [b \in Builds |-> OutcomeOf(b)]

(* The originals, and no outcome yet, are what OutputFile starts from.     *)
LEMMA InitRefines == Init => Promise!Init
  <1> SUFFICES ASSUME Init PROVE Promise!Init
    OBVIOUS
  <1>1. \A q \in Paths : ContentOf(q) \in {None, Original[q]}
    BY DEF Init, ContentOf, Inodes
  <1>2. \A b \in Builds : OutcomeOf(b) = "running"
    BY DEF Init, OutcomeOf
  <1> QED
    BY <1>1, <1>2 DEF Promise!Init

(* A step that leaves the bindings of the output paths alone leaves their  *)
(* contents alone.                                                         *)
LEMMA SameContents ==
    ASSUME IInv, [Next]_vars, \A q \in Paths : dir'[q] = dir[q]
    PROVE  Contents' = Contents
  BY StepFrozen DEF Contents, ContentOf

(* Only the build that takes the step changes its outcome.                 *)
LEMMA OneOutcome ==
    ASSUME TypeOK, NEW b \in Builds, NEW to \in PCs, pc' = [pc EXCEPT ![b] = to]
    PROVE  /\ Outcome' = [Outcome EXCEPT ![b] = OutcomeOf(b)']
           /\ pc'[b] = to
           /\ OutcomeOf(b)' = OutcomeOf(b) => Outcome' = Outcome
  <1>1. pc'[b] = to /\ \A c \in Builds : c # b => pc'[c] = pc[c]
    BY DEF TypeOK
  <1>2. \A c \in Builds : c # b => OutcomeOf(c)' = OutcomeOf(c)
    BY <1>1 DEF OutcomeOf
  <1> QED
    BY <1>1, <1>2 DEF Outcome

(* A rename is a Publish, a report a Succeed, an error a Fail, a kill or a *)
(* panic a Vanish; every other step is a stutter.                          *)
LEMMA StepRefines == IInv /\ [Next]_vars => [Promise!Next]_(Promise!vars)
  <1> SUFFICES ASSUME IInv, [Next]_vars PROVE [Promise!Next]_(Promise!vars)
    OBVIOUS
  <1>1. TypeOK /\ PidsDiffer
    BY DEF IInv
  <1>2. Contents' = Contents /\ Outcome' = Outcome => UNCHANGED Promise!vars
    BY DEF Promise!vars, Contents, Outcome
  <1>3. CASE UNCHANGED vars
    <2>1. Outcome' = Outcome /\ Contents' = Contents
      BY <1>3 DEF vars, Outcome, OutcomeOf, Contents, ContentOf
    <2> QED
      BY <1>2, <2>1
  <1>4. ASSUME NEW b \in Builds,
               \/ Spawn(b) \/ CreateTmp(b) \/ CreateFails(b) \/ WriteFails(b)
               \/ DropWriter(b) \/ CloseTmp(b)
               \/ Goto(b, "compiling", "creating") /\ Compile(b)
        PROVE  UNCHANGED Promise!vars
    <2>1. PICK to \in PCs : /\ pc' = [pc EXCEPT ![b] = to]
                            /\ OutcomeOf(b) = "running"
                            /\ to \in {"compiling", "creating", "writing",
                                       "removing", "dropping", "renaming"}
      BY <1>4 DEF Spawn, CreateTmp, CreateFails, WriteFails, DropWriter,
                  CloseTmp, Goto, OutcomeOf, PCs, Live
    <2>2. OutcomeOf(b)' = "running"
      BY <1>1, <2>1, OneOutcome DEF OutcomeOf
    <2>3. \A q \in Paths : dir'[q] = dir[q]
      BY <1>1, <1>4, NamesOfBuild
         DEF Spawn, CreateTmp, CreateFails, WriteFails, DropWriter, CloseTmp,
             Compile, Goto, TypeOK, PidsDiffer, Live, Names
    <2> QED
      BY <1>1, <1>2, <2>1, <2>2, <2>3, OneOutcome, SameContents
  <1>5. ASSUME NEW b \in Builds, WriteBlock(b)
        PROVE  UNCHANGED Promise!vars
    <2>1. UNCHANGED <<pc, dir>>
      BY <1>5 DEF WriteBlock
    <2> QED
      BY <1>2, <2>1, SameContents DEF Outcome, OutcomeOf
  <1>6. ASSUME NEW b \in Builds,
               \/ Goto(b, "compiling", "compile_err") /\ Compile(b)
               \/ RemoveTmp(b) \/ RenameFails(b)
        PROVE  Promise!Fail(b)
    <2>1. PICK to \in {"compile_err", "write_err", "remove_err", "rename_err"} :
            /\ pc' = [pc EXCEPT ![b] = to] /\ to \in PCs
            /\ OutcomeOf(b) = "running"
      BY <1>6 DEF Compile, RemoveTmp, RenameFails, Goto, OutcomeOf, PCs, Ended
    <2>2. OutcomeOf(b)' = "failed"
      BY <1>1, <2>1, OneOutcome DEF OutcomeOf
    <2>3. \A q \in Paths : dir'[q] = dir[q]
      BY <1>1, <1>6, NamesOfBuild
         DEF Compile, RemoveTmp, RenameFails, Goto, TypeOK, PidsDiffer, Live, Names
    <2> QED
      BY <1>1, <2>1, <2>2, <2>3, OneOutcome, SameContents
         DEF Promise!Fail, Outcome, Contents
  <1>7. ASSUME NEW b \in Builds, Rename(b)
        PROVE  Promise!Publish(b)
    <2>1. /\ pc[b] = "renaming" /\ pc' = [pc EXCEPT ![b] = "reporting"]
          /\ dir[TmpName(b)] # None /\ data' = data
          /\ dir' = [dir EXCEPT ![Target[b]] = dir[TmpName(b)], ![TmpName(b)] = None]
      BY <1>7 DEF Rename, Goto
    <2>2. TmpName(b) \in Names /\ TmpName(b) \notin Paths /\ Target[b] \in Names
      BY <1>1, <2>1, NamesOfBuild DEF PidsDiffer, Live
    <2>3. OutcomeOf(b) = "running" /\ OutcomeOf(b)' = "published"
      BY <1>1, <2>1, OneOutcome DEF OutcomeOf, PCs, Live
    <2>4. data[dir[TmpName(b)]] = Output[b]
      BY <2>1 DEF IInv, ReadyToRename
    <2>5. \A q \in Paths : dir'[q] = IF q = Target[b] THEN dir[TmpName(b)] ELSE dir[q]
      BY <1>1, <2>1, <2>2 DEF TypeOK, Names
    <2>6. \A q \in Paths : ContentOf(q)' = IF q = Target[b] THEN Output[b] ELSE ContentOf(q)
      <3>1. data' = data /\ dir[TmpName(b)] # None
        BY <2>1
      <3> QED
        BY <2>4, <2>5, <3>1 DEF ContentOf
    <2>7. Contents' = [Contents EXCEPT ![Target[b]] = Output[b]]
      BY <2>6 DEF Contents
    <2> QED
      BY <1>1, <2>1, <2>3, <2>7, OneOutcome
         DEF Promise!Publish, Outcome, Contents, PCs, Live
  <1>8. ASSUME NEW b \in Builds, Report(b) \/ Kill(b)
        PROVE  Promise!Succeed(b) \/ Promise!Vanish(b)
    <2>1. PICK to \in {"ok", "panicked", "killed"} :
            /\ pc' = [pc EXCEPT ![b] = to] /\ to \in PCs
            /\ OutcomeOf(b) \in {"running", "published"}
            /\ to = "ok" => OutcomeOf(b) = "published"
      BY <1>8 DEF Report, Kill, Goto, OutcomeOf, PCs, Ended, Live
    <2>2. OutcomeOf(b)' = IF to = "ok" THEN "ok" ELSE "lost"
      BY <1>1, <2>1, OneOutcome DEF OutcomeOf
    <2>3. \A q \in Paths : dir'[q] = dir[q]
      BY <1>8 DEF Report, Kill
    <2> QED
      BY <1>1, <2>1, <2>2, <2>3, OneOutcome, SameContents
         DEF Promise!Succeed, Promise!Vanish, Outcome, Contents
  <1> QED
    BY <1>3, <1>4, <1>5, <1>6, <1>7, <1>8
       DEF Next, Run, Compile, Promise!Next

(* The processes implement the abstract promise: an output changes only by *)
(* the replacement of its whole content, a build returns Ok only after its *)
(* replacement, and a build that returns Err never replaced anything       *)
(* (cmd_build, atomic_write).                                              *)
THEOREM BuildsKeepPromise == Spec => ImplementsPromise
  BY InitRefines, StepRefines, AlwaysIInv, PTL
     DEF Spec, ImplementsPromise, Promise!Spec
=============================================================================
