---------------------------- MODULE AuditLogProofs ----------------------------
(***************************************************************************)
(* AuditLog for any callers, processes and bounds: types, the mutex, whole  *)
(* lines within a process, the refinement of Trail, and what faults cost.   *)
(***************************************************************************)
EXTENDS AuditLog, Functions, FiniteSetTheorems, TLAPS

USE AuditAssumption

\* Everything is empty at first.
LEMMA InitTypeOK == Init => TypeOK
BY DEF Init, TypeOK, PC

\* Every action preserves the types.
LEMMA NextTypeOK == TypeOK /\ [Next]_vars => TypeOK'
<1> SUFFICES ASSUME TypeOK, [Next]_vars PROVE TypeOK'
  OBVIOUS
<1> USE DEF TypeOK
<1>1. ASSUME NEW c \in Caller, NEW part \in {"line", "head", "tail"}, Put(c, part)
      PROVE  file' \in Seq(Chunk)
  <2>1. [entry |-> Entry(c), part |-> part] \in Chunk
    BY DEF Entry, Chunk
  <2> QED
    BY <1>1, <2>1 DEF Put
<1>2. ASSUME NEW c \in Caller, NEW answer \in {"ok", "err"},
             told' = [told EXCEPT ![c] = Append(@, answer)]
      PROVE  told' \in [Caller -> Seq({"ok", "err"})]
  <2>1. Append(told[c], answer) \in Seq({"ok", "err"})
    OBVIOUS
  <2> QED
    BY <1>2, <2>1
<1>3. \A c \in Caller, l \in PC : Goto(c, l) => pc' \in [Caller -> PC]
  BY DEF Goto
<1>4. \A c \in Caller, b \in BOOLEAN :
        Answer(c, b) => pc' \in [Caller -> PC] /\ err' \in [Caller -> BOOLEAN]
  <2>1. "return" \in PC
    BY DEF PC
  <2> QED
    BY <1>3, <2>1 DEF Answer
<1>5. Fault \/ UNCHANGED faults => faults' \in Nat
  BY DEF Fault
<1>6. /\ "prepare" \in PC /\ "idle" \in PC /\ "lock" \in PC /\ "open" \in PC
      /\ "write" \in PC /\ "rest" \in PC /\ "dead" \in PC
  BY DEF PC
<1>7. ASSUME NEW c \in Caller, Call(c) PROVE TypeOK'
  BY <1>3, <1>6, <1>7 DEF Call
<1>8. ASSUME NEW c \in Caller, Prepare(c) PROVE TypeOK'
  BY <1>2, <1>3, <1>5, <1>6, <1>8 DEF Prepare
<1>9. ASSUME NEW c \in Caller, Lock(c) PROVE TypeOK'
  BY <1>3, <1>6, <1>9 DEF Lock
<1>10. ASSUME NEW c \in Caller, Open(c) PROVE TypeOK'
  BY <1>3, <1>4, <1>5, <1>6, <1>10 DEF Open
<1>11. ASSUME NEW c \in Caller, Write(c) PROVE TypeOK'
  <2>1. file' \in Seq(Chunk)
    BY <1>1, <1>11 DEF Write, WriteLine
  <2> QED
    BY <1>3, <1>4, <1>5, <1>6, <1>11, <2>1 DEF Write, WriteLine
<1>12. ASSUME NEW c \in Caller, Rest(c) PROVE TypeOK'
  <2>1. file' \in Seq(Chunk)
    BY <1>1, <1>12 DEF Rest, Complete
  <2> QED
    BY <1>4, <1>12, <2>1 DEF Rest, Complete
<1>13. ASSUME NEW c \in Caller, Return(c) PROVE TypeOK'
  BY <1>2, <1>3, <1>6, <1>13 DEF Return, Release
<1>14. ASSUME NEW p \in Process, Kill(p) PROVE TypeOK'
  BY <1>5, <1>6, <1>14 DEF Kill
<1>15. CASE UNCHANGED vars
  BY <1>15 DEF vars
<1> QED
  BY <1>7, <1>8, <1>9, <1>10, <1>11, <1>12, <1>13, <1>14, <1>15 DEF Next, Proceed

\* Types are an invariant.
THEOREM TypeCorrect == Spec => []TypeOK
<1> QED
  BY InitTypeOK, NextTypeOK, PTL DEF Spec

-----------------------------------------------------------------------------
\* A write adds one chunk at the end of the file.
LEMMA Appended ==
    ASSUME TypeOK, NEW c \in Caller, NEW part, Put(c, part)
    PROVE  /\ DOMAIN file = 1 .. Len(file) /\ Len(file) \in Nat
           /\ DOMAIN file' = 1 .. (Len(file) + 1)
           /\ \A i \in DOMAIN file : file'[i] = file[i]
           /\ \A i \in DOMAIN file : Writer(i)' = Writer(i)
           /\ \A i \in DOMAIN file' \ DOMAIN file :
                 /\ i = Len(file) + 1
                 /\ file'[i].entry = Entry(c) /\ file'[i].part = part
                 /\ Writer(i)' = c
<1> DEFINE chunk == [entry |-> Entry(c), part |-> part]
<1>1. file \in Seq(Chunk) /\ file' = Append(file, chunk)
  BY DEF TypeOK, Put
<1>2. /\ DOMAIN file = 1 .. Len(file) /\ Len(file) \in Nat
      /\ DOMAIN file' = 1 .. (Len(file) + 1)
      /\ \A i \in DOMAIN file : file'[i] = file[i]
      /\ file'[Len(file) + 1] = chunk
  <2> HIDE DEF chunk
  <2> QED
    BY <1>1
<1>3. chunk.entry = Entry(c) /\ chunk.part = part /\ Entry(c)[1] = c
  BY DEF Entry
<1> HIDE DEF chunk
<1>4. ASSUME NEW i \in DOMAIN file' \ DOMAIN file
      PROVE  i = Len(file) + 1 /\ file'[i] = chunk
  BY <1>2
<1> QED
  BY <1>2, <1>3, <1>4 DEF Writer

\* What a chunk records.
LEMMA ChunkTyped ==
    ASSUME TypeOK, NEW i \in DOMAIN file
    PROVE  /\ i \in Nat
           /\ file[i].entry = <<Writer(i), file[i].entry[2]>>
           /\ Writer(i) \in Caller /\ file[i].entry[2] \in Nat
           /\ Len(told[Writer(i)]) \in Nat
           /\ ProcOf[Writer(i)] \in Process
<1>1. file \in Seq(Chunk) /\ file[i] \in Chunk /\ i \in Nat
  BY DEF TypeOK
<1>2. file[i].entry \in Caller \X Nat
  BY <1>1 DEF Chunk
<1>3. Writer(i) \in Caller /\ file[i].entry[2] \in Nat
  BY <1>2 DEF Writer
<1>4. told[Writer(i)] \in Seq({"ok", "err"})
  BY <1>3 DEF TypeOK
<1> QED
  BY <1>1, <1>2, <1>3, <1>4 DEF Writer

\* A step leaves the file alone or is the write of a caller that is writing; a
\* tail is what it writes second, and only a head, which takes a fault, leaves
\* it with more to write.
LEMMA Writing ==
    ASSUME TypeOK, [Next]_vars, file' # file
    PROVE  \E c \in Caller, part \in {"line", "head", "tail"} :
              /\ Put(c, part)
              /\ pc[c] = (IF part = "tail" THEN "rest" ELSE "write")
              /\ pc' = [pc EXCEPT ![c] = IF part = "head" THEN "rest" ELSE "return"]
              /\ UNCHANGED <<told, fileMu>>
              /\ part = "head" => Fault
<1> USE DEF Goto
<1>1. ASSUME NEW c \in Caller, Write(c) \/ Rest(c)
      PROVE  \E part \in {"line", "head", "tail"} :
              /\ Put(c, part)
              /\ pc[c] = (IF part = "tail" THEN "rest" ELSE "write")
              /\ pc' = [pc EXCEPT ![c] = IF part = "head" THEN "rest" ELSE "return"]
              /\ UNCHANGED <<told, fileMu>>
              /\ part = "head" => Fault
  <2>1. CASE Write(c)
    BY <2>1 DEF Write, WriteLine, Answer
  <2>2. CASE Rest(c)
    BY <2>2 DEF Rest, Complete, Answer
  <2> QED
    BY <1>1, <2>1, <2>2
<1>2. ASSUME NEW c \in Caller,
             Call(c) \/ Prepare(c) \/ Lock(c) \/ Open(c) \/ Return(c)
      PROVE  FALSE
  BY <1>2 DEF Call, Prepare, Lock, Open, Return
<1>3. ASSUME NEW p \in Process, Kill(p) PROVE FALSE
  BY <1>3 DEF Kill
<1> QED
  BY <1>1, <1>2, <1>3 DEF Next, Proceed, vars

\* The mutex is with the caller that is past Lock, whatever happens to others.
LEMMA MutexKept ==
    ASSUME TypeOK, MutexHeld, [Next]_vars
    PROVE  MutexHeld'
<1> USE DEF TypeOK, MutexHeld, Inside, Goto
<1>1. ASSUME NEW c \in Caller, Call(c) \/ Prepare(c) PROVE MutexHeld'
  BY <1>1 DEF Call, Prepare
<1>2. ASSUME NEW c \in Caller, Lock(c) PROVE MutexHeld'
  BY <1>2 DEF Lock, Unlocked
<1>3. ASSUME NEW c \in Caller, Open(c) \/ Write(c) \/ Rest(c) PROVE MutexHeld'
  BY <1>3 DEF Open, Write, WriteLine, Rest, Complete, Answer
<1>4. ASSUME NEW c \in Caller, Return(c) PROVE MutexHeld'
  BY <1>4 DEF Return, Release
<1>5. ASSUME NEW p \in Process, Kill(p) PROVE MutexHeld'
  BY <1>5 DEF Kill
<1>6. CASE UNCHANGED vars
  BY <1>6 DEF vars
<1> QED
  BY <1>1, <1>2, <1>3, <1>4, <1>5, <1>6 DEF Next, Proceed

\* A caller stays where it is, or its call has come to its end, in every step
\* that is no write: no caller gets to "rest" that way.
LEMMA Elsewhere ==
    ASSUME TypeOK, [Next]_vars, file' = file, NEW c \in Caller
    PROVE  /\ \/ UNCHANGED told[c]
              \/ Len(told'[c]) = Len(told[c]) + 1 /\ pc[c] \in {"prepare", "return"}
           /\ pc'[c] = "rest" => pc[c] = "rest" /\ UNCHANGED told[c]
           /\ pc[c] \in {"rest", "dead"} => pc'[c] \in {"rest", "return", "dead"}
           /\ pc[c] = "return" /\ UNCHANGED told[c] => pc'[c] \in {"return", "dead"}
<1> DEFINE Fine ==
      /\ \/ UNCHANGED told[c]
         \/ Len(told'[c]) = Len(told[c]) + 1 /\ pc[c] \in {"prepare", "return"}
      /\ pc'[c] = "rest" => pc[c] = "rest" /\ UNCHANGED told[c]
      /\ pc[c] \in {"rest", "dead"} => pc'[c] \in {"rest", "return", "dead"}
      /\ pc[c] = "return" /\ UNCHANGED told[c] => pc'[c] \in {"return", "dead"}
<1> USE DEF TypeOK, Goto
<1>1. ASSUME NEW answer \in {"ok", "err"}, told'[c] = Append(told[c], answer)
      PROVE  Len(told'[c]) = Len(told[c]) + 1 /\ told'[c] # told[c]
  <2>1. told[c] \in Seq({"ok", "err"})
    OBVIOUS
  <2>2. Len(Append(told[c], answer)) = Len(told[c]) + 1 /\ Len(told[c]) \in Nat
    BY <2>1
  <2> QED
    BY <1>1, <2>2
<1>2. ASSUME NEW d \in Caller, Call(d) \/ Lock(d) \/ Open(d) PROVE Fine
  BY <1>2 DEF Call, Lock, Open, Answer
<1>3. ASSUME NEW d \in Caller, Prepare(d) PROVE Fine
  BY <1>1, <1>3 DEF Prepare
<1>4. ASSUME NEW d \in Caller, Return(d) PROVE Fine
  BY <1>1, <1>4 DEF Return
<1>5. ASSUME NEW d \in Caller, Write(d) \/ Rest(d) PROVE Fine
  <2>1. ~\E part : Put(d, part)
    BY Appended
  <2> QED
    BY <1>5, <2>1 DEF Write, WriteLine, Rest, Complete, Answer
<1>6. ASSUME NEW p \in Process, Kill(p) PROVE Fine
  BY <1>6 DEF Kill
<1>7. CASE UNCHANGED vars
  BY <1>7 DEF vars
<1>8. Fine
  BY <1>2, <1>3, <1>4, <1>5, <1>6, <1>7 DEF Next, Proceed
<1> QED
  BY <1>8

\* No chunk is of a later call than the one its writer is in.
LEMMA NotAheadKept ==
    ASSUME TypeOK, NotAhead, [Next]_vars
    PROVE  NotAhead'
<1> SUFFICES ASSUME NEW i \in DOMAIN file'
             PROVE  LET e == file'[i].entry
                    IN  \/ e[2] <= Len(told'[e[1]])
                        \/ e[2] = Len(told'[e[1]]) + 1
                           /\ pc'[e[1]] \in {"rest", "return", "dead"}
  BY DEF NotAhead
<1>1. CASE file' = file
  <2>1. i \in DOMAIN file /\ file'[i] = file[i]
    BY <1>1
  <2>2. PICK c \in Caller : c = Writer(i)
    BY <2>1, ChunkTyped
  <2>3. file[i].entry = <<c, file[i].entry[2]>> /\ file[i].entry[2] \in Nat
        /\ Len(told[c]) \in Nat
    BY <2>1, <2>2, ChunkTyped
  <2>4. \/ file[i].entry[2] <= Len(told[c])
        \/ file[i].entry[2] = Len(told[c]) + 1
           /\ pc[c] \in {"rest", "return", "dead"}
    BY <2>1, <2>2 DEF NotAhead, Writer
  <2>5. \/ UNCHANGED told[c]
        \/ Len(told'[c]) = Len(told[c]) + 1
    BY <1>1, Elsewhere
  <2>6. pc[c] \in {"rest", "return", "dead"} /\ UNCHANGED told[c]
        => pc'[c] \in {"rest", "return", "dead"}
    BY <1>1, Elsewhere
  <2> QED
    BY <2>1, <2>2, <2>3, <2>4, <2>5, <2>6 DEF Writer
<1>2. CASE file' # file
  <2>1. PICK c \in Caller, part \in {"line", "head", "tail"} :
          /\ Put(c, part)
          /\ pc[c] = (IF part = "tail" THEN "rest" ELSE "write")
          /\ pc' = [pc EXCEPT ![c] = IF part = "head" THEN "rest" ELSE "return"]
          /\ UNCHANGED <<told, fileMu>>
    BY <1>2, Writing
  <2>2. pc'[c] \in {"rest", "return"} /\ \A d \in Caller \ {c} : pc'[d] = pc[d]
    BY <2>1 DEF TypeOK
  <2>3. CASE i \in DOMAIN file
    <3>1. file'[i] = file[i] /\ Writer(i) \in Caller
      BY <2>1, <2>3, Appended, ChunkTyped
    <3> QED
      BY <2>1, <2>2, <2>3, <3>1 DEF NotAhead, Writer
  <2>4. CASE i \notin DOMAIN file
    <3>1. file'[i].entry = Entry(c)
      BY <2>1, <2>4, Appended
    <3> QED
      BY <2>1, <2>2, <3>1 DEF Entry
  <2> QED
    BY <2>3, <2>4
<1> QED
  BY <1>1, <1>2

\* Two callers of one process are not both past Lock.
LEMMA OneInside ==
    ASSUME MutexHeld, NEW c \in Caller, NEW d \in Caller, ProcOf[c] = ProcOf[d],
           pc[c] \in Inside, pc[d] \in Inside
    PROVE  c = d
BY DEF MutexHeld

\* The head of a line whose tail is still to come is its process's last word.
LEMMA HeadLastKept ==
    ASSUME TypeOK, MutexHeld, NotAhead, HeadLast, [Next]_vars
    PROVE  HeadLast'
<1> SUFFICES ASSUME NEW i \in DOMAIN file', pc'[Writer(i)'] = "rest",
                    file'[i].entry = <<Writer(i)', Len(told'[Writer(i)']) + 1>>
             PROVE  /\ file'[i].part = "head"
                    /\ \A k \in DOMAIN file' :
                          k > i => ProcOf[Writer(k)'] # ProcOf[Writer(i)']
  BY DEF HeadLast, LastOfProcess, Entry
<1>1. CASE file' = file
  <2>1. i \in DOMAIN file /\ \A k : Writer(k)' = Writer(k)
    BY <1>1 DEF Writer
  <2>2. Writer(i) \in Caller
    BY <2>1, ChunkTyped
  <2>3. pc[Writer(i)] = "rest" /\ file[i].entry = Entry(Writer(i))
    BY <1>1, <2>1, <2>2, Elsewhere DEF Entry
  <2> QED
    BY <1>1, <2>1, <2>3 DEF HeadLast, LastOfProcess
<1>2. CASE file' # file
  <2>1. PICK c \in Caller, part \in {"line", "head", "tail"} :
          /\ Put(c, part)
          /\ pc[c] = (IF part = "tail" THEN "rest" ELSE "write")
          /\ pc' = [pc EXCEPT ![c] = IF part = "head" THEN "rest" ELSE "return"]
          /\ UNCHANGED <<told, fileMu>>
    BY <1>2, Writing
  <2>2. /\ pc'[c] = (IF part = "head" THEN "rest" ELSE "return")
        /\ \A d \in Caller \ {c} : pc'[d] = pc[d]
    BY <2>1 DEF TypeOK
  <2>3. /\ DOMAIN file' = 1 .. (Len(file) + 1) /\ DOMAIN file = 1 .. Len(file)
        /\ Len(file) \in Nat
        /\ \A k \in DOMAIN file : file'[k] = file[k] /\ Writer(k)' = Writer(k)
        /\ \A k \in DOMAIN file' \ DOMAIN file :
              k = Len(file) + 1 /\ file'[k].part = part /\ Writer(k)' = c
    BY <2>1, Appended
  <2>4. CASE i \notin DOMAIN file
    BY <2>2, <2>3, <2>4
  <2>5. CASE i \in DOMAIN file
    <3>1. Writer(i)' = Writer(i) /\ Writer(i) \in Caller /\ file'[i] = file[i]
      BY <2>3, <2>5, ChunkTyped
    <3>2. Writer(i) # c
      <4> SUFFICES ASSUME Writer(i) = c PROVE FALSE
        OBVIOUS
      <4>1. part = "head" /\ pc[c] = "write"
        BY <2>1, <2>2, <3>1
      <4>2. file[i].entry[2] = Len(told[c]) + 1 /\ file[i].entry[1] = c
        BY <2>1, <3>1
      <4>3. Len(told[c]) \in Nat
        BY <2>5, ChunkTyped
      <4> QED
        BY <2>5, <4>1, <4>2, <4>3 DEF NotAhead
    <3>3. pc[Writer(i)] = "rest" /\ file[i].entry = Entry(Writer(i))
      BY <2>1, <2>2, <3>1, <3>2 DEF Entry
    <3>4. file[i].part = "head" /\ LastOfProcess(i)
      BY <2>5, <3>3 DEF HeadLast
    <3>5. ProcOf[c] # ProcOf[Writer(i)]
      BY <2>1, <3>1, <3>2, <3>3, OneInside DEF Inside
    <3>6. ASSUME NEW k \in DOMAIN file', k > i
          PROVE  ProcOf[Writer(k)'] # ProcOf[Writer(i)']
      <4>1. CASE k \notin DOMAIN file
        BY <2>3, <3>1, <3>5, <4>1
      <4>2. CASE k \in DOMAIN file
        BY <2>3, <3>1, <3>4, <3>6, <4>2 DEF LastOfProcess
      <4> QED
        BY <4>1, <4>2
    <3> QED
      BY <3>1, <3>4, <3>6
  <2> QED
    BY <2>4, <2>5
<1> QED
  BY <1>1, <1>2

\* A tail closes the line of the head before which its process stopped.
LEMMA WholeLinesKept ==
    ASSUME TypeOK, HeadLast, WholeLines, [Next]_vars
    PROVE  WholeLines'
<1> SUFFICES ASSUME NEW i \in DOMAIN file', NEW j \in DOMAIN file', Halves(i, j)',
                    NEW k \in (i + 1) .. (j - 1)
             PROVE  ProcOf[Writer(k)'] # ProcOf[Writer(j)']
  BY DEF WholeLines
<1>1. CASE file' = file
  BY <1>1 DEF WholeLines, Halves, Writer
<1>2. CASE file' # file
  <2>1. PICK c \in Caller, part \in {"line", "head", "tail"} :
          /\ Put(c, part)
          /\ pc[c] = (IF part = "tail" THEN "rest" ELSE "write")
    BY <1>2, Writing
  <2>2. /\ DOMAIN file' = 1 .. (Len(file) + 1) /\ DOMAIN file = 1 .. Len(file)
        /\ Len(file) \in Nat
        /\ \A m \in DOMAIN file : file'[m] = file[m] /\ Writer(m)' = Writer(m)
        /\ \A m \in DOMAIN file' \ DOMAIN file :
              /\ m = Len(file) + 1 /\ file'[m].part = part
              /\ file'[m].entry = Entry(c) /\ Writer(m)' = c
    BY <2>1, Appended
  <2>3. i \in DOMAIN file /\ k \in DOMAIN file /\ k > i
    BY <2>2 DEF Halves
  <2>4. CASE j \in DOMAIN file
    <3>1. Halves(i, j)
      BY <2>2, <2>3, <2>4 DEF Halves
    <3> QED
      BY <2>2, <2>3, <2>4, <3>1 DEF WholeLines
  <2>5. CASE j \notin DOMAIN file
    <3>1. file[i].entry = Entry(c) /\ part = "tail"
      BY <2>2, <2>3, <2>5 DEF Halves
    <3>2. Writer(i) = c /\ pc[c] = "rest"
      BY <2>1, <3>1 DEF Writer, Entry
    <3>3. LastOfProcess(i)
      BY <2>3, <3>1, <3>2 DEF HeadLast
    <3> QED
      BY <2>2, <2>3, <2>5, <3>2, <3>3 DEF LastOfProcess
  <2> QED
    BY <2>4, <2>5
<1> QED
  BY <1>1, <1>2

-----------------------------------------------------------------------------
\* An empty file has no lines to be broken.
LEMMA InitIInv == Init => IInv
<1> SUFFICES ASSUME Init PROVE IInv
  OBVIOUS
<1>1. TypeOK
  BY InitTypeOK
<1>2. DOMAIN file = {}
  BY DEF Init
<1> QED
  BY <1>1, <1>2
  DEF Init, IInv, MutexHeld, Inside, NotAhead, HeadLast, WholeLines

\* Every action preserves the inductive invariant.
LEMMA NextIInv == IInv /\ [Next]_vars => IInv'
BY NextTypeOK, MutexKept, NotAheadKept, HeadLastKept, WholeLinesKept DEF IInv

\* The mutex is with the caller past Lock, no entry is ahead of its call, and a
\* head whose tail is to come is the last thing its process wrote.
THEOREM OrderlyAppends == Spec => []IInv
<1> QED
  BY InitIInv, NextIInv, PTL DEF Spec

\* However many goroutines append, whichever of their calls fail or write in
\* pieces and wherever processes die, between the two halves of a line there is
\* nothing that the same process wrote.
THEOREM LinesAlwaysWhole == Spec => []WholeLines
<1>1. IInv => WholeLines
  BY DEF IInv
<1> QED
  BY <1>1, OrderlyAppends, PTL

-----------------------------------------------------------------------------
(* The refinement of Trail. *)

\* An empty file is an empty trail.
LEMMA InitTrail == Init => T!TrailInit
<1> SUFFICES ASSUME Init PROVE T!TrailInit
  OBVIOUS
<1>1. DOMAIN file = {}
  BY DEF Init
<1> QED
  BY <1>1 DEF Init, T!TrailInit, Logged, Stage

\* The entry a caller has in hand is not in the trail before it has written it.
LEMMA InHand ==
    ASSUME IInv, NEW c \in Caller, pc[c] \in {"write", "rest"},
           NEW i \in DOMAIN file, file[i].part # "head"
    PROVE  file[i].entry # Entry(c)
<1> SUFFICES ASSUME file[i].entry = Entry(c) PROVE FALSE
  OBVIOUS
<1>1. TypeOK /\ NotAhead /\ HeadLast
  BY DEF IInv
<1>2. Writer(i) = c /\ file[i].entry[2] = Len(told[c]) + 1 /\ file[i].entry[1] = c
  BY DEF Writer, Entry
<1>3. Len(told[c]) \in Nat
  BY <1>1, <1>2, ChunkTyped
<1>4. CASE pc[c] = "write"
  BY <1>1, <1>2, <1>3, <1>4 DEF NotAhead
<1>5. CASE pc[c] = "rest"
  BY <1>1, <1>2, <1>5 DEF HeadLast
<1> QED
  BY <1>4, <1>5

\* A step of Append is a step of the trail or leaves it as it is.
LEMMA NextTrail == IInv /\ [Next]_vars => [T!TrailNext]_T!trailVars
<1> SUFFICES ASSUME IInv, [Next]_vars
             PROVE  T!TrailNext \/ UNCHANGED T!trailVars
  OBVIOUS
<1> USE DEF Logged, Stage
<1> USE DEF Goto
<1>1. TypeOK
  BY DEF IInv
<1>2. pc \in [Caller -> PC] /\ err \in [Caller -> BOOLEAN]
  BY <1>1 DEF TypeOK
<1>3. ASSUME NEW c \in Caller, NEW l \in PC, Goto(c, l)
      PROVE  \A d \in Caller : pc'[d] = IF d = c THEN l ELSE pc[d]
  BY <1>2, <1>3
<1>4. ASSUME UNCHANGED file PROVE Logged' = Logged
  BY <1>4
<1>5. ASSUME NEW c \in Caller, NEW part \in {"line", "head", "tail"}, Put(c, part)
      PROVE  Logged' = IF part = "head" THEN Logged ELSE Logged \cup {Entry(c)}
  <2>1. /\ DOMAIN file' = DOMAIN file \cup {Len(file) + 1}
        /\ \A i \in DOMAIN file : file'[i] = file[i]
        /\ file'[Len(file) + 1].entry = Entry(c) /\ file'[Len(file) + 1].part = part
        /\ Len(file) + 1 \notin DOMAIN file
    <3>1. /\ DOMAIN file = 1 .. Len(file) /\ Len(file) \in Nat
          /\ DOMAIN file' = 1 .. (Len(file) + 1)
      BY <1>1, <1>5, Appended
    <3>2. /\ DOMAIN file' = DOMAIN file \cup {Len(file) + 1}
          /\ Len(file) + 1 \in DOMAIN file' \ DOMAIN file
      BY <3>1
    <3>3. /\ \A i \in DOMAIN file : file'[i] = file[i]
          /\ \A i \in DOMAIN file' \ DOMAIN file :
                file'[i].entry = Entry(c) /\ file'[i].part = part
      BY <1>1, <1>5, Appended
    <3> QED
      BY <3>2, <3>3
  <2> QED
    BY <2>1
<1>6. ASSUME NEW c \in Caller, Call(c) PROVE T!Call(c)
  <2>1. Stage[c] = "idle" /\ Stage' = [Stage EXCEPT ![c] = "called"]
    BY <1>2, <1>6 DEF Call, PC
  <2> QED
    BY <1>4, <1>6, <2>1 DEF Call, T!Call
<1>7. ASSUME NEW c \in Caller, Prepare(c)
      PROVE  T!TrailNext \/ UNCHANGED T!trailVars
  <2>1. Stage[c] = "called" /\ Logged' = Logged
    BY <1>7 DEF Prepare
  <2>2. CASE Goto(c, "lock") /\ UNCHANGED told
    <3>1. Stage' = Stage
      BY <1>2, <1>7, <2>2 DEF Prepare
    <3> QED
      BY <2>1, <2>2, <3>1 DEF T!trailVars
  <2>3. CASE Goto(c, "idle") /\ told' = [told EXCEPT ![c] = Append(@, "err")]
    <3>1. Stage' = [Stage EXCEPT ![c] = "idle"]
      BY <1>2, <1>7, <2>3 DEF Prepare
    <3>2. T!Fail(c)
      BY <2>1, <2>3, <3>1 DEF T!Fail, T!Tell
    <3> QED
      BY <3>2 DEF T!TrailNext
  <2> QED
    BY <1>7, <2>2, <2>3 DEF Prepare
<1>8. ASSUME NEW c \in Caller, Lock(c) \/ Open(c) PROVE UNCHANGED T!trailVars
  <2>1. UNCHANGED <<file, told>>
    BY <1>8 DEF Lock, Open
  <2>2. Stage' = Stage
    BY <1>2, <1>8 DEF Lock, Open, Answer
  <2> QED
    BY <1>4, <2>1, <2>2 DEF T!trailVars
<1>9. ASSUME NEW c \in Caller, Write(c) \/ Rest(c)
      PROVE  T!TrailNext \/ UNCHANGED T!trailVars
  <2>1. pc[c] \in {"write", "rest"} /\ Stage[c] = "called" /\ UNCHANGED told
    BY <1>9 DEF Write, Rest
  <2>2. CASE (Put(c, "line") \/ Put(c, "tail")) /\ Answer(c, FALSE)
    <3>1. Stage' = [Stage EXCEPT ![c] = "added"]
      BY <1>2, <2>2 DEF Answer
    <3>2. Logged' = Logged \cup {Entry(c)}
      BY <1>5, <2>2
    <3>3. Entry(c) \notin Logged
      BY <2>1, InHand
    <3>4. T!Add(c)
      BY <2>1, <3>1, <3>2, <3>3 DEF T!Add, T!Entry, Entry
    <3> QED
      BY <3>4 DEF T!TrailNext
  <2>3. CASE Put(c, "head") /\ Goto(c, "rest") /\ UNCHANGED err
    <3>1. Stage' = Stage
      BY <1>2, <2>1, <2>3
    <3> QED
      BY <1>5, <2>1, <2>3, <3>1 DEF T!trailVars
  <2>4. CASE Answer(c, TRUE) /\ UNCHANGED file
    <3>1. Stage' = Stage
      BY <1>2, <2>1, <2>4 DEF Answer
    <3> QED
      BY <1>4, <2>1, <2>4, <3>1 DEF T!trailVars
  <2> QED
    BY <1>9, <2>2, <2>3, <2>4 DEF Write, WriteLine, Rest, Complete
<1>10. ASSUME NEW c \in Caller, Return(c) PROVE T!TrailNext
  <2>1. Logged' = Logged /\ Stage[c] = IF err[c] THEN "called" ELSE "added"
    BY <1>2, <1>4, <1>10 DEF Return
  <2>2. Stage' = [Stage EXCEPT ![c] = "idle"]
    BY <1>2, <1>10 DEF Return
  <2>3. (err[c] => T!Tell(c, "err")) /\ (~err[c] => T!Tell(c, "ok"))
    BY <1>10, <2>1, <2>2 DEF Return, T!Tell
  <2>4. CASE err[c]
    <3>1. T!Fail(c)
      BY <2>1, <2>3, <2>4 DEF T!Fail
    <3> QED
      BY <3>1 DEF T!TrailNext
  <2>5. CASE ~err[c]
    <3>1. T!Return(c)
      BY <2>1, <2>3, <2>5 DEF T!Return
    <3> QED
      BY <3>1 DEF T!TrailNext
  <2> QED
    BY <1>2, <2>4, <2>5
<1>11. ASSUME NEW p \in Process, Kill(p) PROVE T!TrailNext
  <2> DEFINE callers == {c \in Caller : ProcOf[c] = p}
  <2>1. Stage' = [c \in Caller |-> IF c \in callers THEN "dead" ELSE Stage[c]]
    BY <1>11 DEF Kill
  <2>2. T!Die(callers)
    BY <1>4, <1>11, <2>1 DEF Kill, T!Die
  <2> QED
    BY <2>2 DEF T!TrailNext
<1>12. CASE UNCHANGED vars
  BY <1>12 DEF vars, T!trailVars
<1> QED
  BY <1>6, <1>7, <1>8, <1>9, <1>10, <1>11, <1>12
  DEF Next, Proceed, T!TrailNext

\* Append is what the applier takes it for: every behaviour of the goroutines,
\* the mutex and the file is, seen through the complete lines and the answers,
\* a behaviour of the trail.
THEOREM AppendsToTheTrail == Spec => ImplementsTrail
<1> QED
  BY InitIInv, NextIInv, InitTrail, NextTrail, PTL
  DEF Spec, ImplementsTrail, T!TrailSpec

-----------------------------------------------------------------------------
(* What callers are told of the trail is true.  The lines in the file and the *)
(* callers' stages are left unexpanded: only the trail's own steps count. *)

\* Answers, and entries of calls made so far.
TrailTyped ==
    /\ told \in [Caller -> Seq({"ok", "err"})]
    /\ Stage \in [Caller -> {"idle", "called", "added", "dead"}]
    /\ Logged \subseteq Caller \X Nat

\* The entry of the call a caller is in is in the trail once it was added, and
\* no later one is; a dead caller may have died on either side.
TrailInOrder ==
    /\ \A e \in Logged :
         \/ e[2] <= Len(told[e[1]])
         \/ e[2] = Len(told[e[1]]) + 1 /\ Stage[e[1]] \in {"added", "dead"}
    /\ \A c \in Caller : Stage[c] = "added" => T!Entry(c) \in Logged

\* Nothing is told at first.
LEMMA TruthAtFirst == T!TrailInit => TrailTyped /\ TrailInOrder /\ T!ToldTruth
<1>1. Len(<< >>) = 0
  OBVIOUS
<1> QED
  BY <1>1 DEF T!TrailInit, TrailTyped, TrailInOrder, T!ToldTruth

\* Every step keeps to the truth.
LEMMA TruthKept ==
    TrailTyped /\ TrailInOrder /\ T!ToldTruth /\ [T!TrailNext]_T!trailVars
    => TrailTyped' /\ TrailInOrder' /\ T!ToldTruth'
<1> SUFFICES ASSUME TrailTyped, TrailInOrder, T!ToldTruth, [T!TrailNext]_T!trailVars
             PROVE  TrailTyped' /\ TrailInOrder' /\ T!ToldTruth'
  OBVIOUS
<1>1. \A c \in Caller : /\ told[c] \in Seq({"ok", "err"}) /\ Len(told[c]) \in Nat
                        /\ T!Entry(c) \in Caller \X Nat
  BY DEF TrailTyped, T!Entry
<1>2. ASSUME NEW c \in Caller, T!Call(c) PROVE TrailTyped' /\ TrailInOrder' /\ T!ToldTruth'
  BY <1>2 DEF T!Call, TrailTyped, TrailInOrder, T!ToldTruth, T!Entry
<1>3. ASSUME NEW c \in Caller, T!Add(c) PROVE TrailTyped' /\ TrailInOrder' /\ T!ToldTruth'
  <2>1. TrailTyped'
    BY <1>1, <1>3 DEF T!Add, TrailTyped
  <2>2. TrailInOrder'
    BY <1>1, <1>3 DEF T!Add, TrailTyped, TrailInOrder, T!Entry
  <2>3. T!ToldTruth'
    <3>1. \A k \in 1 .. Len(told[c]) : <<c, k>> # T!Entry(c)
      BY <1>1 DEF T!Entry
    <3>2. \A d \in Caller \ {c} : \A k : <<d, k>> # T!Entry(c)
      BY DEF T!Entry
    <3> QED
      BY <1>3, <3>1, <3>2 DEF T!Add, T!ToldTruth
  <2> QED
    BY <2>1, <2>2, <2>3
<1>4. ASSUME NEW c \in Caller, NEW answer \in {"ok", "err"}, T!Tell(c, answer),
             T!Entry(c) \in Logged <=> answer = "ok"
      PROVE  TrailTyped' /\ TrailInOrder' /\ T!ToldTruth'
  <2>1. /\ told'[c] = Append(told[c], answer)
        /\ \A d \in Caller \ {c} : told'[d] = told[d] /\ Stage'[d] = Stage[d]
        /\ Stage'[c] = "idle" /\ Logged' = Logged
    BY <1>4 DEF T!Tell, TrailTyped
  <2>2. /\ Len(told'[c]) = Len(told[c]) + 1
        /\ \A k \in 1 .. Len(told[c]) : told'[c][k] = told[c][k]
        /\ told'[c][Len(told[c]) + 1] = answer
        /\ told'[c] \in Seq({"ok", "err"})
    BY <1>1, <2>1
  <2>3. TrailTyped'
    BY <1>4, <2>2 DEF T!Tell, TrailTyped
  <2>4. TrailInOrder'
    <3>1. ASSUME NEW e \in Logged
          PROVE  \/ e[2] <= Len(told'[e[1]])
                 \/ e[2] = Len(told'[e[1]]) + 1 /\ Stage'[e[1]] \in {"added", "dead"}
      <4>1. e[1] \in Caller /\ e[2] \in Nat
        BY DEF TrailTyped
      <4>2. CASE e[1] = c
        BY <1>1, <2>2, <4>1, <4>2 DEF TrailInOrder
      <4>3. CASE e[1] # c
        BY <2>1, <4>1, <4>3 DEF TrailInOrder
      <4> QED
        BY <4>2, <4>3
    <3>2. ASSUME NEW d \in Caller, Stage'[d] = "added" PROVE T!Entry(d)' \in Logged
      BY <2>1, <3>2 DEF TrailInOrder, T!Entry
    <3> QED
      BY <2>1, <3>1, <3>2 DEF TrailInOrder
  <2>5. T!ToldTruth'
    <3> SUFFICES ASSUME NEW d \in Caller, NEW k \in 1 .. Len(told'[d])
                 PROVE  <<d, k>> \in Logged <=> told'[d][k] = "ok"
      BY <2>1 DEF T!ToldTruth
    <3>1. CASE d # c
      BY <2>1, <3>1 DEF T!ToldTruth
    <3>2. CASE d = c /\ k \in 1 .. Len(told[c])
      BY <2>2, <3>2 DEF T!ToldTruth
    <3>3. CASE d = c /\ k = Len(told[c]) + 1
      BY <1>4, <2>2, <3>3 DEF T!Entry
    <3> QED
      BY <1>1, <2>2, <3>1, <3>2, <3>3
  <2> QED
    BY <2>3, <2>4, <2>5
<1>5. ASSUME NEW c \in Caller, T!Fail(c) PROVE TrailTyped' /\ TrailInOrder' /\ T!ToldTruth'
  <2>1. T!Entry(c) \notin Logged
    BY <1>1, <1>5 DEF T!Fail, TrailInOrder, T!Entry
  <2> QED
    BY <1>4, <1>5, <2>1 DEF T!Fail
<1>6. ASSUME NEW c \in Caller, T!Return(c) PROVE TrailTyped' /\ TrailInOrder' /\ T!ToldTruth'
  BY <1>4, <1>6 DEF T!Return, TrailInOrder
<1>7. ASSUME NEW callers \in SUBSET Caller, T!Die(callers)
      PROVE  TrailTyped' /\ TrailInOrder' /\ T!ToldTruth'
  BY <1>7 DEF T!Die, TrailTyped, TrailInOrder, T!ToldTruth, T!Entry
<1>8. CASE UNCHANGED T!trailVars
  BY <1>8 DEF T!trailVars, TrailTyped, TrailInOrder, T!ToldTruth, T!Entry
<1> QED
  BY <1>2, <1>3, <1>5, <1>6, <1>7, <1>8 DEF T!TrailNext

\* A caller whose call returned without an error has its entry in the trail,
\* one that was given an error has not, and neither changes any more: the
\* trail's own steps keep it so, whatever implements them.
THEOREM TrailTellsTheTruth == T!TrailSpec => []T!ToldTruth
<1> QED
  BY TruthAtFirst, TruthKept, PTL DEF T!TrailSpec

\* After any number of faults a caller is told the truth: its line is complete
\* in the file if and only if its Append returned without an error.
THEOREM ToldTheTruth == Spec => []T!ToldTruth
<1> QED
  BY TrailTellsTheTruth, AppendsToTheTrail, PTL DEF ImplementsTrail

-----------------------------------------------------------------------------
(* What faults cost a reader: each broken line is charged to its head. *)

Heads == {i \in DOMAIN file : file[i].part = "head"}
Begun(e) == \E i \in Heads : file[i].entry = e
\* A head took a fault, and nobody writes a tail without a head.
HeadsPaid == Cardinality(Heads) <= faults
TailsBegun ==
    /\ \A i \in DOMAIN file : file[i].part = "tail" => Begun(file[i].entry)
    /\ \A c \in Caller : pc[c] = "rest" => Begun(Entry(c))
CostInv == IInv /\ HeadsPaid /\ TailsBegun

\* There are finitely many heads.
LEMMA HeadsFinite == TypeOK => IsFiniteSet(Heads)
<1> SUFFICES ASSUME TypeOK PROVE IsFiniteSet(Heads)
  OBVIOUS
<1>1. Len(file) \in Nat /\ DOMAIN file = 1 .. Len(file)
  BY DEF TypeOK
<1>2. IsFiniteSet(1 .. Len(file))
  BY <1>1, FS_Interval
<1> QED
  BY <1>1, <1>2, FS_Subset DEF Heads

\* Nothing is begun in an empty file.
LEMMA InitCostInv == Init => CostInv
<1> SUFFICES ASSUME Init PROVE CostInv
  OBVIOUS
<1>1. IInv
  BY InitIInv
<1>2. DOMAIN file = {} /\ Heads = {}
  BY DEF Init, Heads
<1>3. Cardinality(Heads) = 0 /\ faults = 0
  BY <1>2, FS_EmptySet DEF Init
<1> QED
  BY <1>1, <1>2, <1>3 DEF CostInv, HeadsPaid, TailsBegun, Init

\* Faults are only counted up.
LEMMA FaultsGrow ==
    ASSUME TypeOK, [Next]_vars
    PROVE  faults \in Nat /\ faults' \in Nat /\ faults <= faults'
<1>1. faults \in Nat
  BY DEF TypeOK
<1>2. UNCHANGED faults \/ Fault
  BY DEF Next, Proceed, Call, Prepare, Lock, Open, Write, Rest, Return, Kill, vars
<1> QED
  BY <1>1, <1>2 DEF Fault

\* The heads are paid for, and tails are of lines begun.
LEMMA NextCostInv == CostInv /\ [Next]_vars => CostInv'
<1> SUFFICES ASSUME CostInv, [Next]_vars PROVE CostInv'
  OBVIOUS
<1>1. IInv' /\ TypeOK /\ TypeOK'
  BY NextIInv DEF CostInv, IInv
<1>2. faults \in Nat /\ faults' \in Nat /\ faults <= faults'
  BY <1>1, FaultsGrow
<1>3. IsFiniteSet(Heads) /\ Cardinality(Heads) \in Nat /\ Cardinality(Heads) <= faults
  BY <1>1, HeadsFinite, FS_CardinalityType DEF CostInv, HeadsPaid
<1>4. CASE file' = file
  <2>1. Heads' = Heads /\ \A e : Begun(e)' <=> Begun(e)
    BY <1>4 DEF Heads, Begun
  <2>2. HeadsPaid'
    BY <1>2, <1>3, <2>1 DEF HeadsPaid
  <2>3. ASSUME NEW c \in Caller, pc'[c] = "rest" PROVE pc[c] = "rest" /\ Entry(c)' = Entry(c)
    BY <1>1, <1>4, <2>3, Elsewhere DEF Entry
  <2>4. TailsBegun'
    BY <1>4, <2>1, <2>3 DEF CostInv, TailsBegun
  <2> QED
    BY <1>1, <2>2, <2>4 DEF CostInv
<1>5. CASE file' # file
  <2>1. PICK c \in Caller, part \in {"line", "head", "tail"} :
          /\ Put(c, part)
          /\ pc[c] = (IF part = "tail" THEN "rest" ELSE "write")
          /\ pc' = [pc EXCEPT ![c] = IF part = "head" THEN "rest" ELSE "return"]
          /\ UNCHANGED <<told, fileMu>>
          /\ part = "head" => Fault
    BY <1>1, <1>5, Writing
  <2>2. /\ DOMAIN file' = 1 .. (Len(file) + 1) /\ DOMAIN file = 1 .. Len(file)
        /\ Len(file) \in Nat
        /\ \A i \in DOMAIN file : file'[i] = file[i]
        /\ \A i \in DOMAIN file' \ DOMAIN file :
              i = Len(file) + 1 /\ file'[i].entry = Entry(c) /\ file'[i].part = part
    BY <1>1, <2>1, Appended
  <2>3. \A d \in Caller : Entry(d)' = Entry(d)
    BY <2>1 DEF Entry
  <2>4. /\ pc'[c] = (IF part = "head" THEN "rest" ELSE "return")
        /\ \A d \in Caller \ {c} : pc'[d] = pc[d]
    BY <1>1, <2>1 DEF TypeOK
  <2>5. Heads' = IF part = "head" THEN Heads \cup {Len(file) + 1} ELSE Heads
    BY <2>2 DEF Heads
  <2>6. \A e : Begun(e) => Begun(e)'
    BY <2>2, <2>5 DEF Begun, Heads
  <2>7. part = "head" => Begun(Entry(c))'
    <3>1. Len(file) + 1 \in DOMAIN file' \ DOMAIN file
      BY <2>2
    <3>2. file'[Len(file) + 1].entry = Entry(c)'
      BY <2>2, <2>3, <3>1
    <3> QED
      BY <2>5, <3>2 DEF Begun
  <2>8. HeadsPaid'
    <3>1. Cardinality(Heads') <= faults'
      <4>1. CASE part = "head"
        <5>1. faults' = faults + 1
          BY <2>1, <4>1 DEF Fault
        <5>2. Cardinality(Heads \cup {Len(file) + 1}) <= Cardinality(Heads) + 1
          <6>1. Cardinality(Heads \cup {Len(file) + 1}) =
                  IF Len(file) + 1 \in Heads THEN Cardinality(Heads) ELSE Cardinality(Heads) + 1
            BY <1>3, FS_AddElement
          <6> QED
            BY <1>3, <6>1
        <5>3. Heads' = Heads \cup {Len(file) + 1} /\ Cardinality(Heads') \in Nat
          BY <1>1, <2>5, <4>1, <1>3, FS_AddElement, FS_CardinalityType
        <5> QED
          BY <1>2, <1>3, <5>1, <5>2, <5>3
      <4>2. CASE part # "head"
        BY <1>2, <1>3, <2>5, <4>2
      <4> QED
        BY <4>1, <4>2
    <3> QED
      BY <3>1 DEF HeadsPaid
  <2>9. ASSUME NEW i \in DOMAIN file', file'[i].part = "tail" PROVE Begun(file[i].entry)'
    <3>1. CASE i \in DOMAIN file
      BY <2>2, <2>6, <2>9, <3>1 DEF CostInv, TailsBegun
    <3>2. CASE i \notin DOMAIN file
      <4>1. part = "tail" /\ file'[i].entry = Entry(c)
        BY <2>2, <2>9, <3>2
      <4> QED
        BY <2>1, <2>6, <4>1 DEF CostInv, TailsBegun
    <3> QED
      BY <3>1, <3>2
  <2>10. ASSUME NEW d \in Caller, pc'[d] = "rest" PROVE Begun(Entry(d))'
    BY <2>3, <2>4, <2>6, <2>7, <2>10 DEF CostInv, TailsBegun
  <2> QED
    BY <1>1, <2>8, <2>9, <2>10 DEF CostInv, TailsBegun
<1> QED
  BY <1>4, <1>5

\* What follows a head is the second line it may cost.
LEMMA UnreadableCharged ==
    ASSUME CostInv, T!ToldTruth, NEW e \in Acknowledged, ~Readable(e)
    PROVE  \/ Begun(e)
           \/ \E i \in Heads : i + 1 \in DOMAIN file /\ file[i + 1].entry = e
<1>1. e \in Logged
  <2>1. PICK c \in Caller : \E k \in DOMAIN told[c] : e = <<c, k>> /\ told[c][k] = "ok"
    BY DEF Acknowledged
  <2>2. told[c] \in Seq({"ok", "err"})
    BY DEF CostInv, IInv, TypeOK
  <2>3. PICK k \in 1 .. Len(told[c]) : e = <<c, k>> /\ told[c][k] = "ok"
    BY <2>1, <2>2
  <2> QED
    BY <2>3 DEF T!ToldTruth
<1>2. PICK i \in DOMAIN file : file[i].entry = e /\ file[i].part # "head"
  BY <1>1 DEF Logged
<1>3. DOMAIN file = 1 .. Len(file) /\ Len(file) \in Nat /\ file[i] \in Chunk
  BY <1>2 DEF CostInv, IInv, TypeOK
<1>4. CASE file[i].part = "tail"
  BY <1>2, <1>4 DEF CostInv, TailsBegun
<1>5. CASE file[i].part = "line"
  <2>1. i # 1 /\ file[i - 1].part = "head"
    BY <1>2, <1>5 DEF Readable, StartsLine
  <2>2. i - 1 \in Heads /\ (i - 1) + 1 = i
    BY <1>2, <1>3, <2>1 DEF Heads
  <2> QED
    BY <1>2, <2>2
<1> QED
  BY <1>2, <1>3, <1>4, <1>5 DEF Chunk

\* An invariant with the truth of what callers are told bounds what is lost.
LEMMA LossBounded ==
    ASSUME CostInv, T!ToldTruth
    PROVE  FaultsCostTwo
<1> DEFINE Follow == {i \in Heads : i + 1 \in DOMAIN file}
           own == [i \in Heads |-> file[i].entry]
           next == [i \in Follow |-> file[i + 1].entry]
           Own == {file[i].entry : i \in Heads}
           Run == {file[i + 1].entry : i \in Follow}
           lost == {e \in Acknowledged : ~Readable(e)}
<1>1. TypeOK /\ Cardinality(Heads) <= faults /\ faults \in Nat
  BY DEF CostInv, IInv, HeadsPaid, TypeOK
<1>2. IsFiniteSet(Heads) /\ Cardinality(Heads) \in Nat
  BY <1>1, HeadsFinite, FS_CardinalityType
<1>3. IsFiniteSet(Follow) /\ Cardinality(Follow) <= Cardinality(Heads)
      /\ Cardinality(Follow) \in Nat
  BY <1>2, FS_Subset, FS_CardinalityType
<1>4. own \in Surjection(Heads, Own)
  BY DEF Surjection
<1>5. next \in Surjection(Follow, Run)
  BY DEF Surjection
<1>6. IsFiniteSet(Own) /\ Cardinality(Own) <= Cardinality(Heads) /\ Cardinality(Own) \in Nat
  <2> HIDE DEF own, Own
  <2> QED
    BY <1>2, <1>4, FS_Surjection, FS_CardinalityType
<1>7. IsFiniteSet(Run) /\ Cardinality(Run) <= Cardinality(Follow) /\ Cardinality(Run) \in Nat
  <2> HIDE DEF next, Follow, Run
  <2> QED
    BY <1>3, <1>5, FS_Surjection, FS_CardinalityType
<1>8. lost \subseteq Own \cup Run
  BY UnreadableCharged DEF Begun
<1> HIDE DEF Own, Run, lost, Follow, own, next
<1>9. /\ IsFiniteSet(Own \cup Run)
      /\ Cardinality(Own \cup Run) <= Cardinality(Own) + Cardinality(Run)
      /\ Cardinality(Own \cup Run) \in Nat
  <2>1. IsFiniteSet(Own \cap Run)
    BY <1>6, FS_Subset
  <2>2. Cardinality(Own \cap Run) \in Nat
    BY <2>1, FS_CardinalityType
  <2>3. /\ IsFiniteSet(Own \cup Run)
        /\ Cardinality(Own \cup Run) =
             Cardinality(Own) + Cardinality(Run) - Cardinality(Own \cap Run)
    BY <1>6, <1>7, FS_Union
  <2>4. Cardinality(Own \cup Run) \in Nat
    BY <2>3, FS_CardinalityType
  <2> QED
    BY <1>6, <1>7, <2>2, <2>3, <2>4
<1>10. Cardinality(lost) <= Cardinality(Own \cup Run) /\ Cardinality(lost) \in Nat
  BY <1>8, <1>9, FS_Subset, FS_CardinalityType
<1>11. Cardinality(lost) <= 2 * faults
  BY <1>1, <1>2, <1>3, <1>6, <1>7, <1>9, <1>10
<1> QED
  BY <1>11 DEF FaultsCostTwo, lost

\* However many callers and processes write, and whatever fails, a fault costs
\* a reader at most two entries whose writer was told that all went well.
THEOREM FaultsCostAtMostTwo == Spec => []FaultsCostTwo
<1>1. CostInv /\ T!ToldTruth => FaultsCostTwo
  BY LossBounded
<1> QED
  BY <1>1, InitCostInv, NextCostInv, ToldTheTruth, PTL DEF Spec
=============================================================================
