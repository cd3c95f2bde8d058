------------------------------- MODULE AuditLog -------------------------------
(***************************************************************************)
(* internal/audit: Append, called by the goroutines of several processes    *)
(* (tool calls of one MCP server run side by side; every apply or rollback  *)
(* at a terminal is a process of its own) on one file.                      *)
(*                                                                          *)
(* A mutex orders the calls of one process; between processes there is only *)
(* O_APPEND, by which each write(2) lands whole at the end of the file.  A  *)
(* line is one write(2) as a rule.  Where the kernel takes only a part of it*)
(* (the disk is nearly full), the runtime's Write writes on from there: the *)
(* line has a head, without a newline, and a tail, and other processes may  *)
(* get in between.                                                          *)
(***************************************************************************)
EXTENDS Naturals, Sequences, FiniteSets

CONSTANTS
    Caller,     \* goroutines that call Append, one call after the other
    Process,
    ProcOf,     \* ProcOf[c]: the process of caller c
    Nobody,     \* a mutex that is free
    MaxCalls,   \* calls of Append each caller makes
    MaxFaults   \* failing system calls, short writes, processes killed

ASSUME AuditAssumption ==
    /\ ProcOf \in [Caller -> Process]
    /\ Nobody \notin Caller
    /\ MaxCalls \in Nat /\ MaxFaults \in Nat

VARIABLES
    file,    \* what is in the audit file, as the sequence of its writes
    fileMu,  \* fileMu[p]: the caller in process p that holds the mutex
    pc, err, \* where each caller is in Append; does its call return an error
    told,    \* told[c]: what the calls of c that have returned told it
    faults

vars == <<file, fileMu, pc, err, told, faults>>

PC == {"idle", "prepare", "lock", "open", "write", "rest", "return", "dead"}
Entry(c) == <<c, Len(told[c]) + 1>>
Chunk == [entry : Caller \X Nat, part : {"line", "head", "tail"}]

Fault == faults < MaxFaults /\ faults' = faults + 1
Goto(c, l) == pc' = [pc EXCEPT ![c] = l]
Put(c, part) == file' = Append(file, [entry |-> Entry(c), part |-> part])

Init ==
    /\ file = << >>
    /\ fileMu = [p \in Process |-> Nobody]
    /\ pc = [c \in Caller |-> "idle"]
    /\ err = [c \in Caller |-> FALSE]
    /\ told = [c \in Caller |-> << >>]
    /\ faults = 0

Call(c) ==
    /\ pc[c] = "idle" /\ Len(told[c]) < MaxCalls
    /\ Goto(c, "prepare")
    /\ UNCHANGED <<file, fileMu, err, told, faults>>

\* The path is resolved, its directory made and the line rendered; when one of
\* these fails Append returns without having asked for the mutex.
Prepare(c) ==
    /\ pc[c] = "prepare"
    /\ \/ Goto(c, "lock") /\ UNCHANGED <<told, faults>>
       \/ /\ told' = [told EXCEPT ![c] = Append(@, "err")]
          /\ Goto(c, "idle")
          /\ Fault
    /\ UNCHANGED <<file, fileMu, err>>

\* mutant: no mutex, as if O_APPEND kept the lines of one process apart too
Unguarded(c) == TRUE
Unlocked(c) == fileMu[ProcOf[c]] = Nobody

Lock(c) ==
    /\ pc[c] = "lock"
    /\ Unlocked(c)
    /\ fileMu' = [fileMu EXCEPT ![ProcOf[c]] = c]
    /\ Goto(c, "open")
    /\ UNCHANGED <<file, err, told, faults>>

Answer(c, failed) ==
    /\ err' = [err EXCEPT ![c] = failed]
    /\ Goto(c, "return")

Open(c) ==
    /\ pc[c] = "open"
    /\ \/ Goto(c, "write") /\ UNCHANGED <<err, faults>>
       \/ Answer(c, TRUE) /\ Fault
    /\ UNCHANGED <<file, fileMu, told>>

\* mutant: the newline is a write of its own
NewlineApart(c) == Put(c, "head") /\ Goto(c, "rest") /\ UNCHANGED err
\* The rendered line, its newline included, in one piece.
WriteLine(c) == Put(c, "line") /\ Answer(c, FALSE)

Write(c) ==
    /\ pc[c] = "write"
    /\ \/ WriteLine(c) /\ UNCHANGED faults
       \/ Put(c, "head") /\ Goto(c, "rest") /\ UNCHANGED err /\ Fault
       \/ Answer(c, TRUE) /\ UNCHANGED file /\ Fault
    /\ UNCHANGED <<fileMu, told>>

\* mutant: a short write is taken for a complete one
GiveUp(c) == Answer(c, FALSE) /\ UNCHANGED file
\* The runtime writes the rest, or is told that there is no room for it.
Complete(c) ==
    \/ Put(c, "tail") /\ Answer(c, FALSE)
    \/ Answer(c, TRUE) /\ UNCHANGED file

Rest(c) ==
    /\ pc[c] = "rest"
    /\ Complete(c)
    /\ UNCHANGED <<fileMu, told, faults>>

\* mutant: the mutex is given up on the way of success alone
ReleaseIfWritten(c) ==
    fileMu' = IF err[c] THEN fileMu ELSE [fileMu EXCEPT ![ProcOf[c]] = Nobody]
\* Deferred: close, whose own error is dropped, then unlock.
Release(c) == fileMu' = [fileMu EXCEPT ![ProcOf[c]] = Nobody]

Return(c) ==
    /\ pc[c] = "return"
    /\ Release(c)
    /\ told' = [told EXCEPT ![c] = Append(@, IF err[c] THEN "err" ELSE "ok")]
    /\ Goto(c, "idle")
    /\ UNCHANGED <<file, err, faults>>

\* The process is killed, with all its goroutines; the file stays as it is.
Kill(p) ==
    /\ Fault
    /\ pc' = [c \in Caller |-> IF ProcOf[c] = p THEN "dead" ELSE pc[c]]
    /\ UNCHANGED <<file, fileMu, err, told>>

Proceed(c) == Prepare(c) \/ Lock(c) \/ Open(c) \/ Write(c) \/ Rest(c) \/ Return(c)

Next ==
    \/ \E c \in Caller : Call(c) \/ Proceed(c)
    \/ \E p \in Process : Kill(p)

\* A goroutine that can run does, and the mutex starves nobody for ever.
Fairness == \A c \in Caller : WF_vars(Proceed(c))

Spec == Init /\ [][Next]_vars /\ Fairness

-----------------------------------------------------------------------------
(* Properties. *)

TypeOK ==
    /\ file \in Seq(Chunk)
    /\ fileMu \in [Process -> Caller \cup {Nobody}]
    /\ pc \in [Caller -> PC]
    /\ err \in [Caller -> BOOLEAN]
    /\ told \in [Caller -> Seq({"ok", "err"})]
    /\ faults \in Nat

Writer(i) == file[i].entry[1]
\* The head and the tail of one line.
Halves(i, j) == /\ i < j
                /\ file[i].part = "head" /\ file[j].part = "tail"
                /\ file[i].entry = file[j].entry

\* Within a process lines are whole: between the two halves of a line that was
\* written in two pieces there is nothing that the same process wrote, however
\* its goroutines call and whichever of them fails or how the process ends.
WholeLines ==
    \A i, j \in DOMAIN file :
        Halves(i, j) => \A k \in (i + 1) .. (j - 1) :
                            ProcOf[Writer(k)] # ProcOf[Writer(j)]

\* Why WholeLines is inductive: who is between Lock and Return holds the mutex,
\* and a line with a head alone is one that nobody will complete any more, or
\* the line in hand of a caller whose process has not written since.
Inside == {"open", "write", "rest", "return"}
MutexHeld == \A c \in Caller : pc[c] \in Inside => fileMu[ProcOf[c]] = c
NotAhead  == \A i \in DOMAIN file :
                LET e == file[i].entry
                IN  \/ e[2] <= Len(told[e[1]])
                    \/ e[2] = Len(told[e[1]]) + 1
                       /\ pc[e[1]] \in {"rest", "return", "dead"}
LastOfProcess(i) ==
    \A k \in DOMAIN file : k > i => ProcOf[Writer(k)] # ProcOf[Writer(i)]
HeadLast ==
    \A i \in DOMAIN file : pc[Writer(i)] = "rest" /\ file[i].entry = Entry(Writer(i))
        => file[i].part = "head" /\ LastOfProcess(i)
IInv == TypeOK /\ MutexHeld /\ NotAhead /\ HeadLast /\ WholeLines

Acknowledged ==
    UNION {{<<c, k>> : k \in {k \in DOMAIN told[c] : told[c][k] = "ok"}} : c \in Caller}
\* What a reader makes of the file, line by line.
StartsLine(i) == i = 1 \/ file[i - 1].part # "head"
Readable(e) ==
    \E i \in DOMAIN file :
        /\ file[i].entry = e /\ StartsLine(i)
        /\ \/ file[i].part = "line"
           \/ /\ file[i].part = "head" /\ i + 1 \in DOMAIN file
              /\ file[i + 1].entry = e

\* A fault costs a reader at most two entries whose Append returned without an
\* error: the line that was written in pieces, and the one that runs into it,
\* which may be another process's.  Without faults every such entry can be read.
\* ("The kernel guarantees atomic line writes across processes" and "a missing
\* audit line is recoverable" hold up to this.)
FaultsCostTwo ==
    Cardinality({e \in Acknowledged : ~Readable(e)}) <= 2 * faults

\* What the applier relies on: entries join the trail at one moment each, the
\* one at which their newline is written, and the caller is told the truth.
Logged == {file[i].entry : i \in {i \in DOMAIN file : file[i].part # "head"}}
Stage  == [c \in Caller |->
              CASE pc[c] \in {"idle", "dead"} -> pc[c]
                [] pc[c] = "return" /\ ~err[c] -> "added"
                [] OTHER -> "called"]
T == INSTANCE Trail WITH trail <- Logged, at <- Stage
ImplementsTrail == T!TrailSpec

\* Every call returns, unless its process is killed: no failure on the way
\* leaves the mutex behind.
AppendReturns ==
    \A c \in Caller : pc[c] = "prepare" ~> pc[c] \in {"idle", "dead"}
=============================================================================
