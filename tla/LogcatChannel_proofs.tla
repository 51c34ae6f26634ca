------------------------ MODULE LogcatChannel_proofs ------------------------
(***************************************************************************)
(* Proofs about the logcat channel: that the raw file is the truth, that   *)
(* the derived files follow it, that shutdown leaves nothing behind, for   *)
(* any logs, any chunks and wherever a write fails; and that the replays   *)
(* of the raw file rebuild the derived files, however many boots run them. *)
(***************************************************************************)
EXTENDS LogcatChannel, Induction, SequenceTheorems, TLAPS

-----------------------------------------------------------------------------
(* Sequences of pieces.                                                    *)

(* MaxLines bounds every log.                                              *)
LEMMA LogsAreBounded ==
  /\ MaxLines \in Nat
  /\ \A log \in Logs : log \in Seq(Kind) /\ Len(log) \in 0 .. MaxLines
<1>1. PICK top \in Logs : \A l \in Logs : Len(l) <= Len(top)
  BY ConstantsAssumption
<1>2. \A l \in Logs : l \in Seq(Kind) /\ Len(l) \in Nat
  <2> TAKE l \in Logs
  <2>1. l \in Seq(Kind \ {"header"})
    BY ConstantsAssumption
  <2> QED
    BY <2>1, SeqMonotonic
<1>3. MaxLines \in {Len(l) : l \in Logs} /\ \A l \in Logs : Len(l) <= MaxLines
  BY <1>1 DEF MaxLines
<1> QED
  BY <1>2, <1>3

(* The pieces from one to another, in order.                               *)
LEMMA PiecesAre ==
  ASSUME NEW from \in Nat, NEW to \in Int, from <= to + 1
  PROVE  /\ Pieces(from, to) \in Seq(Nat)
         /\ Len(Pieces(from, to)) = to - from + 1
         /\ DOMAIN Pieces(from, to) = 1 .. to - from + 1
         /\ \A i \in 1 .. to - from + 1 : Pieces(from, to)[i] = from + i - 1
BY DEF Pieces

(* What follows the pieces received so far makes up the pieces received.   *)
LEMMA PiecesJoin ==
  ASSUME NEW a \in Nat, NEW b \in Nat, a <= b
  PROVE  Pieces(0, a) \o Pieces(a + 1, b) = Pieces(0, b)
<1> DEFINE p == Pieces(0, a)
           q == Pieces(a + 1, b)
           all == Pieces(0, b)
<1>1. p \in Seq(Nat) /\ Len(p) = a + 1 /\ \A i \in 1 .. a + 1 : p[i] = i - 1
  BY DEF Pieces
<1>2. q \in Seq(Nat) /\ Len(q) = b - a /\ \A i \in 1 .. b - a : q[i] = a + i
  BY DEF Pieces
<1>3. all \in Seq(Nat) /\ Len(all) = b + 1 /\ \A i \in 1 .. b + 1 : all[i] = i - 1
  BY DEF Pieces
<1> HIDE DEF p, q, all
<1> DEFINE both == p \o q
<1>4. /\ both \in Seq(Nat) /\ Len(both) = Len(p) + Len(q)
      /\ \A i \in 1 .. Len(p) + Len(q) :
            both[i] = IF i <= Len(p) THEN p[i] ELSE q[i - Len(p)]
  BY <1>1, <1>2, ConcatProperties
<1> HIDE DEF both
<1>5. \A i \in 1 .. Len(both) : both[i] = all[i]
  <2> SUFFICES ASSUME NEW i \in 1 .. b + 1
               PROVE  both[i] = i - 1
    BY <1>1, <1>2, <1>3, <1>4
  <2>1. CASE i <= a + 1
    BY <2>1, <1>1, <1>2, <1>4
  <2>2. CASE i > a + 1
    <3>1. i - Len(p) \in 1 .. b - a /\ both[i] = q[i - Len(p)]
      BY <2>2, <1>1, <1>2, <1>4
    <3> QED
      BY <3>1, <1>1, <1>2
  <2> QED
    BY <2>1, <2>2
<1>6. both = all
  BY <1>1, <1>2, <1>3, <1>4, <1>5, SeqEqual
<1> QED
  BY <1>6 DEF both, p, q, all

(* A sequence is a prefix of another piece by piece.                       *)
LEMMA PrefixIs ==
  ASSUME NEW S, NEW s \in Seq(S), NEW t \in Seq(S)
  PROVE  IsPrefix(s, t) <=> /\ Len(s) <= Len(t)
                            /\ \A i \in 1 .. Len(s) : s[i] = t[i]
<1>1. SUFFICES ASSUME Len(s) <= Len(t)
               PROVE  SubSeq(s, 1, Len(s)) = SubSeq(t, 1, Len(s))
                         <=> \A i \in 1 .. Len(s) : s[i] = t[i]
  BY DEF IsPrefix
<1>2. SubSeq(s, 1, Len(s)) = s
  BY SubSeqFull
<1> DEFINE u == SubSeq(t, 1, Len(s))
<1>3. u \in Seq(S) /\ Len(u) = Len(s) /\ \A i \in 1 .. Len(s) : u[i] = t[i]
  BY <1>1
<1>4. ASSUME \A i \in 1 .. Len(s) : s[i] = t[i]
      PROVE  s = u
  <2> HIDE DEF u
  <2> QED
    BY <1>3, <1>4, SeqEqual
<1> QED
  BY <1>2, <1>3, <1>4

LEMMA PrefixSelf ==
  ASSUME NEW S, NEW s \in Seq(S)
  PROVE  IsPrefix(s, s)
BY DEF IsPrefix

LEMMA PrefixOfLonger ==
  ASSUME NEW S, NEW s \in Seq(S), NEW t \in Seq(S), NEW u \in Seq(S),
         IsPrefix(s, t), IsPrefix(t, u)
  PROVE  IsPrefix(s, u)
BY PrefixIs

(* Any part of a batch that reaches the disk continues what is there.      *)
LEMMA PrefixOfPart ==
  ASSUME NEW S, NEW s \in Seq(S), NEW t \in Seq(S), NEW u \in Seq(S),
         NEW n \in 0 .. Len(t)
  PROVE  /\ s \o SubSeq(t, 1, n) \in Seq(S)
         /\ IsPrefix(s \o SubSeq(t, 1, n), s \o t \o u)
<1> DEFINE p == SubSeq(t, 1, n)
           part == s \o p
           st == s \o t
           all == st \o u
<1>1. p \in Seq(S) /\ Len(p) = n /\ \A i \in 1 .. n : p[i] = t[i]
  OBVIOUS
<1>2. part \in Seq(S) /\ Len(part) = Len(s) + n
      /\ \A i \in 1 .. Len(s) + n : part[i] = IF i <= Len(s) THEN s[i] ELSE t[i - Len(s)]
  <2> HIDE DEF p
  <2>1. part \in Seq(S) /\ Len(part) = Len(s) + Len(p)
      /\ \A i \in 1 .. Len(s) + Len(p) : part[i] = IF i <= Len(s) THEN s[i] ELSE p[i - Len(s)]
    BY <1>1, ConcatProperties
  <2> QED
    BY <1>1, <2>1
<1>3. st \in Seq(S) /\ Len(st) = Len(s) + Len(t)
      /\ \A i \in 1 .. Len(s) + Len(t) : st[i] = IF i <= Len(s) THEN s[i] ELSE t[i - Len(s)]
  BY ConcatProperties
<1>4. all \in Seq(S) /\ Len(all) = Len(st) + Len(u)
      /\ \A i \in 1 .. Len(st) + Len(u) : all[i] = IF i <= Len(st) THEN st[i] ELSE u[i - Len(st)]
  <2> HIDE DEF st
  <2> QED
    BY <1>3, ConcatProperties
<1> HIDE DEF p, part, st, all
<1>5. Len(part) <= Len(all) /\ \A i \in 1 .. Len(part) : part[i] = all[i]
  <2>1. Len(part) <= Len(all)
    BY <1>2, <1>3, <1>4
  <2> SUFFICES ASSUME NEW i \in 1 .. Len(s) + n
               PROVE  part[i] = all[i]
    BY <1>2, <2>1
  <2>2. part[i] = st[i]
    <3>1. i \in 1 .. Len(s) + Len(t)
      OBVIOUS
    <3> QED
      BY <3>1, <1>2, <1>3, Zenon
  <2>3. all[i] = st[i]
    BY <1>3, <1>4
  <2> QED
    BY <2>2, <2>3
<1>6. IsPrefix(part, all)
  BY <1>2, <1>4, <1>5, PrefixIs
<1> QED
  BY <1>2, <1>6 DEF p, part, st, all

LEMMA PiecesBegin ==
  ASSUME NEW a \in Nat, NEW b \in Nat, a <= b
  PROVE  IsPrefix(Pieces(0, a), Pieces(0, b))
<1> DEFINE p == Pieces(0, a)
           q == Pieces(0, b)
<1>1. p \in Seq(Nat) /\ Len(p) = a + 1 /\ \A i \in 1 .. a + 1 : p[i] = i - 1
  BY DEF Pieces
<1>2. q \in Seq(Nat) /\ Len(q) = b + 1 /\ \A i \in 1 .. b + 1 : q[i] = i - 1
  BY DEF Pieces
<1> HIDE DEF p, q
<1>3. Len(p) <= Len(q) /\ \A i \in 1 .. Len(p) : p[i] = q[i]
  BY <1>1, <1>2
<1>4. IsPrefix(p, q)
  BY <1>1, <1>2, <1>3, PrefixIs
<1> QED
  BY <1>4 DEF p, q

-----------------------------------------------------------------------------
(* What a step does to each part of the state.                             *)

(* The stages, flags and histories keep their types.                       *)
LEMMA StageTypes ==
  ASSUME ChannelInv, [Next]_vars
  PROVE  /\ (phase \in Alive \union {"failed", "crashed"})'
         /\ (state \in {"running", "terminated", "stopped"})'
         /\ (child \in {"none", "running", "exited", "closed"})'
         /\ (childClosed \in BOOLEAN)'
<1> USE TRUE DEF ChannelInv, ChannelTypeOK, Alive, Starting, Wired,
        childVars, rawVars, workerVars, derived
<1>1. CASE UNCHANGED <<phase, state, child, childClosed>>
  BY <1>1
<1>2. CASE GetAppUid
  BY <1>2 DEF GetAppUid, PhaseMoves
<1>3. CASE SpawnChild
  BY <1>3 DEF SpawnChild, PhaseMoves
<1>4. CASE OpenRaw
  BY <1>4 DEF OpenRaw, PhaseMoves
<1>5. CASE StartFails
  BY <1>5 DEF StartFails
<1>6. CASE ChildExits
  BY <1>6 DEF ChildExits
<1>7. CASE ChildCloses
  BY <1>7 DEF ChildCloses
<1>8. CASE GraceEnds
  BY <1>8 DEF GraceEnds, PhaseMoves
<1>9. CASE CloseSeen
  BY <1>9 DEF CloseSeen
<1>10. CASE Finish
  BY <1>10 DEF Finish
<1>11. CASE FinishLine
  BY <1>11 DEF FinishLine, PhaseMoves
<1>12. CASE FinishEntry
  BY <1>12 DEF FinishEntry, DoFlush, FlushPending, PhaseMoves
<1>13. CASE CloseRaw
  BY <1>13 DEF CloseRaw, PhaseMoves
<1>14. CASE Shutdown
  BY <1>14 DEF Shutdown, PhaseMoves
<1>15. CASE Crash
  BY <1>15 DEF Crash
<1> QED
  BY <1>1, <1>2, <1>3, <1>4, <1>5, <1>6, <1>7, <1>8, <1>9, <1>10, <1>11,
     <1>12, <1>13, <1>14, <1>15 DEF Next, vars, StartSteps, ChildSteps,
     RawSteps, WorkSteps, ShutdownSteps, FlushStart, FlushDone, FlushFails,
     ProcessChunk, ProcessLine, FlushTick, PollPids, OnChunk,
     ReplayTruncates, ReplayBegins, ReplayAppends, ReplayEnds, ReplayDies

(* So do those of the writer and the worker.                               *)
LEMMA FlagTypes ==
  ASSUME ChannelInv, [Next]_vars
  PROVE  /\ (wanted \in BOOLEAN)' /\ (pidKnown \in BOOLEAN)' /\ (lost \in BOOLEAN)'
         /\ (flushing \in {"idle", "writing", "poisoned"})'
<1> USE TRUE DEF ChannelInv, ChannelTypeOK, childVars, rawVars, workerVars,
        derived
<1>1. CASE UNCHANGED <<wanted, pidKnown, lost, flushing>>
  BY <1>1
<1>2. CASE OpenRaw
  BY <1>2 DEF OpenRaw, PhaseMoves
<1>3. CASE FlushStart
  BY <1>3 DEF FlushStart
<1>4. CASE FlushDone
  BY <1>4 DEF FlushDone
<1>5. CASE FlushFails
  BY <1>5 DEF FlushFails
<1>6. CASE ProcessLine
  BY <1>6 DEF ProcessLine, HandleLine, DeriveParsed, FlushPending
<1>7. CASE FinishEntry
  BY <1>7 DEF FinishEntry, DoFlush, FlushPending, PhaseMoves
<1>8. CASE FlushTick
  BY <1>8 DEF FlushTick, DoFlush
<1>9. CASE PollPids
  BY <1>9 DEF PollPids
<1>10. CASE Crash
  BY <1>10 DEF Crash
<1>11. CASE \E m \in 1 .. MaxChunk : OnChunk(m)
  BY <1>11 DEF OnChunk, Reads, DoFlush
<1> QED
  BY <1>1, <1>2, <1>3, <1>4, <1>5, <1>6, <1>7, <1>8, <1>9, <1>10, <1>11 DEF
     Next, vars, StartSteps, ChildSteps, RawSteps, WorkSteps, ShutdownSteps,
     GetAppUid, SpawnChild, StartFails, ChildExits, ChildCloses,
     ProcessChunk, GraceEnds, CloseSeen, Finish, FinishLine, CloseRaw,
     Shutdown, ReplayTruncates, ReplayBegins, ReplayAppends, ReplayEnds,
     ReplayDies

(* A chunk is read of a log that begins with what was read before.         *)
LEMMA ReadsOn ==
  ASSUME ChannelInv, NEW n \in 1 .. MaxChunk, Reads(n)
  PROVE  /\ received' = received + n /\ received' \in Piece
         /\ lines' \in Seq(Kind) /\ IsPrefix(lines, lines')
         /\ \E log \in Logs : IsPrefix(lines', log)
         /\ Len(lines') = (received' + 1) \div 2
<1> USE ConstantsAssumption, LogsAreBounded DEF ChannelInv, ChannelTypeOK, Piece
<1>1. n \in Nat \ {0}
  OBVIOUS
<1>2. PICK log \in Logs : /\ IsPrefix(lines, log) /\ received + n <= 2 * Len(log)
                          /\ lines' = SubSeq(log, 1, (received + n + 1) \div 2)
  BY DEF Reads
<1> DEFINE k == (received + n + 1) \div 2
<1>3. received' = received + n /\ received \in Nat
  BY DEF Reads
<1>4. /\ received + n <= 2 * Len(log) /\ log \in Seq(Kind)
      /\ Len(log) \in Nat /\ Len(log) <= MaxLines
  BY <1>2
<1>5. k \in 0 .. Len(log) /\ (received + 1) \div 2 <= k
  <2> HIDE DEF ChannelInv
  <2> QED
    BY <1>1, <1>3, <1>4
<1>6. phase # "crashed"
  BY DEF Reads, Wired
<1>7. Len(lines) = (received + 1) \div 2
  BY <1>6 DEF RawInv, LinesRead
<1>11. lines \in Seq(Kind)
  OBVIOUS
<1> HIDE DEF k, ChannelInv, ChannelTypeOK
<1>8. lines' \in Seq(Kind) /\ Len(lines') = k /\ \A i \in 1 .. k : lines'[i] = log[i]
  BY <1>2, <1>4, <1>5 DEF k
<1>9. IsPrefix(lines', log)
  BY <1>4, <1>5, <1>8, PrefixIs
<1>10. IsPrefix(lines, lines')
  <2>1. Len(lines) <= Len(log) /\ \A i \in 1 .. Len(lines) : lines[i] = log[i]
    BY <1>2, <1>4, <1>11, PrefixIs
  <2>2. Len(lines) <= Len(lines') /\ \A i \in 1 .. Len(lines) : lines[i] = lines'[i]
    BY <2>1, <1>4, <1>5, <1>7, <1>8
  <2> QED
    BY <2>2, <1>8, <1>11, PrefixIs
<1> QED
  BY <1>1, <1>3, <1>4, <1>8, <1>9, <1>10 DEF k

(* What the child has logged begins one of its logs.                       *)
LEMMA LinesGrow ==
  ASSUME ChannelInv, [Next]_vars
  PROVE  /\ lines' \in Seq(Kind) /\ \E log \in Logs : IsPrefix(lines', log)
         /\ IsPrefix(lines, lines')
         /\ received' \in Piece /\ drainTo' \in Piece
<1> USE ConstantsAssumption, LogsAreBounded DEF ChannelInv, ChannelTypeOK,
        Piece, childVars, rawVars, workerVars, derived
<1>1. CASE UNCHANGED <<lines, received, drainTo>>
  BY <1>1, PrefixSelf
<1>2. CASE CloseSeen
  BY <1>2, PrefixSelf DEF CloseSeen
<1>3. CASE Shutdown
  BY <1>3, PrefixSelf DEF Shutdown, PhaseMoves
<1>4. CASE Crash
  BY <1>4, PrefixSelf DEF Crash
<1>5. CASE \E m \in 1 .. MaxChunk : OnChunk(m)
  BY <1>5, ReadsOn DEF OnChunk
<1> QED
  BY <1>1, <1>2, <1>3, <1>4, <1>5 DEF Next, vars, StartSteps, ChildSteps,
     RawSteps, WorkSteps, ShutdownSteps, GetAppUid, SpawnChild, OpenRaw,
     StartFails, ChildExits, ChildCloses, FlushStart, FlushDone, FlushFails,
     ProcessChunk, ProcessLine, GraceEnds, Finish, FinishLine, FinishEntry,
     CloseRaw, FlushTick, PollPids, ReplayTruncates, ReplayBegins,
     ReplayAppends, ReplayEnds, ReplayDies

(* A channel that has crashed stays so.                                    *)
LEMMA CrashIsFinal ==
  ASSUME [Next]_vars, phase = "crashed"
  PROVE  phase' = "crashed"
<1> USE TRUE DEF vars, Starting, Wired, Closed, Alive, PhaseMoves, Reads,
        childVars, rawVars, workerVars, derived
<1>1. CASE UNCHANGED vars
  BY <1>1
<1> QED
  BY <1>1 DEF Next, vars, StartSteps, ChildSteps, RawSteps, WorkSteps,
     ShutdownSteps, GetAppUid, SpawnChild, OpenRaw, StartFails, ChildExits,
     ChildCloses, FlushStart, FlushDone, FlushFails, ProcessChunk,
     ProcessLine, GraceEnds, CloseSeen, Finish, FinishLine, FinishEntry,
     CloseRaw, FlushTick, PollPids, Shutdown, Crash, OnChunk,
     ReplayTruncates, ReplayBegins, ReplayAppends, ReplayEnds, ReplayDies

(* A line is logged by its first piece.                                    *)
LEMMA LinesReadStep ==
  ASSUME ChannelInv, [Next]_vars
  PROVE  LinesRead'
<1> USE TRUE DEF ChannelInv, RawInv, LinesRead, childVars, rawVars,
        workerVars, derived
<1>1. CASE UNCHANGED <<lines, received>>
  BY <1>1, CrashIsFinal
<1>2. CASE Crash
  BY <1>2, CrashIsFinal DEF Crash
<1>3. CASE \E m \in 1 .. MaxChunk : OnChunk(m)
  BY <1>3, ReadsOn DEF OnChunk
<1> QED
  BY <1>1, <1>2, <1>3 DEF Next, vars, StartSteps, ChildSteps, RawSteps,
     WorkSteps, ShutdownSteps, GetAppUid, SpawnChild, OpenRaw, StartFails,
     ChildExits, ChildCloses, FlushStart, FlushDone, FlushFails,
     ProcessChunk, ProcessLine, GraceEnds, CloseSeen, Finish, FinishLine,
     FinishEntry, CloseRaw, FlushTick, PollPids, Shutdown, ReplayTruncates,
     ReplayBegins, ReplayAppends, ReplayEnds, ReplayDies

(* The channel is wired by OpenRaw, shut down by CloseRaw and ended by a   *)
(* crash.                                                                  *)
LEMMA PhaseSteps ==
  ASSUME [Next]_vars
  PROVE  /\ phase' \in Wired => phase \in Wired \/ OpenRaw
         /\ phase' \in Starting \union {"failed"}
               => phase \in Starting \union {"failed"}
         /\ phase' = "close" => phase = "close" \/ FinishEntry
         /\ phase' = "down" => phase = "down" \/ CloseRaw
         /\ phase' = "crashed" => phase = "crashed" \/ Crash
<1> USE TRUE DEF vars, Starting, Wired, Closed, Alive, PhaseMoves, Reads,
        childVars, rawVars, workerVars, derived
<1>1. CASE UNCHANGED vars
  BY <1>1
<1>2. CASE OpenRaw
  BY <1>2 DEF OpenRaw, PhaseMoves
<1>3. CASE FinishEntry
  BY <1>3 DEF FinishEntry, DoFlush, FlushPending, PhaseMoves
<1>4. CASE CloseRaw
  BY <1>4 DEF CloseRaw, PhaseMoves
<1>5. CASE Crash
  BY <1>5 DEF Crash
<1> QED
  BY <1>1, <1>2, <1>3, <1>4, <1>5 DEF Next, vars, StartSteps, ChildSteps,
     RawSteps, WorkSteps, ShutdownSteps, GetAppUid, SpawnChild, StartFails,
     ChildExits, ChildCloses, FlushStart, FlushDone, FlushFails,
     ProcessChunk, ProcessLine, GraceEnds, CloseSeen, Finish, FinishLine,
     FlushTick, PollPids, Shutdown, OnChunk, ReplayTruncates, ReplayBegins,
     ReplayAppends, ReplayEnds, ReplayDies

(* Nothing happens before the channel is wired.                            *)
LEMMA NothingBeforeStep ==
  ASSUME ChannelInv, [Next]_vars
  PROVE  NothingBefore'
<1> USE TRUE DEF ChannelInv, RawInv, NothingBefore, ReplaysWait, Idle,
        Starting, Wired, Closed, childVars, rawVars, workerVars, derived
<1>1. CASE UNCHANGED <<received, rawQueue, disk, wanted, flushing, chunks, work, carry, rawLineNo, pending, jsonl, marks>>
  BY <1>1, PhaseSteps
<1>2. CASE OpenRaw
  BY <1>2, PhaseSteps DEF OpenRaw, PhaseMoves
<1>3. CASE FlushStart
  BY <1>3, PhaseSteps DEF FlushStart
<1>4. CASE FlushDone
  BY <1>4, PhaseSteps DEF FlushDone
<1>5. CASE FlushFails
  BY <1>5, PhaseSteps DEF FlushFails
<1>6. CASE ProcessChunk
  BY <1>6, PhaseSteps DEF ProcessChunk
<1>7. CASE ProcessLine
  BY <1>7, PhaseSteps DEF ProcessLine, HandleLine, DeriveParsed,
     FlushPending
<1>8. CASE Finish
  BY <1>8, PhaseSteps DEF Finish
<1>9. CASE FinishEntry
  BY <1>9, PhaseSteps DEF FinishEntry, DoFlush, FlushPending, PhaseMoves
<1>10. CASE FlushTick
  BY <1>10, PhaseSteps DEF FlushTick, DoFlush
<1>11. CASE Crash
  BY <1>11, PhaseSteps DEF Crash
<1>12. CASE \E m \in 1 .. MaxChunk : OnChunk(m)
  BY <1>12, PhaseSteps DEF OnChunk, Reads, DoFlush
<1>13. CASE \E q \in Recoverer : ReplayTruncates(q)
  BY <1>13, PhaseSteps DEF ReplayTruncates, ReplayBegins
<1>14. CASE \E q \in Recoverer : ReplayAppends(q)
  BY <1>14, PhaseSteps DEF ReplayAppends
<1> QED
  BY <1>1, <1>2, <1>3, <1>4, <1>5, <1>6, <1>7, <1>8, <1>9, <1>10, <1>11,
     <1>12, <1>13, <1>14 DEF Next, vars, StartSteps, ChildSteps, RawSteps,
     WorkSteps, ShutdownSteps, GetAppUid, SpawnChild, StartFails,
     ChildExits, ChildCloses, GraceEnds, CloseSeen, FinishLine, CloseRaw,
     PollPids, Shutdown, ReplayEnds, ReplayDies

(* The queue, the batch and the file are sequences of pieces.              *)
LEMMA RawTypes ==
  ASSUME ChannelInv, [Next]_vars
  PROVE  /\ rawQueue' \in Seq(Piece) /\ batch' \in Seq(Piece)
         /\ disk' \in Seq(Piece)
<1> USE TRUE DEF ChannelInv, ChannelTypeOK, childVars, rawVars, workerVars,
        derived
<1>1. CASE UNCHANGED <<rawQueue, batch, disk>>
  BY <1>1, ConcatProperties
<1>2. CASE OpenRaw
  BY <1>2, LogsAreBounded DEF OpenRaw, Piece
<1>3. CASE FlushStart
  BY <1>3, ConcatProperties DEF FlushStart
<1>4. CASE FlushDone
  BY <1>4, ConcatProperties DEF FlushDone
<1>5. CASE FlushFails
  BY <1>5, ConcatProperties DEF FlushFails
<1>6. CASE Crash
  BY <1>6, ConcatProperties DEF Crash
<1>7. CASE \E m \in 1 .. MaxChunk : OnChunk(m)
  <2> SUFFICES ASSUME NEW n \in 1 .. MaxChunk, OnChunk(n)
               PROVE  rawQueue' \in Seq(Piece) /\ UNCHANGED <<batch, disk>>
    BY <1>7
  <2> DEFINE p == Pieces(received + 1, received + n)
  <2>1. /\ received' = received + n /\ received' \in Piece
        /\ received \in Nat /\ n \in Nat
    BY ReadsOn, ConstantsAssumption DEF OnChunk, Piece
  <2>2. p \in Seq(Piece)
    BY <2>1, LogsAreBounded DEF Pieces, Piece
  <2> HIDE DEF p
  <2>3. rawQueue \o p \in Seq(Piece)
    BY <2>2, ConcatProperties
  <2> QED
    BY <2>3 DEF OnChunk, p
<1> QED
  BY <1>1, <1>2, <1>3, <1>4, <1>5, <1>6, <1>7 DEF Next, vars, StartSteps,
     ChildSteps, RawSteps, WorkSteps, ShutdownSteps, GetAppUid, SpawnChild,
     StartFails, ChildExits, ChildCloses, ProcessChunk, ProcessLine,
     GraceEnds, CloseSeen, Finish, FinishLine, FinishEntry, CloseRaw,
     FlushTick, PollPids, Shutdown, ReplayTruncates, ReplayBegins,
     ReplayAppends, ReplayEnds, ReplayDies

(* A batch is being written or empty, and the last doFlush empties the     *)
(* queue.                                                                  *)
LEMMA RawStagesStep ==
  ASSUME ChannelInv, [Next]_vars
  PROVE  RawStages'
<1> USE TRUE DEF ChannelInv, RawInv, RawStages, NothingBefore, Starting,
        Wired, Closed, childVars, rawVars, workerVars, derived
<1>1. CASE UNCHANGED <<rawQueue, wanted, flushing, batch>>
  BY <1>1, PhaseSteps DEF FinishEntry, CloseRaw, DoFlush, PhaseMoves
<1>2. CASE OpenRaw
  BY <1>2, PhaseSteps DEF OpenRaw, PhaseMoves
<1>3. CASE FlushStart
  BY <1>3, PhaseSteps DEF FlushStart
<1>4. CASE FlushDone
  BY <1>4, PhaseSteps DEF FlushDone
<1>5. CASE FlushFails
  BY <1>5, PhaseSteps DEF FlushFails
<1>6. CASE FinishEntry
  BY <1>6, PhaseSteps DEF FinishEntry, DoFlush, FlushPending, PhaseMoves
<1>7. CASE CloseRaw
  BY <1>7, PhaseSteps DEF CloseRaw, PhaseMoves
<1>8. CASE FlushTick
  BY <1>8, PhaseSteps DEF FlushTick, DoFlush
<1>9. CASE Crash
  BY <1>9, PhaseSteps DEF Crash
<1>10. CASE \E m \in 1 .. MaxChunk : OnChunk(m)
  BY <1>10, PhaseSteps DEF OnChunk, Reads, DoFlush
<1> QED
  BY <1>1, <1>2, <1>3, <1>4, <1>5, <1>6, <1>7, <1>8, <1>9, <1>10 DEF Next,
     vars, StartSteps, ChildSteps, RawSteps, WorkSteps, ShutdownSteps,
     GetAppUid, SpawnChild, StartFails, ChildExits, ChildCloses,
     ProcessChunk, ProcessLine, GraceEnds, CloseSeen, Finish, FinishLine,
     PollPids, Shutdown, ReplayTruncates, ReplayBegins, ReplayAppends,
     ReplayEnds, ReplayDies

(* The raw file is the truth after every step.                             *)
LEMMA RawIsTruthStep ==
  ASSUME ChannelInv, [Next]_vars
  PROVE  RawIsTruth'
<1> DEFINE all == disk \o batch \o rawQueue
<1>1. /\ disk \in Seq(Piece) /\ batch \in Seq(Piece) /\ rawQueue \in Seq(Piece)
      /\ received \in Piece /\ Piece \subseteq Nat
  BY LogsAreBounded DEF ChannelInv, ChannelTypeOK, Piece
<1>2. disk \in Seq(Nat) /\ batch \in Seq(Nat) /\ rawQueue \in Seq(Nat) /\ received \in Nat
  BY <1>1, SeqMonotonic
<1>3. Teed \in Seq(Nat)
  BY <1>2 DEF Teed, Pieces
<1>4. RawIsTruth /\ RawStages /\ LinesRead /\ NothingBefore
  BY DEF ChannelInv, RawInv
<1>5. phase \in Wired => IsPrefix(disk, Teed)
  BY <1>4 DEF RawIsTruth, Wired
<1>6. phase \in Wired /\ flushing # "poisoned" => all = Teed
  BY <1>4 DEF RawIsTruth
<1>7. ASSUME NEW n \in 0 .. Len(batch), phase \in Wired
      PROVE  /\ disk \o SubSeq(batch, 1, n) \in Seq(Nat)
             /\ IsPrefix(disk \o SubSeq(batch, 1, n), Teed)
  <2>1. CASE flushing = "poisoned"
    <3>1. batch = <<>> /\ n = 0
      BY <2>1, <1>4, <1>7 DEF RawStages
    <3>2. SubSeq(batch, 1, n) = <<>>
      BY <3>1
    <3> QED
      BY <3>2, <1>2, <1>5, <1>7, ConcatEmptySeq
  <2>2. CASE flushing # "poisoned"
    BY <2>2, <1>2, <1>6, <1>7, PrefixOfPart
  <2> QED
    BY <2>1, <2>2
<1> HIDE DEF all
<1>8. CASE OpenRaw
  <2>1. /\ disk' = <<>> /\ batch' = <<>> /\ rawQueue' = <<0>> /\ received' = 0
        /\ phase' = "running" /\ flushing' = "idle"
    BY <1>8, <1>4 DEF OpenRaw, PhaseMoves, NothingBefore, RawStages, Starting, rawVars
  <2>2. Teed' = <<0>>
    BY <2>1 DEF Teed, Pieces
  <2>3. /\ <<>> \o <<>> \o <<0>> = <<0>>
        /\ IsPrefix(<<>>, <<0>>)
    BY DEF IsPrefix
  <2> QED
    BY <2>1, <2>2, <2>3 DEF RawIsTruth
<1>9. CASE \E n \in 1 .. MaxChunk : OnChunk(n)
  <2> SUFFICES ASSUME NEW n \in 1 .. MaxChunk, OnChunk(n)
               PROVE  RawIsTruth'
    BY <1>9
  <2> DEFINE p == Pieces(received + 1, received + n)
  <2>1. /\ received' = received + n /\ received' \in Nat /\ n \in Nat
    BY ReadsOn, ConstantsAssumption, LogsAreBounded DEF OnChunk, Piece
  <2>2. /\ UNCHANGED <<phase, disk, batch, flushing>>
        /\ rawQueue' = rawQueue \o p /\ phase \in Wired \ Closed
    BY DEF OnChunk, Reads
  <2>3. p \in Seq(Nat)
    BY <2>1, <1>2 DEF Pieces
  <2>4. Teed \o p = Teed' /\ IsPrefix(Teed, Teed')
    <3>1. received + n \in Nat /\ received <= received + n
      BY <2>1, <1>2
    <3>2. Pieces(0, received) \o p = Pieces(0, received + n)
      BY <3>1, <1>2, PiecesJoin, Zenon
    <3>3. IsPrefix(Pieces(0, received), Pieces(0, received + n))
      BY <3>1, <1>2, PiecesBegin, Zenon
    <3> HIDE DEF p
    <3> QED
      BY <3>2, <3>3, <2>1 DEF Teed
  <2>5. Teed' \in Seq(Nat)
    BY <2>1 DEF Teed, Pieces
  <2> HIDE DEF p
  <2>6. disk' \o batch' \o rawQueue' = all \o p
    <3>1. disk \o batch \in Seq(Nat)
      BY <1>2, ConcatProperties
    <3>2. (disk \o batch) \o (rawQueue \o p) = ((disk \o batch) \o rawQueue) \o p
      <4> DEFINE s == disk \o batch
      <4>1. s \in Seq(Nat) /\ rawQueue \in Seq(Nat) /\ p \in Seq(Nat)
        BY <2>3, <3>1, <1>2
      <4> HIDE DEF s
      <4>2. (s \o rawQueue) \o p = s \o (rawQueue \o p)
        BY <4>1, ConcatAssociative, SMTT(30)
      <4> QED
        BY <4>2 DEF s
    <3> QED
      BY <3>2, <2>2, Zenon DEF all
  <2>7. IsPrefix(disk, Teed')
    BY <2>2, <2>4, <2>5, <1>2, <1>3, <1>5, PrefixOfLonger
      DEF Closed
  <2> QED
    BY <2>2, <2>4, <2>6, <2>7, <1>6 DEF RawIsTruth, Wired, Closed
<1>10. CASE FlushStart
  <2>1. /\ phase \in Wired /\ UNCHANGED <<phase, disk, received>>
        /\ batch = <<>> /\ batch' = rawQueue /\ rawQueue' = <<>>
        /\ flushing = "idle" /\ Teed' = Teed
        /\ phase # "down"
    BY <1>10, <1>4 DEF FlushStart, RawStages, Teed
  <2>2. disk' \o batch' \o rawQueue' = all
    BY <2>1, <1>2, ConcatEmptySeq, ConcatProperties DEF all
  <2> QED
    BY <2>1, <2>2, <1>5, <1>6 DEF RawIsTruth, Wired
<1>11. CASE FlushDone
  <2>1. /\ phase \in Wired /\ UNCHANGED <<phase, rawQueue, received>>
        /\ disk' = disk \o batch /\ batch' = <<>> /\ flushing = "writing"
        /\ Teed' = Teed /\ phase # "down"
    BY <1>11, <1>4 DEF FlushDone, RawStages, Teed
  <2>2. disk' \o batch' \o rawQueue' = all
    BY <2>1, <1>2, ConcatEmptySeq, ConcatProperties DEF all
  <2>3. IsPrefix(disk', Teed')
    <3>1. SubSeq(batch, 1, Len(batch)) = batch /\ Len(batch) \in 0 .. Len(batch)
      BY <1>2, SubSeqFull
    <3> QED
      BY <3>1, <2>1, <1>7
  <2> QED
    BY <2>1, <2>2, <2>3, <1>6 DEF RawIsTruth, Wired
<1>12. CASE FlushFails
  <2>1. /\ phase \in Wired /\ UNCHANGED <<phase, received>>
        /\ flushing' = "poisoned" /\ Teed' = Teed
    BY <1>12 DEF FlushFails, Teed
  <2>2. IsPrefix(disk', Teed')
    BY <2>1, <1>7, <1>12 DEF FlushFails
  <2> QED
    BY <2>1, <2>2 DEF RawIsTruth, Wired
<1>13. CASE CloseRaw
  <2>1. /\ phase = "close" /\ phase' = "down" /\ UNCHANGED <<rawVars, received>>
        /\ Teed' = Teed
        /\ \/ flushing = "idle" /\ ~wanted
           \/ flushing = "poisoned"
    BY <1>13 DEF CloseRaw, PhaseMoves, Teed
  <2>2. flushing = "idle" => batch = <<>> /\ rawQueue = <<>>
    BY <2>1, <1>4 DEF RawStages
  <2>3. flushing = "idle" => all = disk
    BY <2>2, <1>2, ConcatEmptySeq DEF all
  <2> QED
    BY <2>1, <2>3, <1>5, <1>6 DEF RawIsTruth, Wired, rawVars, all
<1>14. CASE Crash
  <2>1. /\ phase \in Wired /\ phase' = "crashed" /\ lines' = lines
        /\ Len(lines) = (received + 1) \div 2
    BY <1>14, <1>4 DEF Crash, LinesRead, Wired
  <2>2. PICK n \in 0 .. Len(batch) : disk' = disk \o SubSeq(batch, 1, n)
    BY <1>14 DEF Crash
  <2>3. disk' \in Seq(Nat) /\ IsPrefix(disk', Teed)
    BY <2>1, <2>2, <1>7
  <2>4. /\ received <= 2 * Len(lines) /\ 2 * Len(lines) \in Nat
    BY <2>1, <1>2
  <2>5. /\ Pieces(0, 2 * Len(lines)) \in Seq(Nat)
        /\ IsPrefix(Teed, Pieces(0, 2 * Len(lines)))
    <3>1. Pieces(0, 2 * Len(lines)) \in Seq(Nat)
      BY <2>4 DEF Pieces
    <3>2. IsPrefix(Teed, Pieces(0, 2 * Len(lines)))
      BY <2>4, <1>2, PiecesBegin, Zenon DEF Teed
    <3> QED
      BY <3>1, <3>2
  <2>6. IsPrefix(disk', Pieces(0, 2 * Len(lines)))
    BY <2>3, <2>5, <1>3, PrefixOfLonger
  <2> QED
    BY <2>1, <2>6 DEF RawIsTruth, Wired
<1>15. CASE /\ UNCHANGED <<rawQueue, flushing, batch, disk, received, lines>>
            /\ ~OpenRaw /\ ~CloseRaw /\ ~Crash
  <2>1. Teed' = Teed
    BY <1>15 DEF Teed
  <2>2. /\ phase' \in Wired => phase \in Wired
        /\ phase' = "down" => phase = "down"
        /\ phase' = "crashed" <=> phase = "crashed"
    BY <1>15, PhaseSteps, CrashIsFinal
  <2> QED
    BY <2>1, <2>2, <1>4, <1>15 DEF RawIsTruth
<1>16. \/ UNCHANGED <<rawQueue, flushing, batch, disk, received, lines>>
       \/ OpenRaw \/ \E n \in 1 .. MaxChunk : OnChunk(n)
       \/ FlushStart \/ FlushDone \/ FlushFails \/ Crash
  BY DEF Next, vars, StartSteps, ChildSteps, RawSteps, WorkSteps,
         ShutdownSteps, childVars, rawVars, workerVars, derived, GetAppUid,
         SpawnChild, StartFails, ChildExits, ChildCloses, ProcessChunk,
         ProcessLine, GraceEnds, CloseSeen, Finish, FinishLine,
         FinishEntry, CloseRaw, FlushTick, PollPids, Shutdown,
         ReplayTruncates, ReplayBegins, ReplayAppends, ReplayEnds,
         ReplayDies
<1> QED
  BY <1>8, <1>9, <1>10, <1>11, <1>12, <1>13, <1>14, <1>15, <1>16

-----------------------------------------------------------------------------
(* The worker's chain.                                                     *)

LEMMA Halves ==
  ASSUME NEW a \in Nat
  PROVE  /\ a \div 2 \in Nat /\ a % 2 \in {0, 1} /\ a = 2 * (a \div 2) + (a % 2)
         /\ (a + 1) \div 2 = (a \div 2) + (a % 2)
<1>1. a \div 2 \in Nat /\ a % 2 \in {0, 1} /\ a = 2 * (a \div 2) + (a % 2)
  OBVIOUS
<1>2. (a + 1) \div 2 = (a \div 2) + (a % 2)
  <2>1. CASE a % 2 = 0
    BY <2>1
  <2>2. CASE a % 2 = 1
    BY <2>2
  <2> QED
    BY <1>1, <2>1, <2>2
<1> QED
  BY <1>1, <1>2

(* What a chunk makes of the line buffer: the lines it ends, and one more  *)
(* if it leaves the beginning of a line too long.                          *)
LEMMA PushedIs ==
  ASSUME ChannelInv, phase \in Wired, NEW c \in [from : Piece, to : Piece],
         1 <= c.from, c.from <= c.to, c.to <= received
  PROVE  LET ended  == (c.from - 1) \div 2
             n      == c.to \div 2 - ended
             forced == c.to % 2 = 1 /\ lines[(c.to + 1) \div 2] = "long"
         IN  /\ n \in Nat /\ ended + n <= Len(lines)
             /\ Pushed(c).lines \in Seq([at : 1 .. Len(lines), kind : Kind])
             /\ Len(Pushed(c).lines) = n + (IF forced THEN 1 ELSE 0)
             /\ \A i \in 1 .. n : Pushed(c).lines[i] =
                   [at   |-> ended + i,
                    kind |-> IF 2 * (ended + i) = c.from /\ carry = 0
                             THEN "cont" ELSE lines[ended + i]]
             /\ Pushed(c).carry = IF forced \/ c.to % 2 = 0 THEN 0 ELSE c.to
<1> DEFINE ended  == (c.from - 1) \div 2
           n      == c.to \div 2 - ended
           forced == c.to % 2 = 1 /\ lines[(c.to + 1) \div 2] = "long"
           Line(k) == [at   |-> k,
                       kind |-> IF 2 * k = c.from /\ carry = 0 THEN "cont"
                                ELSE lines[k]]
           first == [i \in 1 .. n |-> Line(ended + i)]
           last  == IF forced THEN <<[at |-> (c.to + 1) \div 2, kind |-> "long"]>>
                    ELSE <<>>
           L == [at : 1 .. Len(lines), kind : Kind]
<1>1. /\ lines \in Seq(Kind) /\ Len(lines) = (received + 1) \div 2
      /\ received \in Nat
  BY LogsAreBounded DEF ChannelInv, ChannelTypeOK, RawInv, LinesRead, Wired, Piece
<1>2. c.from \in Nat /\ c.to \in Nat /\ c.from - 1 \in Nat
  BY LogsAreBounded DEF Piece
<1>3. /\ ended \in Nat /\ n \in Nat /\ ended + n = c.to \div 2
      /\ ended + n <= Len(lines) /\ (c.to + 1) \div 2 \in 1 .. Len(lines)
  BY <1>1, <1>2
<1>4. \A i \in 1 .. n : Line(ended + i) \in L
  <2> SUFFICES ASSUME NEW i \in 1 .. n
               PROVE  Line(ended + i) \in L
    OBVIOUS
  <2>1. ended + i \in 1 .. Len(lines)
    <3> HIDE DEF ended, n
    <3> QED
      BY <1>1, <1>3
  <2>2. lines[ended + i] \in Kind /\ "cont" \in Kind
    BY <2>1, <1>1 DEF Kind, Joins
  <2> HIDE DEF ended
  <2> QED
    BY <2>1, <2>2
<1>5. Pushed(c).lines = first \o last
  <2>1. CASE c.to % 2 = 1
    <3>1. c.to # 0
      BY <2>1
    <3> QED
      BY <2>1, <3>1 DEF Pushed
  <2>2. CASE c.to % 2 # 1
    BY <2>2 DEF Pushed
  <2> QED
    BY <2>1, <2>2
<1>6. Pushed(c).carry = IF forced \/ c.to % 2 = 0 THEN 0 ELSE c.to
  BY <1>2 DEF Pushed
<1>7. first \in Seq(L) /\ Len(first) = n /\ \A i \in 1 .. n : first[i] = Line(ended + i)
  <2> HIDE DEF Line, L, n
  <2> QED
    BY <1>3, <1>4
<1>8. last \in Seq(L) /\ Len(last) = (IF forced THEN 1 ELSE 0)
  <2>1. CASE forced
    <3>1. [at |-> (c.to + 1) \div 2, kind |-> "long"] \in L
      BY <1>3 DEF Kind, Entries
    <3> HIDE DEF L
    <3> QED
      BY <2>1, <3>1
  <2>2. CASE ~forced
    BY <2>2
  <2> QED
    BY <2>1, <2>2
<1>9. /\ first \o last \in Seq(L) /\ Len(first \o last) = Len(first) + Len(last)
      /\ \A i \in 1 .. n : (first \o last)[i] = first[i]
  <2> HIDE DEF first, last, L, n
  <2>1. /\ first \o last \in Seq(L) /\ Len(first \o last) = Len(first) + Len(last)
        /\ \A i \in 1 .. Len(first) + Len(last) : (first \o last)[i] =
              IF i <= Len(first) THEN first[i] ELSE last[i - Len(first)]
    BY <1>7, <1>8, ConcatProperties
  <2> QED
    BY <2>1, <1>3, <1>7, <1>8
<1> HIDE DEF first, last
<1> QED
  BY <1>3, <1>5, <1>6, <1>7, <1>8, <1>9

(* The chunks waiting are the pieces between what was taken and received.  *)
LEMMA ChunksJoinStep ==
  ASSUME ChannelInv, [Next]_vars
  PROVE  ChunksJoin' /\ (chunks \in Seq([from : Piece, to : Piece]))'
<1> USE DEF ChunksJoin
<1>1. /\ chunks \in Seq([from : Piece, to : Piece]) /\ received \in Nat
      /\ Piece \subseteq Nat /\ ChunksJoin /\ NothingBefore
  BY LogsAreBounded DEF ChannelInv, ChannelTypeOK, RawInv, Piece
<1>2. CASE \E n \in 1 .. MaxChunk : OnChunk(n)
  <2> SUFFICES ASSUME NEW n \in 1 .. MaxChunk, OnChunk(n)
               PROVE  ChunksJoin' /\ (chunks \in Seq([from : Piece, to : Piece]))'
    BY <1>2
  <2> DEFINE c == [from |-> received + 1, to |-> received + n]
  <2>1. /\ received' = received + n /\ received' \in Piece /\ n \in Nat \ {0}
        /\ phase' = phase /\ phase \in Wired
        /\ chunks' = Append(chunks, c)
    <3>1. n \in Nat \ {0}
      BY ConstantsAssumption
    <3>2. received' = received + n /\ received' \in Piece
      BY ReadsOn DEF OnChunk
    <3>3. phase' = phase /\ phase \in Wired
      BY DEF OnChunk, Reads
    <3>4. chunks' = Append(chunks, c)
      BY DEF OnChunk
    <3> QED
      BY <3>1, <3>2, <3>3, <3>4
  <2>2. c \in [from : Piece, to : Piece] /\ c.from = received + 1 /\ c.to = received'
    BY <2>1, <1>1, LogsAreBounded DEF Piece
  <2> HIDE DEF c
  <2>3. /\ chunks' \in Seq([from : Piece, to : Piece])
        /\ Len(chunks') = Len(chunks) + 1 /\ chunks'[Len(chunks) + 1] = c
        /\ \A i \in 1 .. Len(chunks) : chunks'[i] = chunks[i]
    BY <2>1, <2>2, <1>1, AppendProperties
  <2>4. ASSUME NEW i \in 1 .. Len(chunks)
        PROVE  /\ 1 <= chunks'[i].from /\ chunks'[i].from <= chunks'[i].to
               /\ chunks'[i].to <= received'
               /\ chunks'[i].to = chunks'[i + 1].from - 1
    <3>1. /\ 1 <= chunks[i].from /\ chunks[i].from <= chunks[i].to
          /\ chunks[i].to <= received
          /\ chunks[i].to = IF i = Len(chunks) THEN received
                            ELSE chunks[i + 1].from - 1
          /\ chunks[i].from \in Nat /\ chunks[i].to \in Nat
      <4>1. i \in DOMAIN chunks /\ chunks[i] \in [from : Piece, to : Piece]
        <5> DEFINE C == [from : Piece, to : Piece]
        <5>1. chunks \in Seq(C)
          BY <1>1
        <5> HIDE DEF C
        <5>2. i \in DOMAIN chunks /\ chunks[i] \in C
          BY <5>1
        <5> QED
          BY <5>2 DEF C
      <4>2. chunks[i].from \in Piece /\ chunks[i].to \in Piece
        BY <4>1
      <4> QED
        BY <4>1, <4>2, <2>1, <1>1
    <3>2. CASE i = Len(chunks)
      BY <3>1, <3>2, <2>1, <2>2, <2>3, <1>1
    <3>3. CASE i # Len(chunks)
      <4>1. i + 1 \in 1 .. Len(chunks)
        BY <3>3
      <4> QED
        BY <3>1, <3>3, <4>1, <2>1, <2>3, <1>1
    <3> QED
      BY <3>2, <3>3
  <2>5. ASSUME NEW i \in DOMAIN chunks'
        PROVE  \/ i \in 1 .. Len(chunks)
               \/ i = Len(chunks') /\ chunks'[i] = c
    <3> DEFINE C == [from : Piece, to : Piece]
    <3>1. chunks' \in Seq(C) /\ chunks \in Seq(C)
      BY <2>3, <1>1
    <3> HIDE DEF C
    <3>2. i \in 1 .. Len(chunks) + 1
      BY <3>1, <2>3
    <3> QED
      BY <3>1, <3>2, <2>3
  <2>6. \A i \in 1 .. Len(chunks) : i # Len(chunks')
    BY <2>3, <1>1
  <2>7. 1 <= c.from /\ c.from <= c.to
    BY <2>1, <2>2, <1>1
  <2>8. c.to <= received'
    BY <2>1, <2>2, <1>1
  <2> QED
    BY <2>2, <2>3, <2>4, <2>5, <2>6, <2>7, <2>8
<1>3. CASE ProcessChunk
  <2>1. /\ chunks # <<>> /\ chunks' = Tail(chunks)
        /\ UNCHANGED <<phase, received>> /\ phase \in Wired
    BY <1>3 DEF ProcessChunk
  <2>2. /\ chunks' \in Seq([from : Piece, to : Piece])
        /\ Len(chunks') = Len(chunks) - 1
        /\ \A i \in 1 .. Len(chunks') : chunks'[i] = chunks[i + 1]
    BY <2>1, <1>1, HeadTailProperties
  <2> QED
    BY <2>1, <2>2, <1>1
<1>4. CASE OpenRaw
  <2>1. chunks' = <<>>
    BY <1>4, <1>1 DEF OpenRaw, PhaseMoves, workerVars, NothingBefore, Starting
  <2> QED
    BY <2>1
<1>5. CASE Crash
  BY <1>5 DEF Crash, Wired
<1>6. CASE UNCHANGED <<chunks, received>> /\ ~OpenRaw
  BY <1>1, <1>6, PhaseSteps
<1>7. \/ UNCHANGED <<chunks, received>> \/ \E n \in 1 .. MaxChunk : OnChunk(n)
      \/ ProcessChunk \/ Crash
  BY DEF Next, vars, StartSteps, ChildSteps, RawSteps, WorkSteps,
         ShutdownSteps, childVars, rawVars, workerVars, derived, GetAppUid,
         SpawnChild, OpenRaw, StartFails, ChildExits, ChildCloses,
         FlushStart, FlushDone, FlushFails, ProcessLine, GraceEnds,
         CloseSeen, Finish, FinishLine, FinishEntry, CloseRaw, FlushTick,
         PollPids, Shutdown, ReplayTruncates, ReplayBegins, ReplayAppends,
         ReplayEnds, ReplayDies
<1> QED
  BY <1>2, <1>3, <1>4, <1>5, <1>6, <1>7

(* The first chunk that waits begins where the chain has got to.           *)
LEMMA HeadChunk ==
  ASSUME ChannelInv, phase \in Wired, chunks # <<>>
  PROVE  /\ Head(chunks) \in [from : Piece, to : Piece]
         /\ 1 <= Head(chunks).from /\ Head(chunks).from <= Head(chunks).to
         /\ Head(chunks).to <= received
         /\ Taken = Head(chunks).from - 1
<1> DEFINE C == [from : Piece, to : Piece]
<1>1. chunks \in Seq(C) /\ ChunksJoin
  BY DEF ChannelInv, ChannelTypeOK
<1> HIDE DEF C
<1>2. 1 \in DOMAIN chunks /\ Head(chunks) = chunks[1] /\ chunks[1] \in C
  BY <1>1
<1> QED
  BY <1>1, <1>2 DEF ChunksJoin, Taken, C

LEMMA TakenIsReceived ==
  ASSUME ChannelInv, phase \in Wired
  PROVE  received \in Nat /\ Taken \in Nat /\ Taken <= received
<1>1. received \in Nat /\ Piece \subseteq Nat
  BY LogsAreBounded DEF ChannelInv, ChannelTypeOK, Piece
<1>2. CASE chunks = <<>>
  BY <1>1, <1>2 DEF Taken
<1>3. CASE chunks # <<>>
  <2>1. Head(chunks).from \in Nat /\ Head(chunks).to \in Nat
    BY <1>1, <1>3, HeadChunk
  <2> QED
    BY <2>1, <1>1, <1>3, HeadChunk
<1> QED
  BY <1>2, <1>3

(* A chunk that arrives does not move it; one that is processed does.      *)
LEMMA TakenStays ==
  ASSUME ChannelInv, NEW n \in 1 .. MaxChunk, OnChunk(n)
  PROVE  Taken' = Taken
<1> DEFINE C == [from : Piece, to : Piece]
           c == [from |-> received + 1, to |-> received + n]
<1>1. /\ received' = received + n /\ received \in Nat /\ received' \in Piece
      /\ chunks' = Append(chunks, c) /\ chunks \in Seq(C)
  BY ReadsOn, LogsAreBounded DEF OnChunk, ChannelInv, ChannelTypeOK, Piece
<1>2. c \in C /\ c.from = received + 1
  BY <1>1, ConstantsAssumption, LogsAreBounded DEF Piece
<1> HIDE DEF C, c
<1>3. chunks' # <<>> /\ Head(chunks') = IF chunks = <<>> THEN c ELSE Head(chunks)
  BY <1>1, <1>2, HeadTailAppend, AppendProperties
<1> QED
  BY <1>1, <1>2, <1>3 DEF Taken

LEMMA TakenMoves ==
  ASSUME ChannelInv, [Next]_vars, ProcessChunk
  PROVE  /\ phase \in Wired /\ chunks # <<>> /\ Taken' = Head(chunks).to
<1> DEFINE C == [from : Piece, to : Piece]
<1>1. /\ phase \in Wired /\ chunks # <<>> /\ chunks' = Tail(chunks)
      /\ received' = received /\ chunks \in Seq(C) /\ ChunksJoin
  BY DEF ProcessChunk, ChannelInv, ChannelTypeOK
<1> HIDE DEF C
<1>2. /\ Len(chunks) \in Nat \ {0} /\ 1 \in DOMAIN chunks
      /\ Head(chunks) = chunks[1]
      /\ Len(chunks') = Len(chunks) - 1 /\ chunks' \in Seq(C)
      /\ \A i \in 1 .. Len(chunks') : chunks'[i] = chunks[i + 1]
  BY <1>1, HeadTailProperties, EmptySeq
<1>3. Head(chunks).to = IF 1 = Len(chunks) THEN received ELSE chunks[2].from - 1
  BY <1>1, <1>2 DEF ChunksJoin
<1>4. CASE Len(chunks) = 1
  <2>1. chunks' = <<>>
    BY <1>2, <1>4, EmptySeq
  <2> QED
    BY <2>1, <1>1, <1>3, <1>4 DEF Taken
<1>5. CASE Len(chunks) # 1
  <2>1. chunks' # <<>> /\ Head(chunks') = chunks[2]
    BY <1>2, <1>5
  <2> QED
    BY <2>1, <1>1, <1>3, <1>5 DEF Taken
<1> QED
  BY <1>4, <1>5

(* What handling a line does: an entry flushes the one before it and opens *)
(* a new one, a continuation joins the one that is open.                   *)
Flushed(lost_) ==
  \/ /\ pending = NoEntry \/ ~Kept(pending)
     /\ jsonl' = jsonl
  \/ /\ pending # NoEntry /\ Kept(pending)
     /\ jsonl' = Append(jsonl, pending)
  \/ lost_

LEMMA LineSteps ==
  ASSUME ProcessLine
  PROVE  LET line == Head(work)
             no   == rawLineNo + 1
         IN  /\ phase \in Wired /\ work # <<>> /\ work' = Tail(work)
             /\ rawLineNo' = no
             /\ UNCHANGED <<phase, lines, received, chunks, carry, drainTo, replay>>
             /\ \/ /\ lost'
                   /\ UNCHANGED pending
                \/ /\ Parse(line.kind) = "entry"
                   /\ pending' = [no |-> no, lines |-> {line.at}]
                   /\ Flushed(lost')
                \/ /\ Parse(line.kind) = "continuation"
                   /\ pending' = IF pending = NoEntry THEN pending
                                 ELSE [pending EXCEPT !.lines = @ \union {line.at}]
                   /\ jsonl' = jsonl
                \/ /\ Parse(line.kind) = "blank"
                   /\ UNCHANGED <<pending, jsonl>>
             /\ \/ lost'
                \/ marks' = IF HasSignature(line.kind) THEN Append(marks, no)
                            ELSE marks
<1> DEFINE line == Head(work)
           no   == rawLineNo + 1
<1>1. /\ phase \in Wired /\ work # <<>> /\ work' = Tail(work) /\ rawLineNo' = no
      /\ UNCHANGED <<phase, lines, received, chunks, carry, drainTo, replay>>
      /\ HandleLine(line)
  BY DEF ProcessLine, HandleLine, childVars
<1>2. CASE lost' = TRUE /\ UNCHANGED <<marks, jsonl, pending, pidKnown>>
  BY <1>1, <1>2
<1>3. CASE DeriveParsed(line, no)
  <2>1. CASE Parse(line.kind) = "entry"
    <3>1. pending' = [no |-> no, lines |-> {line.at}] /\ FlushPending
      BY <1>3, <2>1 DEF DeriveParsed
    <3>2. Flushed(lost')
      BY <3>1 DEF FlushPending, Flushed
    <3> QED
      BY <1>1, <2>1, <3>1, <3>2 DEF HandleLine
  <2>2. CASE Parse(line.kind) = "continuation"
    BY <1>1, <1>3, <2>2 DEF DeriveParsed, HandleLine
  <2>3. CASE Parse(line.kind) = "blank"
    BY <1>1, <1>3, <2>3 DEF DeriveParsed, HandleLine
  <2>4. Parse(line.kind) \in {"entry", "continuation", "blank"}
    BY DEF Parse
  <2> QED
    BY <2>1, <2>2, <2>3, <2>4
<1> QED
  BY <1>1, <1>2, <1>3 DEF HandleLine

(* The worker never has more lines than it has taken pieces, all of them   *)
(* lines that were logged.                                                 *)
WorkerTypeOK ==
  /\ work \in Seq([at : 1 .. MaxLines, kind : Kind])
  /\ carry \in Piece
  /\ rawLineNo \in 0 .. 2 * MaxLines
  /\ pending \in Record \union {NoEntry}

LEMMA LinesBoundedStep ==
  ASSUME ChannelInv, [Next]_vars
  PROVE  WorkerTypeOK' /\ LinesBounded'
<1> DEFINE W == [at : 1 .. MaxLines, kind : Kind]
<1>1. /\ work \in Seq(W) /\ carry \in Piece /\ rawLineNo \in 0 .. 2 * MaxLines
      /\ pending \in Record \union {NoEntry} /\ MaxLines \in Nat
      /\ received \in Nat /\ received <= 2 * MaxLines
      /\ lines \in Seq(Kind) /\ Len(lines) <= MaxLines
      /\ LinesBounded /\ NothingBefore
      /\ phase \in Wired => Len(lines) = (received + 1) \div 2
  <2>1. \E log \in Logs : IsPrefix(lines, log)
    BY DEF ChannelInv, ChannelTypeOK
  <2>2. Len(lines) <= MaxLines
    BY <2>1, LogsAreBounded DEF IsPrefix, ChannelInv, ChannelTypeOK
  <2> QED
    BY <2>2, LogsAreBounded DEF ChannelInv, ChannelTypeOK, RawInv, LinesRead, Piece, Wired
<1>2. /\ (phase \in Wired) => Taken \in Nat /\ Taken <= received
  BY TakenIsReceived
<1>3. received' \in Nat /\ received' <= 2 * MaxLines
  BY LinesGrow, LogsAreBounded DEF Piece
<1> HIDE DEF W
<1>4. CASE OpenRaw \/ Crash
  <2>1. work' = <<>> /\ carry' = 0 /\ rawLineNo' = 0 /\ pending' = NoEntry
    BY <1>4, <1>1 DEF OpenRaw, Crash, PhaseMoves, workerVars, NothingBefore, Starting
  <2>2. phase' \in Wired => chunks' = <<>>
    BY <1>4, <1>1 DEF OpenRaw, Crash, PhaseMoves, workerVars, NothingBefore, Starting
  <2>3. phase' \in Wired => Taken' = received'
    BY <2>2 DEF Taken
  <2>4. 0 \in Piece /\ 0 \in 0 .. 2 * MaxLines /\ work' \in Seq(W)
    BY <2>1, <1>1 DEF Piece
  <2> QED
    BY <2>1, <2>3, <2>4, <1>3 DEF WorkerTypeOK, LinesBounded, W
<1>5. CASE \E n \in 1 .. MaxChunk : OnChunk(n)
  <2>1. UNCHANGED <<phase, work, carry, rawLineNo, pending>>
    BY <1>5 DEF OnChunk
  <2>2. Taken' = Taken
    BY <1>5, TakenStays
  <2>3. Len(lines) <= Len(lines') /\ lines' \in Seq(Kind)
    BY LinesGrow DEF IsPrefix
  <2>4. \A i \in DOMAIN work : work[i] \in W
    BY <1>1
  <2>5. \A i \in DOMAIN work : work[i].at \in Nat
    BY <2>4, <1>1 DEF W
  <2>6. phase \in Wired => \A i \in DOMAIN work : work[i].at <= Len(lines')
    BY <2>3, <2>5, <1>1 DEF LinesBounded
  <2>7. WorkerTypeOK'
    BY <2>1, <1>1 DEF WorkerTypeOK, W
  <2> QED
    BY <2>1, <2>2, <2>6, <2>7, <1>1 DEF LinesBounded
<1>6. CASE ProcessChunk
  <2> DEFINE c == Head(chunks)
             L == [at : 1 .. Len(lines), kind : Kind]
  <2>1. /\ phase \in Wired /\ work = <<>>
        /\ work' = Pushed(c).lines /\ carry' = Pushed(c).carry
        /\ UNCHANGED <<phase, lines, received, rawLineNo, pending>>
    BY <1>6 DEF ProcessChunk, childVars
  <2>2. /\ Taken' = c.to /\ c \in [from : Piece, to : Piece]
        /\ 1 <= c.from /\ c.from <= c.to /\ c.to <= received /\ Taken = c.from - 1
    BY <1>6, TakenMoves, HeadChunk
  <2>3. c.from \in Nat \ {0} /\ c.to \in Nat \ {0} /\ c.to \in Piece /\ 0 \in Piece
    BY <2>2, LogsAreBounded DEF Piece
  <2> HIDE DEF c
  <2> DEFINE ended  == (c.from - 1) \div 2
             n      == c.to \div 2 - ended
             forced == c.to % 2 = 1 /\ lines[(c.to + 1) \div 2] = "long"
  <2>4. /\ n \in Nat /\ work' \in Seq(L)
        /\ Len(work') = n + (IF forced THEN 1 ELSE 0)
        /\ carry' = IF forced \/ c.to % 2 = 0 THEN 0 ELSE c.to
    BY <2>1, <2>2, PushedIs
  <2>5. n + (c.to % 2) <= c.to - (c.from - 1)
    BY <2>2, <2>3
  <2>6. Len(work') + (IF carry' = 0 THEN 0 ELSE 1) = n + (c.to % 2)
    <3>1. c.to % 2 \in {0, 1}
      BY <2>3
    <3> HIDE DEF n
    <3>2. CASE forced
      BY <3>2, <2>4
    <3>3. CASE ~forced /\ c.to % 2 = 0
      BY <3>3, <2>4
    <3>4. CASE ~forced /\ c.to % 2 = 1
      BY <3>4, <2>3, <2>4
    <3> QED
      BY <3>1, <3>2, <3>3, <3>4
  <2>7. rawLineNo <= Taken
    BY <2>1, <1>1, <1>2 DEF LinesBounded
  <2>8. rawLineNo' + Len(work') + (IF carry' = 0 THEN 0 ELSE 1) <= Taken'
    <3> HIDE DEF n
    <3> DEFINE x == Len(work')
               y == IF carry' = 0 THEN 0 ELSE 1
    <3>1. x \in Nat /\ y \in Nat /\ x + y = n + (c.to % 2)
      BY <2>4, <2>6
    <3> HIDE DEF x, y
    <3>2. rawLineNo + (n + (c.to % 2)) <= c.to
      BY <2>2, <2>3, <2>4, <2>5, <2>7, <1>1
    <3>3. rawLineNo + x + y <= c.to
      BY <3>1, <3>2, <1>1
    <3> QED
      BY <3>3, <2>1, <2>2 DEF x, y
  <2>9. carry' # 0 => carry' = Taken' /\ carry' % 2 = 1
    BY <2>2, <2>3, <2>4, Halves
  <2>10. /\ \A i \in DOMAIN work' : work'[i].at <= Len(lines')
         /\ work' \in Seq(W)
    <3>1. L \subseteq W /\ \A l \in L : l.at <= Len(lines)
      BY <1>1 DEF W
    <3> HIDE DEF L
    <3>2. work' \in Seq(L) /\ \A i \in DOMAIN work' : work'[i] \in L
      BY <2>4
    <3> QED
      BY <3>1, <3>2, <2>1, SeqMonotonic
  <2>11. carry' \in Piece
    BY <2>3, <2>4
  <2> QED
    BY <2>1, <2>8, <2>9, <2>10, <2>11, <1>1 DEF WorkerTypeOK, LinesBounded, W
<1>7. CASE ProcessLine
  <2> DEFINE line == Head(work)
  <2>1. /\ phase \in Wired /\ work # <<>> /\ work' = Tail(work)
        /\ rawLineNo' = rawLineNo + 1
        /\ UNCHANGED <<phase, lines, received, chunks, carry>>
        /\ \/ pending' = pending
           \/ pending' = [no |-> rawLineNo + 1, lines |-> {line.at}]
           \/ /\ pending # NoEntry
              /\ pending' = [pending EXCEPT !.lines = @ \union {line.at}]
    BY <1>7, LineSteps
  <2>2. /\ line \in W /\ work' \in Seq(W) /\ Len(work) \in Nat \ {0}
        /\ Len(work') = Len(work) - 1
        /\ \A i \in 1 .. Len(work') : work'[i] = work[i + 1]
    BY <2>1, <1>1, HeadTailProperties, EmptySeq
  <2>3. Taken' = Taken
    BY <2>1 DEF Taken
  <2>4. /\ rawLineNo + Len(work) + (IF carry = 0 THEN 0 ELSE 1) <= Taken
        /\ \A i \in DOMAIN work : work[i].at <= Len(lines)
        /\ carry # 0 => carry = Taken /\ carry % 2 = 1
        /\ pending # NoEntry => pending.no <= rawLineNo
    BY <2>1, <1>1 DEF LinesBounded
  <2>5. rawLineNo + 1 \in 1 .. 2 * MaxLines
    BY <2>1, <2>2, <2>4, <1>1, <1>2
  <2>6. /\ pending' \in Record \union {NoEntry}
        /\ pending' # NoEntry => pending'.no <= rawLineNo'
    <3>1. line.at \in 1 .. MaxLines
      BY <2>2 DEF W
    <3>2. CASE pending' = pending
      BY <3>2, <2>1, <2>4, <1>1 DEF Record
    <3>3. CASE pending' = [no |-> rawLineNo + 1, lines |-> {line.at}]
      <4>1. {line.at} \in SUBSET (1 .. MaxLines + 1)
        BY <3>1, <1>1
      <4>2. rawLineNo + 1 \in 1 .. 2 * MaxLines + 2
        BY <2>5, <1>1
      <4>3. pending' \in Record
        BY <3>3, <4>1, <4>2 DEF Record
      <4> QED
        BY <3>3, <4>3, <2>1, <1>1
    <3>4. CASE /\ pending # NoEntry
               /\ pending' = [pending EXCEPT !.lines = @ \union {line.at}]
      <4>1. pending \in Record
        BY <3>4, <1>1
      <4>2. pending.lines \union {line.at} \in SUBSET (1 .. MaxLines + 1)
        BY <4>1, <3>1, <1>1 DEF Record
      <4>3. pending' \in Record /\ pending'.no = pending.no
        BY <3>4, <4>1, <4>2 DEF Record
      <4> QED
        BY <4>1, <4>3, <3>4, <2>1, <2>4, <1>1 DEF Record
    <3> QED
      BY <2>1, <3>2, <3>3, <3>4
  <2>7. \A i \in DOMAIN work' : work'[i].at <= Len(lines')
    BY <2>1, <2>2, <2>4
  <2>8. rawLineNo' + Len(work') + (IF carry' = 0 THEN 0 ELSE 1) <= Taken'
    BY <2>1, <2>2, <2>3, <2>4, <1>1
  <2> QED
    BY <2>1, <2>2, <2>3, <2>4, <2>5, <2>6, <2>7, <2>8, <1>1
       DEF WorkerTypeOK, LinesBounded, W
<1>8. CASE Finish
  <2> DEFINE k == (carry + 1) \div 2
             l == [at |-> k, kind |-> lines[k]]
  <2>1. /\ phase \in Wired /\ phase' \in Wired /\ work = <<>>
        /\ work' = IF carry = 0 THEN work ELSE <<l>>
        /\ carry' = 0
        /\ UNCHANGED <<lines, received, chunks, rawLineNo, pending>>
    BY <1>8 DEF Finish, Drained, Wired, childVars
  <2>2. Taken' = Taken
    BY <2>1 DEF Taken
  <2>3. /\ rawLineNo + (IF carry = 0 THEN 0 ELSE 1) <= Taken
        /\ carry # 0 => carry = Taken /\ carry % 2 = 1
        /\ pending # NoEntry => pending.no <= rawLineNo
    BY <2>1, <1>1 DEF LinesBounded
  <2>4. 0 \in Piece
    BY <1>1 DEF Piece
  <2>5. CASE carry = 0
    BY <2>1, <2>2, <2>3, <2>4, <2>5, <1>1 DEF WorkerTypeOK, LinesBounded, W
  <2>6. CASE carry # 0
    <3>1. k \in 1 .. Len(lines) /\ lines[k] \in Kind
      <4>1. carry \in Nat \ {0} /\ carry <= received
        BY <2>1, <2>3, <2>6, <1>2
      <4>2. Len(lines) = (received + 1) \div 2
        BY <2>1, <1>1
      <4>3. k \in 1 .. Len(lines)
        BY <4>1, <4>2, <1>1
      <4> QED
        BY <4>3, <1>1
    <3>2. work' = <<l>>
      BY <2>1, <2>6
    <3>3. l \in W /\ l.at = k
      BY <3>1, <1>1 DEF W
    <3> HIDE DEF l, k
    <3>4. work' \in Seq(W) /\ Len(work') = 1 /\ \A i \in DOMAIN work' : work'[i] = l
      BY <3>2, <3>3
    <3> QED
      BY <3>1, <3>3, <3>4, <2>1, <2>2, <2>3, <2>4, <2>6, <1>1
         DEF WorkerTypeOK, LinesBounded, W
  <2> QED
    BY <2>5, <2>6
<1>9. CASE FinishEntry
  <2>1. /\ phase \in Wired /\ pending' = NoEntry
        /\ UNCHANGED <<lines, received, chunks, work, carry, rawLineNo>>
    BY <1>9 DEF FinishEntry, PhaseMoves, Wired, childVars
  <2>2. Taken' = Taken
    BY <2>1 DEF Taken
  <2> QED
    BY <2>1, <2>2, <1>1 DEF WorkerTypeOK, LinesBounded, W
<1>10. CASE /\ UNCHANGED <<lines, received, chunks, work, carry, rawLineNo, pending>>
            /\ ~OpenRaw
  <2>1. (phase' \in Wired => phase \in Wired) /\ Taken' = Taken
    BY <1>10, PhaseSteps DEF Taken
  <2> QED
    BY <2>1, <1>1, <1>10 DEF WorkerTypeOK, LinesBounded, W
<1>11. \/ UNCHANGED <<lines, received, chunks, work, carry, rawLineNo, pending>>
       \/ \E n \in 1 .. MaxChunk : OnChunk(n)
       \/ ProcessChunk \/ ProcessLine \/ Finish \/ FinishEntry \/ Crash
  BY DEF Next, vars, StartSteps, ChildSteps, RawSteps, WorkSteps,
         ShutdownSteps, childVars, rawVars, workerVars, derived, GetAppUid,
         SpawnChild, OpenRaw, StartFails, ChildExits, ChildCloses,
         FlushStart, FlushDone, FlushFails, GraceEnds, CloseSeen,
         FinishLine, CloseRaw, FlushTick, PollPids, Shutdown,
         ReplayTruncates, ReplayBegins, ReplayAppends, ReplayEnds,
         ReplayDies
<1> QED
  BY <1>4, <1>5, <1>6, <1>7, <1>8, <1>9, <1>10, <1>11

(* Shutdown goes through its steps in their order.                         *)
LEMMA LateSteps ==
  ASSUME [Next]_vars, phase' \in Wired, ~OpenRaw
  PROVE  /\ phase' \in {"drain"} \union Late
               => phase \in {"drain"} \union Late \/ Shutdown \/ CloseSeen
         /\ phase \in Late => phase' \in Late
         /\ phase' \in Late => phase \in Late \/ Finish
         /\ phase' \in Late /\ phase = "flushLine"
               => phase' = "flushLine" \/ FinishLine
         /\ phase \in Late /\ phase # "flushLine" => phase' # "flushLine"
         /\ phase \in {"close", "down"} => phase' \in {"close", "down"}
         /\ phase' \in {"close", "down"}
               => phase \in {"close", "down"} \/ FinishEntry
<1> USE TRUE DEF vars, Late, Starting, Wired, Closed, Alive, PhaseMoves,
        Reads, childVars, rawVars, workerVars, derived
<1>1. CASE UNCHANGED vars
  BY <1>1
<1>2. CASE CloseSeen
  BY <1>2 DEF CloseSeen
<1>3. CASE Finish
  BY <1>3 DEF Finish
<1>4. CASE FinishLine
  BY <1>4 DEF FinishLine, PhaseMoves
<1>5. CASE FinishEntry
  BY <1>5 DEF FinishEntry, DoFlush, FlushPending, PhaseMoves
<1>6. CASE Shutdown
  BY <1>6 DEF Shutdown, PhaseMoves
<1> QED
  BY <1>1, <1>2, <1>3, <1>4, <1>5, <1>6 DEF Next, vars, StartSteps,
     ChildSteps, RawSteps, WorkSteps, ShutdownSteps, GetAppUid, SpawnChild,
     OpenRaw, StartFails, ChildExits, ChildCloses, FlushStart, FlushDone,
     FlushFails, ProcessChunk, ProcessLine, GraceEnds, CloseRaw, FlushTick,
     PollPids, Crash, OnChunk, ReplayTruncates, ReplayBegins, ReplayAppends,
     ReplayEnds, ReplayDies

(* What finish() waits for has been received.                              *)
LEMMA DrainedBehindStep ==
  ASSUME ChannelInv, [Next]_vars
  PROVE  DrainedBehind'
<1> USE LogsAreBounded DEF ChannelInv, ChannelTypeOK, DrainedBehind, Late,
        Wired, Piece, childVars, rawVars, workerVars, derived
<1>1. CASE UNCHANGED <<drainTo, received>>
  BY <1>1, LateSteps DEF OpenRaw, Shutdown, CloseSeen, PhaseMoves
<1>2. CASE OpenRaw
  BY <1>2, LateSteps DEF OpenRaw, PhaseMoves
<1>3. CASE CloseSeen
  BY <1>3, LateSteps DEF CloseSeen
<1>4. CASE Shutdown
  BY <1>4, LateSteps DEF Shutdown, PhaseMoves
<1>5. CASE Crash
  BY <1>5, LateSteps DEF Crash
<1>6. CASE \E m \in 1 .. MaxChunk : OnChunk(m)
  <2> SUFFICES ASSUME NEW n \in 1 .. MaxChunk, OnChunk(n), phase \in {"drain"} \union Late
               PROVE  drainTo <= received'
    BY <1>6 DEF OnChunk
  <2>1. received' = received + n /\ received \in Nat /\ drainTo \in Nat /\ n \in Nat
    BY ReadsOn, LogsAreBounded, ConstantsAssumption DEF OnChunk, Piece
  <2> QED
    BY <2>1 DEF DrainedBehind
<1> QED
  BY <1>1, <1>2, <1>3, <1>4, <1>5, <1>6 DEF Next, vars, StartSteps,
     ChildSteps, RawSteps, WorkSteps, ShutdownSteps, GetAppUid, SpawnChild,
     StartFails, ChildExits, ChildCloses, FlushStart, FlushDone, FlushFails,
     ProcessChunk, ProcessLine, GraceEnds, Finish, FinishLine, FinishEntry,
     CloseRaw, FlushTick, PollPids, ReplayTruncates, ReplayBegins,
     ReplayAppends, ReplayEnds, ReplayDies

(* No replay begins while the channel runs.                                *)
LEMMA ReplaysWaitStep ==
  ASSUME ChannelInv, [Next]_vars
  PROVE  ReplaysWait'
<1> USE TRUE DEF ChannelInv, ReplaysWait, Idle, childVars, rawVars,
        workerVars, derived
<1>1. CASE UNCHANGED replay
  BY <1>1, CrashIsFinal
<1>2. CASE \E q \in Recoverer : ReplayTruncates(q)
  BY <1>2, CrashIsFinal DEF ReplayTruncates, ReplayBegins
<1>3. CASE \E q \in Recoverer : ReplayAppends(q)
  BY <1>3, CrashIsFinal DEF ReplayAppends
<1>4. CASE \E q \in Recoverer : ReplayEnds(q)
  BY <1>4, CrashIsFinal DEF ReplayEnds
<1>5. CASE \E q \in Recoverer : ReplayDies(q)
  BY <1>5, CrashIsFinal DEF ReplayDies
<1> QED
  BY <1>1, <1>2, <1>3, <1>4, <1>5 DEF Next, vars, StartSteps, ChildSteps,
     RawSteps, WorkSteps, ShutdownSteps, GetAppUid, SpawnChild, OpenRaw,
     StartFails, ChildExits, ChildCloses, FlushStart, FlushDone, FlushFails,
     ProcessChunk, ProcessLine, GraceEnds, CloseSeen, Finish, FinishLine,
     FinishEntry, CloseRaw, FlushTick, PollPids, Shutdown, Crash, OnChunk

-----------------------------------------------------------------------------
(* The numbers of lines.                                                   *)

(* A run without long lines and late chunks was one before.                *)
LEMMA WholeBefore ==
  ASSUME ChannelInv, [Next]_vars, Whole', ~OpenRaw
  PROVE  /\ phase \in Wired /\ "long" \notin ToSet(lines)
         /\ received \in Nat /\ received' \in Nat /\ received <= received'
         /\ phase \in Late => received = drainTo /\ received' = received
         /\ Whole
<1>1. phase \in Wired /\ phase' \in Wired
  BY PhaseSteps DEF Whole
<1>2. /\ IsPrefix(lines, lines') /\ lines \in Seq(Kind) /\ lines' \in Seq(Kind)
      /\ received \in Nat /\ received' \in Nat /\ drainTo \in Nat
  BY LinesGrow, LogsAreBounded DEF ChannelInv, ChannelTypeOK, Piece
<1>3. "long" \notin ToSet(lines)
  <2>1. "long" \notin ToSet(lines')
    BY DEF Whole
  <2>2. Len(lines) <= Len(lines') /\ \A i \in 1 .. Len(lines) : lines[i] = lines'[i]
    BY <1>2, PrefixIs
  <2>3. \A i \in 1 .. Len(lines) : i \in DOMAIN lines'
    BY <1>2, <2>2
  <2> QED
    BY <1>2, <2>1, <2>2, <2>3 DEF ToSet
<1>4. received <= received'
  <2>1. CASE \E n \in 1 .. MaxChunk : OnChunk(n)
    <3>1. PICK n \in 1 .. MaxChunk : OnChunk(n)
      BY <2>1
    <3>2. received' = received + n /\ n \in Nat
      BY <3>1, ReadsOn, ConstantsAssumption DEF OnChunk
    <3> QED
      BY <3>2, <1>2
  <2>2. CASE Crash
    BY <1>1, <2>2 DEF Crash, Wired
  <2>3. CASE UNCHANGED received
    BY <2>3, <1>2
  <2> QED
    BY <2>1, <2>2, <2>3 DEF Next, vars, StartSteps, ChildSteps, RawSteps, WorkSteps,
         ShutdownSteps, childVars, rawVars, workerVars, derived, GetAppUid,
         SpawnChild, OpenRaw, StartFails, ChildExits, ChildCloses,
         FlushStart, FlushDone, FlushFails, ProcessChunk, ProcessLine,
         GraceEnds, CloseSeen, Finish, FinishLine, FinishEntry, CloseRaw,
         FlushTick, PollPids, Shutdown, ReplayTruncates, ReplayBegins,
         ReplayAppends, ReplayEnds, ReplayDies
<1>5. phase \in Late => received = drainTo /\ received' = received
  <2> SUFFICES ASSUME phase \in Late
               PROVE  received = drainTo /\ received' = received
    OBVIOUS
  <2>1. phase' \in Late
    BY <1>1, LateSteps
  <2>2. received' = drainTo'
    BY <2>1 DEF Whole
  <2>3. drainTo' = drainTo
    BY <2>1 DEF Late, PhaseMoves, Next, vars, StartSteps, ChildSteps, RawSteps, WorkSteps,
         ShutdownSteps, childVars, rawVars, workerVars, derived, GetAppUid,
         SpawnChild, OpenRaw, StartFails, ChildExits, ChildCloses,
         FlushStart, FlushDone, FlushFails, ProcessChunk, ProcessLine,
         GraceEnds, CloseSeen, Finish, FinishLine, FinishEntry, CloseRaw,
         FlushTick, PollPids, Shutdown, Crash, OnChunk, ReplayTruncates,
         ReplayBegins, ReplayAppends, ReplayEnds, ReplayDies
  <2>4. drainTo <= received
    BY DEF ChannelInv, DrainedBehind
  <2> QED
    BY <2>2, <2>3, <2>4, <1>2, <1>4
<1> QED
  BY <1>1, <1>2, <1>3, <1>4, <1>5 DEF Whole

(* Lines are numbered as they were logged, and none is left behind.        *)
LEMMA LinesInOrderStep ==
  ASSUME ChannelInv, [Next]_vars
  PROVE  LinesInOrder'
<1> SUFFICES ASSUME Whole'
             PROVE  /\ IF phase' \in Late
                       THEN /\ chunks' = <<>> /\ carry' = 0
                            /\ rawLineNo' + Len(work') = (received' + 1) \div 2
                            /\ phase' # "flushLine" => work' = <<>>
                       ELSE /\ carry' = IF Taken' % 2 = 1 THEN Taken' ELSE 0
                            /\ rawLineNo' + Len(work') = Taken' \div 2
                    /\ \A i \in DOMAIN work' : work'[i] =
                          [at |-> rawLineNo' + i, kind |-> lines'[rawLineNo' + i]]
  BY DEF LinesInOrder
<1> DEFINE W == [at : 1 .. MaxLines, kind : Kind]
<1>1. CASE OpenRaw
  <2>1. /\ phase' = "running" /\ work' = <<>> /\ chunks' = <<>>
        /\ carry' = 0 /\ rawLineNo' = 0 /\ received' = 0
    BY <1>1 DEF OpenRaw, PhaseMoves, ChannelInv, RawInv, NothingBefore, Starting,
                workerVars
  <2>2. Taken' = 0
    BY <2>1 DEF Taken
  <2> QED
    BY <2>1, <2>2 DEF Late
<1> SUFFICES ASSUME ~OpenRaw
             PROVE  /\ IF phase' \in Late
                       THEN /\ chunks' = <<>> /\ carry' = 0
                            /\ rawLineNo' + Len(work') = (received' + 1) \div 2
                            /\ phase' # "flushLine" => work' = <<>>
                       ELSE /\ carry' = IF Taken' % 2 = 1 THEN Taken' ELSE 0
                            /\ rawLineNo' + Len(work') = Taken' \div 2
                    /\ \A i \in DOMAIN work' : work'[i] =
                          [at |-> rawLineNo' + i, kind |-> lines'[rawLineNo' + i]]
  BY <1>1
<1>2. /\ phase \in Wired /\ "long" \notin ToSet(lines)
      /\ received \in Nat /\ received' \in Nat /\ received <= received'
      /\ phase \in Late => received = drainTo /\ received' = received
      /\ Whole
  BY WholeBefore
<1>3. /\ IF phase \in Late
         THEN /\ chunks = <<>> /\ carry = 0
              /\ rawLineNo + Len(work) = (received + 1) \div 2
              /\ phase # "flushLine" => work = <<>>
         ELSE /\ carry = IF Taken % 2 = 1 THEN Taken ELSE 0
              /\ rawLineNo + Len(work) = Taken \div 2
      /\ \A i \in DOMAIN work : work[i] =
            [at |-> rawLineNo + i, kind |-> lines[rawLineNo + i]]
  BY <1>2 DEF ChannelInv, LinesInOrder
<1>4. /\ work \in Seq(W) /\ rawLineNo \in Nat /\ lines \in Seq(Kind)
      /\ Taken \in Nat /\ Taken <= received
      /\ Len(lines) = (received + 1) \div 2
  BY <1>2, TakenIsReceived, LogsAreBounded
     DEF ChannelInv, ChannelTypeOK, RawInv, LinesRead, Wired
<1> HIDE DEF W
<1>5. CASE \E n \in 1 .. MaxChunk : OnChunk(n)
  <2>1. UNCHANGED <<phase, work, carry, rawLineNo>> /\ Taken' = Taken
    BY <1>5, TakenStays DEF OnChunk
  <2>2. received' # received
    <3>1. PICK n \in 1 .. MaxChunk : OnChunk(n)
      BY <1>5
    <3>2. received' = received + n /\ n \in Nat \ {0}
      BY <3>1, ReadsOn, ConstantsAssumption DEF OnChunk
    <3> QED
      BY <3>2, <1>2
  <2>3. \A i \in DOMAIN work : lines'[rawLineNo + i] = lines[rawLineNo + i]
    <3> SUFFICES ASSUME NEW i \in DOMAIN work
                 PROVE  lines'[rawLineNo + i] = lines[rawLineNo + i]
      OBVIOUS
    <3>1. work[i].at <= Len(lines) /\ work[i].at = rawLineNo + i
      BY <1>2, <1>3 DEF ChannelInv, LinesBounded
    <3>2. rawLineNo + i \in 1 .. Len(lines)
      BY <3>1, <1>4
    <3>3. IsPrefix(lines, lines') /\ lines' \in Seq(Kind)
      BY LinesGrow
    <3> QED
      BY <3>2, <3>3, <1>4, PrefixIs
  <2> QED
    BY <2>1, <2>2, <2>3, <1>2, <1>3
<1>6. CASE ProcessChunk
  <2> DEFINE c == Head(chunks)
             ended == (c.from - 1) \div 2
             n     == c.to \div 2 - ended
  <2>1. /\ work = <<>> /\ work' = Pushed(c).lines /\ carry' = Pushed(c).carry
        /\ UNCHANGED <<phase, lines, received, rawLineNo>>
        /\ phase \notin Late
    BY <1>3, <1>6 DEF ProcessChunk, childVars
  <2>2. /\ Taken' = c.to /\ c \in [from : Piece, to : Piece]
        /\ 1 <= c.from /\ c.from <= c.to /\ c.to <= received /\ Taken = c.from - 1
    BY <1>6, TakenMoves, HeadChunk
  <2>3. c.from \in Nat \ {0} /\ c.to \in Nat \ {0}
    BY <2>2, LogsAreBounded DEF Piece
  <2>4. c.to % 2 = 1 => lines[(c.to + 1) \div 2] # "long"
    <3>1. (c.to + 1) \div 2 \in 1 .. Len(lines)
      BY <2>2, <2>3, <1>2, <1>4
    <3> QED
      BY <3>1, <1>2, <1>4 DEF ToSet
  <2>5. rawLineNo = ended
    BY <2>1, <2>2, <1>3, <1>4
  <2>6. /\ n \in Nat /\ Len(work') = n /\ carry' = IF c.to % 2 = 0 THEN 0 ELSE c.to
        /\ \A i \in 1 .. n : work'[i] =
              [at   |-> ended + i,
               kind |-> IF 2 * (ended + i) = c.from /\ carry = 0
                        THEN "cont" ELSE lines[ended + i]]
        /\ DOMAIN work' = 1 .. n
    <3> HIDE DEF c
    <3>1. work' \in Seq([at : 1 .. Len(lines), kind : Kind])
      BY <1>2, <2>1, <2>2, PushedIs
    <3>2. n \in Nat /\ Len(work') = n
      BY <1>2, <2>1, <2>2, <2>4, PushedIs
    <3>3. carry' = IF c.to % 2 = 0 THEN 0 ELSE c.to
      BY <1>2, <2>1, <2>2, <2>4, PushedIs
    <3>4. \A i \in 1 .. n : work'[i] =
              [at   |-> ended + i,
               kind |-> IF 2 * (ended + i) = c.from /\ carry = 0
                        THEN "cont" ELSE lines[ended + i]]
      BY <1>2, <2>1, <2>2, PushedIs
    <3> HIDE DEF n
    <3>5. DOMAIN work' = 1 .. n
      <4> DEFINE L == [at : 1 .. Len(lines), kind : Kind]
      <4>1. work' \in Seq(L)
        BY <3>1
      <4> HIDE DEF L
      <4> QED
        BY <4>1, <3>2
    <3> QED
      BY <3>2, <3>3, <3>4, <3>5
  <2>7. \A i \in 1 .. n : ~(2 * (ended + i) = c.from /\ carry = 0)
    <3> SUFFICES ASSUME NEW i \in 1 .. n, 2 * (ended + i) = c.from
                 PROVE  carry # 0
      OBVIOUS
    <3>1. Taken % 2 = 1
      <4> HIDE DEF n
      <4> QED
        BY <2>2, <2>3, <2>6
    <3> QED
      BY <3>1, <2>1, <1>3
  <2> HIDE DEF c, n
  <2>8. rawLineNo' + Len(work') = Taken' \div 2
    BY <2>1, <2>2, <2>3, <2>5, <2>6 DEF n
  <2>9. carry' = IF Taken' % 2 = 1 THEN Taken' ELSE 0
    BY <2>2, <2>3, <2>6
  <2>10. \A i \in DOMAIN work' : work'[i] =
            [at |-> rawLineNo' + i, kind |-> lines'[rawLineNo' + i]]
    BY <2>1, <2>5, <2>6, <2>7
  <2> QED
    BY <2>1, <2>8, <2>9, <2>10
<1>7. CASE ProcessLine
  <2>1. /\ work # <<>> /\ work' = Tail(work) /\ rawLineNo' = rawLineNo + 1
        /\ UNCHANGED <<phase, lines, received, chunks, carry>>
    BY <1>7, LineSteps
  <2>2. /\ work' \in Seq(W) /\ Len(work) \in Nat \ {0}
        /\ Len(work') = Len(work) - 1
        /\ \A i \in 1 .. Len(work') : work'[i] = work[i + 1]
    BY <2>1, <1>4, HeadTailProperties, EmptySeq
  <2>3. Taken' = Taken
    BY <2>1 DEF Taken
  <2>4. rawLineNo' + Len(work') = rawLineNo + Len(work)
    BY <2>1, <2>2, <1>4
  <2>5. ASSUME NEW i \in DOMAIN work'
        PROVE  work'[i] = [at |-> rawLineNo' + i, kind |-> lines'[rawLineNo' + i]]
    <3>1. i + 1 \in DOMAIN work /\ work'[i] = work[i + 1]
      BY <2>2, <1>4
    <3>2. rawLineNo + (i + 1) = rawLineNo' + i
      BY <2>1, <2>2, <1>4
    <3>3. work[i + 1] = [at |-> rawLineNo + (i + 1), kind |-> lines[rawLineNo + (i + 1)]]
      BY <3>1, <1>3
    <3> QED
      BY <3>1, <3>2, <3>3, <2>1
  <2>6. phase \in Late => phase = "flushLine"
    BY <2>1, <1>3
  <2> QED
    BY <2>1, <2>3, <2>4, <2>5, <2>6, <1>3
<1>8. CASE Finish
  <2> DEFINE k == (carry + 1) \div 2
             l == [at |-> k, kind |-> lines[k]]
  <2>1. /\ phase = "drain" /\ phase' \in Late /\ work = <<>>
        /\ phase' = IF carry = 0 THEN "flushEntry" ELSE "flushLine"
        /\ work' = IF carry = 0 THEN work ELSE <<l>>
        /\ carry' = 0 /\ \A i \in DOMAIN chunks : chunks[i].from > drainTo
        /\ UNCHANGED <<lines, received, chunks, rawLineNo, drainTo>>
    BY <1>8 DEF Finish, Drained, Late, childVars
  <2>2. chunks = <<>>
    <3> SUFFICES ASSUME chunks # <<>>
                 PROVE  FALSE
      OBVIOUS
    <3>1. received = drainTo
      BY <2>1 DEF Whole
    <3>2. chunks \in Seq([from : Piece, to : Piece])
      BY DEF ChannelInv, ChannelTypeOK
    <3>3. 1 \in DOMAIN chunks /\ Head(chunks) = chunks[1]
      BY <3>2
    <3>4. /\ chunks[1].from <= chunks[1].to /\ chunks[1].to <= received
          /\ chunks[1].from > drainTo
      BY <2>1, <3>3, <1>2, HeadChunk
    <3>5. chunks[1].from \in Nat /\ chunks[1].to \in Nat
      BY <3>3, <1>2, HeadChunk, LogsAreBounded DEF Piece
    <3> QED
      BY <3>1, <3>4, <3>5, <1>2
  <2>3. Taken = received
    BY <2>2 DEF Taken
  <2>4. /\ carry = IF received % 2 = 1 THEN received ELSE 0
        /\ rawLineNo = received \div 2
    BY <2>1, <2>3, <1>3, <1>4 DEF Late
  <2>5. CASE received % 2 = 0
    <3>1. carry = 0
      BY <2>4, <2>5
    <3>2. rawLineNo = (received + 1) \div 2
      BY <2>4, <2>5, <1>2
    <3> QED
      BY <3>1, <3>2, <2>1, <2>2, <1>4
  <2>6. CASE received % 2 = 1
    <3>1. carry = received /\ received # 0
      BY <2>4, <2>6
    <3>2. k = rawLineNo + 1 /\ rawLineNo + 1 = (received + 1) \div 2
      BY <3>1, <2>4, <2>6, <1>2
    <3>3. work' = <<l>>
      BY <3>1, <2>1
    <3> HIDE DEF k
    <3>4. /\ Len(work') = 1 /\ DOMAIN work' = {1}
          /\ work'[1] = [at |-> rawLineNo + 1, kind |-> lines[rawLineNo + 1]]
      BY <3>2, <3>3
    <3> QED
      BY <3>1, <3>2, <3>4, <2>1, <2>2
  <2> QED
    BY <2>5, <2>6, <1>2
<1>9. CASE /\ UNCHANGED <<lines, received, chunks, work, carry, rawLineNo>>
           /\ ~Finish
  <2>1. Taken' = Taken
    BY <1>9 DEF Taken
  <2>2. /\ phase' \in Late <=> phase \in Late
        /\ phase \in Late /\ phase' # "flushLine" => work = <<>>
    <3>1. phase' \in Wired
      BY DEF Whole
    <3>2. FinishLine => work = <<>>
      BY DEF FinishLine
    <3> QED
      BY <1>3, <1>9, <3>1, <3>2, LateSteps
  <2> QED
    BY <2>1, <2>2, <1>3, <1>9
<1>10. \/ UNCHANGED <<lines, received, chunks, work, carry, rawLineNo>>
       \/ \E n \in 1 .. MaxChunk : OnChunk(n)
       \/ ProcessChunk \/ ProcessLine \/ Finish \/ Crash
  BY DEF Next, vars, StartSteps, ChildSteps, RawSteps, WorkSteps,
         ShutdownSteps, childVars, rawVars, workerVars, derived, GetAppUid,
         SpawnChild, OpenRaw, StartFails, ChildExits, ChildCloses,
         FlushStart, FlushDone, FlushFails, GraceEnds, CloseSeen,
         FinishLine, FinishEntry, CloseRaw, FlushTick, PollPids, Shutdown,
         ReplayTruncates, ReplayBegins, ReplayAppends, ReplayEnds,
         ReplayDies
<1>11. ~Crash
  BY DEF Crash, Whole, Wired
<1> QED
  BY <1>5, <1>6, <1>7, <1>8, <1>9, <1>10, <1>11

(* The derived files keep their types until a crash.                       *)
LEMMA DerivedTypesStep ==
  ASSUME ChannelInv, [Next]_vars
  PROVE  DerivedTypes'
<1> USE TRUE DEF DerivedTypes, childVars, rawVars, workerVars, derived
<1>1. CASE UNCHANGED <<jsonl, marks>>
  BY <1>1, CrashIsFinal DEF ChannelInv
<1>2. CASE ProcessLine
  <2>1. /\ phase # "crashed" /\ phase \in Wired /\ work # <<>>
        /\ marks' = marks \/ marks' = Append(marks, rawLineNo + 1)
        /\ \/ jsonl' = jsonl
           \/ pending # NoEntry /\ jsonl' = Append(jsonl, pending)
    <3>1. HandleLine(Head(work)) /\ phase \in Wired /\ work # <<>>
      BY <1>2 DEF ProcessLine
    <3>2. marks' = marks \/ marks' = Append(marks, rawLineNo + 1)
      BY <3>1 DEF HandleLine
    <3>3. \/ jsonl' = jsonl
          \/ pending # NoEntry /\ jsonl' = Append(jsonl, pending)
      BY <3>1 DEF HandleLine, DeriveParsed, FlushPending
    <3> QED
      BY <3>1, <3>2, <3>3 DEF Wired
  <2>2. pending \in Record \union {NoEntry} /\ jsonl \in Seq(Record)
        /\ marks \in Seq(1 .. 2 * MaxLines + 2)
    BY <2>1 DEF ChannelInv, ChannelTypeOK
  <2>3. rawLineNo + 1 \in 1 .. 2 * MaxLines + 2
    BY LogsAreBounded DEF ChannelInv, ChannelTypeOK
  <2>4. jsonl' \in Seq(Record)
    BY <2>1, <2>2, AppendProperties
  <2>5. marks' \in Seq(1 .. 2 * MaxLines + 2)
    <3> DEFINE M == 1 .. 2 * MaxLines + 2
    <3>1. marks \in Seq(M) /\ rawLineNo + 1 \in M
      BY <2>2, <2>3
    <3> HIDE DEF M
    <3>2. marks' \in Seq(M)
      BY <2>1, <3>1, AppendProperties
    <3> QED
      BY <3>2 DEF M
  <2> QED
    BY <2>4, <2>5
<1>3. CASE FinishEntry
  <2>1. /\ phase # "crashed" /\ marks' = marks
        /\ \/ jsonl' = jsonl
           \/ pending # NoEntry /\ jsonl' = Append(jsonl, pending)
    BY <1>3 DEF FinishEntry, PhaseMoves, FlushPending
  <2>2. pending \in Record \union {NoEntry} /\ jsonl \in Seq(Record)
        /\ marks \in Seq(1 .. 2 * MaxLines + 2)
    BY <2>1 DEF ChannelInv, ChannelTypeOK
  <2> QED
    BY <2>1, <2>2, AppendProperties
<1>4. CASE \E q \in Recoverer : ReplayTruncates(q)
  BY <1>4, CrashIsFinal DEF ReplayTruncates, ReplayBegins
<1>5. CASE \E q \in Recoverer : ReplayAppends(q)
  BY <1>5 DEF ReplayAppends, ChannelInv, ReplaysWait, Idle
<1> QED
  BY <1>1, <1>2, <1>3, <1>4, <1>5 DEF Next, vars, StartSteps, ChildSteps,
     RawSteps, WorkSteps, ShutdownSteps, GetAppUid, SpawnChild, OpenRaw,
     StartFails, ChildExits, ChildCloses, FlushStart, FlushDone, FlushFails,
     ProcessChunk, GraceEnds, CloseSeen, Finish, FinishLine, CloseRaw,
     FlushTick, PollPids, Shutdown, Crash, OnChunk, ReplayEnds, ReplayDies

-----------------------------------------------------------------------------
(* The records of a log, as it grows by a line.                            *)

LEMMA BodyGrows ==
  ASSUME NEW s \in Seq(Kind), NEW t \in Seq(Kind), Len(t) = Len(s) + 1,
         \A i \in 1 .. Len(s) : t[i] = s[i],
         NEW i \in 1 .. Len(s)
  PROVE  /\ Body(s, i) \subseteq 1 .. Len(s)
         /\ i \in Body(s, i) /\ \A j \in Body(s, i) : i <= j
         /\ Body(t, i) = Body(s, i) \union
               (IF /\ Parse(t[Len(t)]) = "continuation"
                   /\ \A e \in i + 1 .. Len(s) : Parse(s[e]) # "entry"
                THEN {Len(t)} ELSE {})
<1> DEFINE n == Len(s)
<1>1. n \in Nat /\ Len(t) = n + 1
  OBVIOUS
<1>2. /\ Body(s, i) \subseteq 1 .. n
      /\ i \in Body(s, i) /\ \A j \in Body(s, i) : i <= j
  BY DEF Body
<1>3. ASSUME NEW j \in 1 .. n
      PROVE  j \in Body(t, i) <=> j \in Body(s, i)
  BY <1>1 DEF Body
<1>4. n + 1 \in Body(t, i) <=> /\ Parse(t[n + 1]) = "continuation"
                               /\ \A e \in i + 1 .. n : Parse(s[e]) # "entry"
  <2>1. CASE Parse(t[n + 1]) = "continuation"
    <3>1. \A e \in i + 1 .. n + 1 : e \in i + 1 .. n \/ e = n + 1
      BY <1>1
    <3> QED
      BY <2>1, <3>1, <1>1 DEF Body
  <2>2. CASE Parse(t[n + 1]) # "continuation"
    BY <2>2, <1>1 DEF Body
  <2> QED
    BY <2>1, <2>2
<1>5. Body(t, i) \subseteq 1 .. n + 1
  BY <1>1 DEF Body
<1>6. \A j \in 1 .. n + 1 : j \in 1 .. n \/ j = n + 1
  BY <1>1
<1> QED
  BY <1>1, <1>2, <1>3, <1>4, <1>5, <1>6

LEMMA RecordsAre ==
  ASSUME NEW s \in Seq(Kind), NEW r \in RecordsOf(s)
  PROVE  /\ r.no \in 1 .. Len(s) /\ Parse(s[r.no]) = "entry"
         /\ r = [no |-> r.no, lines |-> Body(s, r.no)]
BY DEF RecordsOf

(* A new entry is a record of its own.                                     *)
LEMMA EntryAdds ==
  ASSUME NEW s \in Seq(Kind), NEW t \in Seq(Kind), Len(t) = Len(s) + 1,
         \A i \in 1 .. Len(s) : t[i] = s[i],
         Parse(t[Len(t)]) = "entry"
  PROVE  RecordsOf(t) = RecordsOf(s) \union {[no |-> Len(t), lines |-> {Len(t)}]}
<1> DEFINE n == Len(s)
<1>1. n \in Nat /\ Len(t) = n + 1
  OBVIOUS
<1>2. ASSUME NEW i \in 1 .. n
      PROVE  Body(t, i) = Body(s, i)
  <2>1. Body(t, i) = Body(s, i) \union {}
    BY BodyGrows
  <2> QED
    BY <2>1
<1>3. Body(t, n + 1) = {n + 1}
  BY <1>1 DEF Body
<1>4. {e \in 1 .. n + 1 : Parse(t[e]) = "entry"}
         = {e \in 1 .. n : Parse(s[e]) = "entry"} \union {n + 1}
  BY <1>1
<1> DEFINE E == {e \in 1 .. n : Parse(s[e]) = "entry"}
           RecS(i) == [no |-> i, lines |-> Body(s, i)]
           RecT(i) == [no |-> i, lines |-> Body(t, i)]
<1>5. RecordsOf(s) = {RecS(i) : i \in E}
  BY DEF RecordsOf
<1>6. RecordsOf(t) = {RecT(i) : i \in E \union {n + 1}}
  BY <1>1, <1>4 DEF RecordsOf
<1>7. \A i \in E : RecT(i) = RecS(i)
  BY <1>2
<1>8. RecT(n + 1) = [no |-> Len(t), lines |-> {Len(t)}]
  BY <1>1, <1>3
<1> HIDE DEF n, E, RecS, RecT
<1> QED
  BY <1>5, <1>6, <1>7, <1>8

(* A blank line is none.                                                   *)
LEMMA BlankIsNone ==
  ASSUME NEW s \in Seq(Kind), NEW t \in Seq(Kind), Len(t) = Len(s) + 1,
         \A i \in 1 .. Len(s) : t[i] = s[i],
         Parse(t[Len(t)]) = "blank"
  PROVE  RecordsOf(t) = RecordsOf(s)
<1> DEFINE n == Len(s)
<1>1. n \in Nat /\ Len(t) = n + 1
  OBVIOUS
<1>2. ASSUME NEW i \in 1 .. n
      PROVE  Body(t, i) = Body(s, i)
  <2>1. Body(t, i) = Body(s, i) \union {}
    BY BodyGrows
  <2> QED
    BY <2>1
<1>4. {e \in 1 .. n + 1 : Parse(t[e]) = "entry"}
         = {e \in 1 .. n : Parse(s[e]) = "entry"}
  BY <1>1
<1> DEFINE E == {e \in 1 .. n : Parse(s[e]) = "entry"}
           RecS(i) == [no |-> i, lines |-> Body(s, i)]
           RecT(i) == [no |-> i, lines |-> Body(t, i)]
<1>5. RecordsOf(s) = {RecS(i) : i \in E} /\ RecordsOf(t) = {RecT(i) : i \in E}
  BY <1>1, <1>4 DEF RecordsOf
<1>6. \A i \in E : RecT(i) = RecS(i)
  BY <1>2
<1> HIDE DEF n, E, RecS, RecT
<1> QED
  BY <1>5, <1>6

(* A continuation joins the last record, if there is one.                  *)
LEMMA ContinuationJoins ==
  ASSUME NEW s \in Seq(Kind), NEW t \in Seq(Kind), Len(t) = Len(s) + 1,
         \A i \in 1 .. Len(s) : t[i] = s[i],
         Parse(t[Len(t)]) = "continuation"
  PROVE  /\ RecordsOf(s) = {} => RecordsOf(t) = {}
         /\ \A r \in RecordsOf(s) :
               (\A q \in RecordsOf(s) : q.no <= r.no) =>
                   RecordsOf(t) = (RecordsOf(s) \ {r}) \union
                       {[no |-> r.no, lines |-> r.lines \union {Len(t)}]}
<1> DEFINE n == Len(s)
           E == {e \in 1 .. n : Parse(s[e]) = "entry"}
<1>1. n \in Nat /\ Len(t) = n + 1
  OBVIOUS
<1>2. {e \in 1 .. n + 1 : Parse(t[e]) = "entry"} = E
  BY <1>1
<1>3. RecordsOf(t) = {[no |-> i, lines |-> Body(t, i)] : i \in E}
  BY <1>1, <1>2 DEF RecordsOf
<1>4. RecordsOf(s) = {[no |-> i, lines |-> Body(s, i)] : i \in E}
  BY DEF RecordsOf
<1> DEFINE RecS(i) == [no |-> i, lines |-> Body(s, i)]
           RecT(i) == [no |-> i, lines |-> Body(t, i)]
<1>5. RecordsOf(s) = {} => RecordsOf(t) = {}
  <2>1. RecordsOf(s) = {RecS(i) : i \in E} /\ RecordsOf(t) = {RecT(i) : i \in E}
    BY <1>3, <1>4
  <2> HIDE DEF E, RecS, RecT
  <2> QED
    BY <2>1
<1>6. ASSUME NEW r \in RecordsOf(s), \A q \in RecordsOf(s) : q.no <= r.no
      PROVE  RecordsOf(t) = (RecordsOf(s) \ {r}) \union
                {[no |-> r.no, lines |-> r.lines \union {Len(t)}]}
  <2>1. PICK m \in E : r = [no |-> m, lines |-> Body(s, m)]
    BY <1>4, <1>6
  <2>2. \A e \in E : e <= m
    <3> SUFFICES ASSUME NEW e \in E
                 PROVE  e <= m
      OBVIOUS
    <3>1. [no |-> e, lines |-> Body(s, e)] \in RecordsOf(s)
      BY <1>4
    <3>2. [no |-> e, lines |-> Body(s, e)].no <= r.no
      BY <3>1, <1>6
    <3> QED
      BY <3>2, <2>1
  <2>3. \A e \in m + 1 .. n : Parse(s[e]) # "entry"
    BY <2>2, <1>1
  <2>4. Body(t, m) = Body(s, m) \union {n + 1}
    BY <2>3, <1>1, BodyGrows
  <2>5. \A i \in E : i # m => Body(t, i) = Body(s, i)
    <3> SUFFICES ASSUME NEW i \in E, i # m
                 PROVE  Body(t, i) = Body(s, i)
      OBVIOUS
    <3>1. m \in i + 1 .. n /\ Parse(s[m]) = "entry"
      BY <2>2, <1>1
    <3>2. ~ \A e \in i + 1 .. n : Parse(s[e]) # "entry"
      BY <3>1
    <3>3. Body(t, i) = Body(s, i) \union {}
      BY <3>2, BodyGrows
    <3> QED
      BY <3>3
  <2>6. RecordsOf(s) = {RecS(i) : i \in E} /\ RecordsOf(t) = {RecT(i) : i \in E}
    BY <1>3, <1>4
  <2>7. \A i \in E : RecS(i) = r <=> i = m
    BY <2>1
  <2>8. \A i \in E : i # m => RecT(i) = RecS(i)
    BY <2>5
  <2>9. RecT(m) = [no |-> r.no, lines |-> r.lines \union {Len(t)}]
    BY <1>1, <2>1, <2>4
  <2> HIDE DEF E, n, RecS, RecT
  <2> QED
    BY <2>6, <2>7, <2>8, <2>9
<1> QED
  BY <1>5, <1>6

(* The lines with a signature.                                             *)
LEMMA MarksGrow ==
  ASSUME NEW s \in Seq(Kind), NEW t \in Seq(Kind), Len(t) = Len(s) + 1,
         \A i \in 1 .. Len(s) : t[i] = s[i]
  PROVE  MarksOf(t) = MarksOf(s) \union
            (IF HasSignature(t[Len(t)]) THEN {Len(t)} ELSE {})
<1>1. Len(s) \in Nat
  OBVIOUS
<1> QED
  BY <1>1 DEF MarksOf

(* The lines handled are among those that were logged.                     *)
LEMMA HandledLines ==
  ASSUME ChannelInv, Whole
  PROVE  lines \in Seq(Kind) /\ rawLineNo \in Nat /\ rawLineNo <= Len(lines)
<1>1. /\ lines \in Seq(Kind) /\ rawLineNo \in Nat /\ received \in Nat
      /\ Len(lines) = (received + 1) \div 2
      /\ work \in Seq([at : 1 .. MaxLines, kind : Kind])
  BY LogsAreBounded DEF ChannelInv, ChannelTypeOK, RawInv, LinesRead, Whole, Wired, Piece
<1>2. \/ rawLineNo + Len(work) = (received + 1) \div 2
      \/ rawLineNo + Len(work) = Taken \div 2
  BY DEF ChannelInv, LinesInOrder
<1>3. Taken \in Nat /\ Taken <= received
  BY TakenIsReceived DEF Whole
<1>4. Len(work) \in Nat
  BY <1>1
<1> QED
  BY <1>1, <1>2, <1>3, <1>4

-----------------------------------------------------------------------------
(* The derived files follow the lines handled.                             *)

(* Kept asks of a record whether its first line is one kept by its pid.    *)
LEMMA KeptIs ==
  ASSUME NEW s \in Seq(Kind), NEW r \in RecordsOf(s)
  PROVE  Kept(r) <=> (lines[r.no] = "byPid" => pidKnown)
<1>1. /\ r.no \in 1 .. Len(s) /\ r.lines = Body(s, r.no)
  BY RecordsAre
<1>2. r.no \in r.lines /\ r.lines \subseteq 1 .. Len(s) /\ \A j \in r.lines : r.no <= j
  BY <1>1 DEF Body
<1>3. (CHOOSE i \in r.lines : \A j \in r.lines : i <= j) = r.no
  BY <1>2
<1> QED
  BY <1>3 DEF Kept

(* An entry that is flushed is appended behind those before it, or was not *)
(* to be kept.                                                             *)
LEMMA FlushKeepsOrder ==
  ASSUME ChannelInv, Whole, ~lost, phase \notin {"close", "down"},
         Flushed(FALSE)
  PROVE  /\ \A i \in DOMAIN jsonl' :
               /\ jsonl'[i] \in Handled
               /\ \A j \in DOMAIN jsonl' : i < j => jsonl'[i].no < jsonl'[j].no
         /\ \A r \in Handled \ ToSet(jsonl') : lines[r.no] = "byPid"
<1> DEFINE s == SubSeq(lines, 1, rawLineNo)
<1>1. /\ jsonl \in Seq(Record) /\ pending \in Record \union {NoEntry}
      /\ RecordsInOrder
  BY DEF ChannelInv, ChannelTypeOK, DerivedTypes, Whole, Wired
<1>2. s \in Seq(Kind)
  <2>1. lines \in Seq(Kind) /\ rawLineNo \in Nat /\ rawLineNo <= Len(lines)
    BY HandledLines
  <2> QED
    BY <2>1
<1>3. Handled = RecordsOf(s)
  BY DEF Handled
<1>4. /\ \/ pending = NoEntry /\ Handled = {}
         \/ /\ pending \in Handled
            /\ \A r \in Handled : r.no <= pending.no
      /\ \A i \in DOMAIN jsonl :
            /\ jsonl[i] \in Handled
            /\ pending # NoEntry => jsonl[i].no < pending.no
            /\ \A j \in DOMAIN jsonl : i < j => jsonl[i].no < jsonl[j].no
      /\ \A r \in Handled \ (ToSet(jsonl) \union {pending}) : lines[r.no] = "byPid"
  BY <1>1 DEF RecordsInOrder
<1> HIDE DEF s
<1>5. CASE (pending = NoEntry \/ ~Kept(pending)) /\ jsonl' = jsonl
  <2>1. pending \in Handled => lines[pending.no] = "byPid"
    <3>1. pending \in Handled => pending # NoEntry
      <4>1. \A r \in Handled : r.no \in 1 .. Len(s)
        BY <1>2, <1>3, RecordsAre
      <4>2. NoEntry.no = 0 /\ Len(s) \in Nat
        BY <1>2 DEF NoEntry
      <4> QED
        BY <4>1, <4>2
    <3> QED
      BY <3>1, <1>2, <1>3, <1>5, KeptIs
  <2> QED
    BY <2>1, <1>4, <1>5
<1>6. CASE pending # NoEntry /\ jsonl' = Append(jsonl, pending)
  <2>1. pending \in Handled /\ pending \in Record
    BY <1>1, <1>4, <1>6
  <2>2. /\ jsonl' \in Seq(Record) /\ Len(jsonl') = Len(jsonl) + 1
        /\ \A i \in 1 .. Len(jsonl) : jsonl'[i] = jsonl[i]
        /\ jsonl'[Len(jsonl) + 1] = pending
        /\ DOMAIN jsonl = 1 .. Len(jsonl)
        /\ DOMAIN jsonl' = 1 .. Len(jsonl) + 1 /\ Len(jsonl) \in Nat
    BY <1>1, <1>6, <2>1, AppendProperties
  <2>3. \A i \in DOMAIN jsonl' : i \in DOMAIN jsonl \/ i = Len(jsonl) + 1
    BY <2>2
  <2>4. ASSUME NEW i \in DOMAIN jsonl', NEW j \in DOMAIN jsonl', i < j
        PROVE  jsonl'[i].no < jsonl'[j].no
    <3>1. i \in DOMAIN jsonl
      BY <2>2, <2>4
    <3> QED
      BY <3>1, <2>2, <2>3, <2>4, <1>4, <1>6
  <2>5. ToSet(jsonl') = ToSet(jsonl) \union {pending}
    <3>1. ToSet(jsonl) = {jsonl[i] : i \in 1 .. Len(jsonl)}
      BY <2>2 DEF ToSet
    <3>2. ToSet(jsonl') = {jsonl'[i] : i \in 1 .. Len(jsonl) + 1}
      BY <2>2 DEF ToSet
    <3>3. \A i \in 1 .. Len(jsonl) : i \in 1 .. Len(jsonl) + 1
      BY <2>2
    <3>4. \A i \in 1 .. Len(jsonl) + 1 : i \in 1 .. Len(jsonl) \/ i = Len(jsonl) + 1
      BY <2>2
    <3>5. Len(jsonl) + 1 \in 1 .. Len(jsonl) + 1
      BY <2>2
    <3> QED
      BY <2>2, <3>1, <3>2, <3>3, <3>4, <3>5
  <2> QED
    BY <2>1, <2>2, <2>3, <2>4, <2>5, <1>4
<1> QED
  BY <1>5, <1>6 DEF Flushed

LEMMA ToSetAppend ==
  ASSUME NEW S, NEW s \in Seq(S), NEW e \in S
  PROVE  ToSet(Append(s, e)) = ToSet(s) \union {e}
<1> DEFINE t == Append(s, e)
           n == Len(s)
<1>1. /\ n \in Nat /\ DOMAIN s = 1 .. n /\ DOMAIN t = 1 .. n + 1
      /\ t[n + 1] = e /\ \A i \in 1 .. n : t[i] = s[i]
  BY AppendProperties
<1>2. /\ \A i \in 1 .. n : i \in 1 .. n + 1
      /\ \A i \in 1 .. n + 1 : i \in 1 .. n \/ i = n + 1
      /\ n + 1 \in 1 .. n + 1
  BY <1>1
<1> HIDE DEF t, n
<1>3. ToSet(t) = ToSet(s) \union {e}
  BY <1>1, <1>2 DEF ToSet
<1> QED
  BY <1>3 DEF t

(* The derived files follow the lines handled after every step.            *)
LEMMA RecordsInOrderStep ==
  ASSUME ChannelInv, [Next]_vars
  PROVE  RecordsInOrder'
<1> DEFINE H1 == Handled'
           Follows ==
             /\ phase' \in {"close", "down"} => pending' = NoEntry
             /\ phase' \notin {"close", "down"} =>
                  \/ pending' = NoEntry /\ H1 = {}
                  \/ /\ pending' \in H1
                     /\ \A r \in H1 : r.no <= pending'.no
             /\ \A i \in DOMAIN jsonl' :
                  /\ jsonl'[i] \in H1
                  /\ pending' # NoEntry => jsonl'[i].no < pending'.no
                  /\ \A j \in DOMAIN jsonl' : i < j => jsonl'[i].no < jsonl'[j].no
             /\ \A r \in H1 \ (ToSet(jsonl') \union {pending'}) :
                  lines'[r.no] = "byPid"
             /\ ToSet(marks') = MarksOf(SubSeq(lines', 1, rawLineNo'))
<1> SUFFICES ASSUME Whole', ~lost'
             PROVE  Follows
  BY DEF RecordsInOrder
<1>1. CASE OpenRaw
  <2>1. /\ phase' = "running" /\ pending' = NoEntry /\ rawLineNo' = 0
        /\ jsonl' = <<>> /\ marks' = <<>>
    BY <1>1 DEF OpenRaw, PhaseMoves, ChannelInv, RawInv, NothingBefore, Starting,
                workerVars, derived
  <2>2. SubSeq(lines', 1, rawLineNo') = <<>>
    BY <2>1
  <2>3. H1 = {} /\ MarksOf(SubSeq(lines', 1, rawLineNo')) = {}
    <3>1. RecordsOf(<<>>) = {} /\ MarksOf(<<>>) = {}
      BY DEF RecordsOf, MarksOf
    <3> QED
      BY <2>2, <3>1 DEF Handled
  <2> QED
    BY <2>1, <2>3 DEF ToSet
<1> SUFFICES ASSUME ~OpenRaw
             PROVE  Follows
  BY <1>1
<1>2. /\ phase \in Wired /\ Whole /\ received \in Nat /\ received' \in Nat
      /\ phase' \in Wired
  BY WholeBefore DEF Whole
<1>3. ~lost
  <2>1. ~Crash
    BY DEF Crash, Whole, Wired
  <2>2. lost => lost'
    BY <2>1 DEF HandleLine, DeriveParsed, FlushPending, Next, vars, StartSteps, ChildSteps, RawSteps, WorkSteps,
         ShutdownSteps, childVars, rawVars, workerVars, derived, GetAppUid,
         SpawnChild, OpenRaw, StartFails, ChildExits, ChildCloses,
         FlushStart, FlushDone, FlushFails, ProcessChunk, ProcessLine,
         GraceEnds, CloseSeen, Finish, FinishLine, FinishEntry, CloseRaw,
         FlushTick, PollPids, Shutdown, OnChunk, ReplayTruncates,
         ReplayBegins, ReplayAppends, ReplayEnds, ReplayDies
  <2> QED
    BY <2>2
<1>4. /\ lines \in Seq(Kind) /\ rawLineNo \in Nat /\ rawLineNo <= Len(lines)
      /\ lines' \in Seq(Kind) /\ IsPrefix(lines, lines')
      /\ jsonl \in Seq(Record) /\ marks \in Seq(1 .. 2 * MaxLines + 2)
      /\ pending \in Record \union {NoEntry}
  BY <1>2, HandledLines, LinesGrow
     DEF ChannelInv, ChannelTypeOK, DerivedTypes, Wired
<1>5. /\ phase \in {"close", "down"} => pending = NoEntry
      /\ phase \notin {"close", "down"} =>
           \/ pending = NoEntry /\ Handled = {}
           \/ /\ pending \in Handled
              /\ \A r \in Handled : r.no <= pending.no
      /\ \A i \in DOMAIN jsonl :
           /\ jsonl[i] \in Handled
           /\ pending # NoEntry => jsonl[i].no < pending.no
           /\ \A j \in DOMAIN jsonl : i < j => jsonl[i].no < jsonl[j].no
      /\ \A r \in Handled \ (ToSet(jsonl) \union {pending}) :
           lines[r.no] = "byPid"
      /\ ToSet(marks) = MarksOf(SubSeq(lines, 1, rawLineNo))
  BY <1>2, <1>3 DEF ChannelInv, NothingOpen, RecordsInOrder
<1>6. /\ phase' \in {"close", "down"} => phase \in {"close", "down"} \/ FinishEntry
      /\ phase \in {"close", "down"} => phase' \in {"close", "down"}
  BY <1>2, LateSteps
<1> DEFINE s == SubSeq(lines, 1, rawLineNo)
<1>7. /\ s \in Seq(Kind) /\ Len(s) = rawLineNo /\ Handled = RecordsOf(s)
      /\ \A i \in 1 .. rawLineNo : s[i] = lines[i]
  BY <1>4 DEF Handled
<1>8. \A r \in Handled : r.no \in 1 .. rawLineNo /\ lines'[r.no] = lines[r.no]
  <2> SUFFICES ASSUME NEW r \in Handled
               PROVE  r.no \in 1 .. rawLineNo /\ lines'[r.no] = lines[r.no]
    OBVIOUS
  <2>1. r.no \in 1 .. rawLineNo
    <3> HIDE DEF s
    <3> QED
      BY <1>7, RecordsAre
  <2> QED
    BY <2>1, <1>4, PrefixIs
<1> HIDE DEF s
<1>9. CASE ProcessLine
  <2> DEFINE line == Head(work)
             no   == rawLineNo + 1
             t    == SubSeq(lines, 1, no)
  <2>1. /\ work # <<>> /\ rawLineNo' = no /\ lines' = lines /\ phase' = phase
        /\ \/ /\ Parse(line.kind) = "entry"
              /\ pending' = [no |-> no, lines |-> {line.at}]
              /\ Flushed(FALSE)
           \/ /\ Parse(line.kind) = "continuation"
              /\ pending' = IF pending = NoEntry THEN pending
                            ELSE [pending EXCEPT !.lines = @ \union {line.at}]
              /\ jsonl' = jsonl
           \/ /\ Parse(line.kind) = "blank"
              /\ UNCHANGED <<pending, jsonl>>
        /\ marks' = IF HasSignature(line.kind) THEN Append(marks, no) ELSE marks
    BY <1>9, LineSteps DEF Flushed
  <2>2. line = [at |-> no, kind |-> lines[no]] /\ no <= Len(lines)
        /\ phase \notin {"close", "down"}
    <3>1. work \in Seq([at : 1 .. MaxLines, kind : Kind])
      BY DEF ChannelInv, ChannelTypeOK
    <3>2. 1 \in DOMAIN work /\ Head(work) = work[1]
      BY <2>1, <3>1
    <3>3. /\ \A i \in DOMAIN work : work[i] =
                [at |-> rawLineNo + i, kind |-> lines[rawLineNo + i]]
          /\ phase \in Late => phase = "flushLine"
      BY <1>2, <2>1 DEF ChannelInv, LinesInOrder
    <3>4. work[1].at <= Len(lines)
      BY <1>2, <3>2 DEF ChannelInv, LinesBounded
    <3> QED
      BY <3>2, <3>3, <3>4 DEF Late
  <2>3. /\ t \in Seq(Kind) /\ Len(t) = Len(s) + 1 /\ Len(t) = no
        /\ t[no] = lines[no] /\ \A i \in 1 .. Len(s) : t[i] = s[i]
        /\ H1 = RecordsOf(t) /\ no \in Nat \ {0}
    BY <1>4, <1>7, <2>1, <2>2 DEF Handled
  <2> HIDE DEF t, no, line
  <2>4. ToSet(marks') = MarksOf(SubSeq(lines', 1, rawLineNo'))
    <3>1. MarksOf(t) = MarksOf(s) \union
             (IF HasSignature(lines[no]) THEN {no} ELSE {})
      BY <1>7, <2>3, MarksGrow
    <3>2. ToSet(marks') = ToSet(marks) \union
             (IF HasSignature(lines[no]) THEN {no} ELSE {})
      <4>1. CASE HasSignature(lines[no])
        <5> DEFINE M == 1 .. 2 * MaxLines + 2
        <5>1. marks \in Seq(Nat) /\ marks' = Append(marks, no)
          <6>1. M \subseteq Nat /\ marks \in Seq(M)
            BY <1>4
          <6> HIDE DEF M
          <6>2. marks \in Seq(Nat)
            BY <6>1, SeqMonotonic
          <6>3. line.kind = lines[no]
            BY <2>2
          <6> QED
            BY <6>2, <6>3, <4>1, <2>1
        <5> QED
          BY <4>1, <5>1, <2>3, ToSetAppend
      <4>2. CASE ~HasSignature(lines[no])
        BY <4>2, <2>1, <2>2
      <4> QED
        BY <4>1, <4>2
    <3>3. MarksOf(SubSeq(lines', 1, rawLineNo')) = MarksOf(t)
      BY <2>1 DEF t
    <3> QED
      BY <3>1, <3>2, <3>3, <1>5 DEF s
  <2>5. CASE /\ Parse(line.kind) = "entry"
             /\ pending' = [no |-> no, lines |-> {line.at}]
             /\ Flushed(FALSE)
    <3>1. H1 = Handled \union {pending'} /\ pending'.no = no
      BY <1>7, <2>2, <2>3, <2>5, EntryAdds
    <3>2. /\ \A i \in DOMAIN jsonl' :
               /\ jsonl'[i] \in Handled
               /\ \A j \in DOMAIN jsonl' : i < j => jsonl'[i].no < jsonl'[j].no
          /\ \A r \in Handled \ ToSet(jsonl') : lines[r.no] = "byPid"
      BY <1>2, <1>3, <2>2, <2>5, FlushKeepsOrder
    <3>3. \A r \in Handled : r.no < no
      BY <1>4, <1>8 DEF no
    <3>4. \A r \in H1 : r.no <= pending'.no
      BY <3>1, <3>3, <2>3, <1>8
    <3>5. \A r \in H1 \ (ToSet(jsonl') \union {pending'}) : lines'[r.no] = "byPid"
      BY <3>1, <3>2, <2>1
    <3> HIDE DEF H1
    <3> QED
      BY <2>1, <2>2, <2>4, <3>1, <3>2, <3>3, <3>4, <3>5
  <2>6. CASE /\ Parse(line.kind) = "continuation"
             /\ pending' = IF pending = NoEntry THEN pending
                           ELSE [pending EXCEPT !.lines = @ \union {line.at}]
             /\ jsonl' = jsonl
    <3>1. Parse(t[Len(t)]) = "continuation"
      BY <2>2, <2>3, <2>6
    <3>2. CASE pending = NoEntry /\ Handled = {}
      <4>1. H1 = {} /\ pending' = NoEntry
        BY <3>1, <3>2, <1>7, <2>3, <2>6, ContinuationJoins
      <4> HIDE DEF H1
      <4> QED
        BY <4>1, <3>2, <2>1, <2>2, <2>4, <2>6, <1>5
    <3>3. CASE /\ pending \in Handled /\ \A r \in Handled : r.no <= pending.no
      <4>1. pending \in Record /\ pending # NoEntry
        BY <3>3, <1>4, <1>8 DEF NoEntry
      <4>2. pending' = [no |-> pending.no, lines |-> pending.lines \union {no}]
        BY <4>1, <2>2, <2>6 DEF Record
      <4>3. H1 = (Handled \ {pending}) \union {pending'}
        <5>1. \A r \in RecordsOf(s) :
                 (\A q \in RecordsOf(s) : q.no <= r.no) =>
                     RecordsOf(t) = (RecordsOf(s) \ {r}) \union
                         {[no |-> r.no, lines |-> r.lines \union {Len(t)}]}
          BY <3>1, <1>7, <2>3, ContinuationJoins
        <5>2. RecordsOf(t) = (Handled \ {pending}) \union
                 {[no |-> pending.no, lines |-> pending.lines \union {Len(t)}]}
          BY <5>1, <3>3, <1>7
        <5> QED
          BY <5>2, <4>2, <2>3
      <4>4. pending'.no = pending.no /\ pending.no \in Nat /\ pending' # NoEntry
        BY <4>1, <4>2 DEF Record, NoEntry
      <4>5. \A r \in H1 : r.no <= pending'.no
        BY <3>3, <4>3, <4>4
      <4>6. \A i \in DOMAIN jsonl : jsonl[i] \in H1 /\ jsonl[i].no < pending'.no
        <5> SUFFICES ASSUME NEW i \in DOMAIN jsonl
                     PROVE  jsonl[i] \in H1 /\ jsonl[i].no < pending'.no
          OBVIOUS
        <5>1. jsonl[i] \in Handled /\ jsonl[i].no < pending.no
          BY <4>1, <1>5
        <5>2. jsonl[i] # pending
          BY <5>1, <4>4
        <5> QED
          BY <5>1, <5>2, <4>3, <4>4
      <4>7. \A r \in H1 \ (ToSet(jsonl') \union {pending'}) : lines'[r.no] = "byPid"
        BY <4>3, <2>1, <2>6, <1>5
      <4> HIDE DEF H1
      <4> QED
        BY <4>3, <4>5, <4>6, <4>7, <2>1, <2>2, <2>4, <2>6, <1>5
    <3> QED
      BY <3>2, <3>3, <1>5, <2>2
  <2>7. CASE Parse(line.kind) = "blank" /\ UNCHANGED <<pending, jsonl>>
    <3>1. H1 = Handled
      BY <1>7, <2>2, <2>3, <2>7, BlankIsNone
    <3> HIDE DEF H1
    <3> QED
      BY <3>1, <2>1, <2>2, <2>4, <2>7, <1>5
  <2> QED
    BY <2>1, <2>5, <2>6, <2>7
<1>10. CASE FinishEntry
  <2>1. /\ phase = "flushEntry" /\ phase' = "close" /\ pending' = NoEntry
        /\ UNCHANGED <<lines, rawLineNo, marks>> /\ FlushPending
    BY <1>10 DEF FinishEntry, PhaseMoves, childVars
  <2>2. Flushed(FALSE)
    BY <2>1 DEF FlushPending, Flushed
  <2>3. /\ \A i \in DOMAIN jsonl' :
             /\ jsonl'[i] \in Handled
             /\ \A j \in DOMAIN jsonl' : i < j => jsonl'[i].no < jsonl'[j].no
        /\ \A r \in Handled \ ToSet(jsonl') : lines[r.no] = "byPid"
    BY <1>2, <1>3, <2>1, <2>2, FlushKeepsOrder
  <2>4. H1 = Handled
    BY <2>1 DEF Handled
  <2> HIDE DEF H1
  <2> QED
    BY <2>1, <2>3, <2>4, <1>5
<1>11. CASE UNCHANGED <<rawLineNo, pending, jsonl, marks>> /\ ~FinishEntry
  <2>1. SubSeq(lines', 1, rawLineNo') = s
    <3> DEFINE u == SubSeq(lines', 1, rawLineNo)
    <3>1. /\ Len(lines) <= Len(lines')
          /\ \A i \in 1 .. Len(lines) : lines[i] = lines'[i]
      BY <1>4, PrefixIs
    <3>4. Len(lines') \in Nat /\ Len(lines) \in Nat /\ rawLineNo <= Len(lines')
      BY <3>1, <1>4
    <3>5. /\ u \in Seq(Kind) /\ Len(u) = rawLineNo
          /\ \A i \in 1 .. rawLineNo : u[i] = lines'[i]
      BY <3>4, <1>4
    <3>6. \A i \in 1 .. rawLineNo : i \in 1 .. Len(lines)
      BY <3>4, <1>4
    <3>2. u \in Seq(Kind) /\ Len(u) = rawLineNo /\ \A i \in 1 .. rawLineNo : u[i] = s[i]
      BY <3>1, <3>5, <3>6, <1>7
    <3> HIDE DEF u
    <3>3. u = s
      BY <3>2, <1>7, SeqEqual
    <3> QED
      BY <3>3, <1>11 DEF u
  <2>2. H1 = Handled
    BY <2>1 DEF Handled, s
  <2>3. /\ phase' \in {"close", "down"} <=> phase \in {"close", "down"}
    BY <1>6, <1>11
  <2>4. \A r \in Handled \ (ToSet(jsonl) \union {pending}) : lines'[r.no] = "byPid"
    BY <1>5, <1>8
  <2>5. MarksOf(SubSeq(lines', 1, rawLineNo')) = MarksOf(SubSeq(lines, 1, rawLineNo))
    BY <2>1 DEF s
  <2> HIDE DEF H1
  <2> QED
    BY <2>2, <2>3, <2>4, <2>5, <1>5, <1>11
<1>12. \/ UNCHANGED <<rawLineNo, pending, jsonl, marks>>
       \/ ProcessLine \/ FinishEntry \/ Crash
       \/ \E p \in Recoverer : ReplayTruncates(p) \/ ReplayAppends(p)
  BY DEF Next, vars, StartSteps, ChildSteps, RawSteps, WorkSteps,
         ShutdownSteps, childVars, rawVars, workerVars, derived, GetAppUid,
         SpawnChild, OpenRaw, StartFails, ChildExits, ChildCloses,
         FlushStart, FlushDone, FlushFails, ProcessChunk, GraceEnds,
         CloseSeen, Finish, FinishLine, CloseRaw, FlushTick, PollPids,
         Shutdown, OnChunk, ReplayEnds, ReplayDies
<1>14. ASSUME NEW p \in Recoverer, ReplayTruncates(p) \/ ReplayAppends(p)
       PROVE  phase = "crashed"
  BY <1>14 DEF ReplayTruncates, ReplayBegins, ReplayAppends, ChannelInv, ReplaysWait, Idle
<1>13. ~Crash /\ phase # "crashed"
  BY <1>2 DEF Crash, Whole, Wired
<1> QED
  BY <1>9, <1>10, <1>11, <1>12, <1>13, <1>14


(* Once the last entry has been flushed no other is opened: the work of    *)
(* the chain is done by then.                                              *)
LEMMA NothingOpenStep ==
  ASSUME ChannelInv, [Next]_vars
  PROVE  NothingOpen'
<1> SUFFICES ASSUME Whole', phase' \in {"close", "down"}
             PROVE  pending' = NoEntry
  BY DEF NothingOpen
<1>1. CASE FinishEntry
  BY <1>1 DEF FinishEntry
<1>2. CASE ~FinishEntry
  <2>1. ~OpenRaw /\ ~Crash
    BY DEF OpenRaw, Crash, PhaseMoves
  <2>2. Whole /\ phase \in {"close", "down"} /\ phase' \in Wired
    BY <1>2, <2>1, LateSteps, WholeBefore DEF Wired
  <2>3. pending = NoEntry /\ work = <<>>
    BY <2>2 DEF ChannelInv, NothingOpen, LinesInOrder, Late
  <2>4. ~ProcessLine
    BY <2>3 DEF ProcessLine
  <2>5. pending' = pending
    BY <1>2, <2>1, <2>4 DEF Next, vars, StartSteps, ChildSteps, RawSteps,
       WorkSteps, ShutdownSteps, childVars, rawVars, workerVars, derived,
       GetAppUid, SpawnChild, StartFails, ChildExits, ChildCloses,
       FlushStart, FlushDone, FlushFails, ProcessChunk, GraceEnds,
       CloseSeen, Finish, FinishLine, CloseRaw, FlushTick, PollPids,
       Shutdown, OnChunk, ReplayTruncates, ReplayBegins, ReplayAppends,
       ReplayEnds, ReplayDies
  <2> QED
    BY <2>3, <2>5
<1> QED
  BY <1>1, <1>2


-----------------------------------------------------------------------------
(* The theorems.                                                           *)

LEMMA EmptyPrefix ==
  ASSUME NEW S, NEW t \in Seq(S)
  PROVE  IsPrefix(<<>>, t)
<1>1. \A e \in Seq(S) : IsPrefix(e, t) <=> /\ Len(e) <= Len(t)
                                           /\ \A i \in 1 .. Len(e) : e[i] = t[i]
  BY PrefixIs
<1>2. PICK e : e = <<>> /\ e \in Seq(S) /\ Len(e) <= Len(t) /\ 1 .. Len(e) = {}
  <2>1. <<>> \in Seq(S) /\ Len(<<>>) <= Len(t) /\ 1 .. Len(<<>>) = {}
    OBVIOUS
  <2> QED
    BY <2>1, Zenon
<1>3. IsPrefix(e, t)
  BY <1>1, <1>2
<1> QED
  BY <1>2, <1>3

LEMMA ChannelBegins ==
  ASSUME Init
  PROVE  ChannelInv
<1>1. /\ phase = "uid" /\ phase \notin Wired /\ lines = <<>> /\ received = 0
      /\ disk = <<>> /\ rawQueue = <<>> /\ batch = <<>> /\ chunks = <<>>
      /\ work = <<>> /\ jsonl = <<>> /\ marks = <<>>
  BY DEF Init, Wired
<1>2. MaxLines \in Nat /\ 0 \in Piece
  BY LogsAreBounded DEF Piece
<1>3. \E log \in Logs : IsPrefix(lines, log)
  <2>1. PICK log \in Logs : TRUE
    BY ConstantsAssumption
  <2>2. log \in Seq(Kind) /\ <<>> \in Seq(Kind)
    BY LogsAreBounded
  <2>3. IsPrefix(<<>>, log)
    BY <2>2, EmptyPrefix
  <2> QED
    BY <1>1, <2>3
<1>4. ChannelTypeOK
  <2>1. /\ rawQueue \in Seq(Piece) /\ batch \in Seq(Piece) /\ disk \in Seq(Piece)
        /\ chunks \in Seq([from : Piece, to : Piece])
        /\ work \in Seq([at : 1 .. MaxLines, kind : Kind])
        /\ lines \in Seq(Kind)
    BY <1>1
  <2>2. /\ phase \in Alive \union {"failed", "crashed"}
        /\ state \in {"running", "terminated", "stopped"}
        /\ child \in {"none", "running", "exited", "closed"}
        /\ flushing \in {"idle", "writing", "poisoned"}
        /\ childClosed \in BOOLEAN /\ wanted \in BOOLEAN
        /\ pidKnown \in BOOLEAN /\ lost \in BOOLEAN
    BY DEF Init, Alive, Starting
  <2>3. /\ received \in Piece /\ drainTo \in Piece /\ carry \in Piece
        /\ rawLineNo \in 0 .. 2 * MaxLines
        /\ pending \in Record \union {NoEntry}
    BY <1>2 DEF Init
  <2> QED
    BY <1>3, <2>1, <2>2, <2>3 DEF ChannelTypeOK
<1>5. IsPrefix(disk, Teed)
  <2>1. Pieces(0, 0) \in Seq(Nat) /\ <<>> \in Seq(Nat)
    BY PiecesAre
  <2> QED
    BY <1>1, <2>1, EmptyPrefix DEF Teed
<1>6. RawInv
  BY <1>1, <1>5
     DEF Init, RawInv, LinesRead, NothingBefore, RawStages, RawIsTruth
<1>7. ChunksJoin /\ LinesBounded /\ LinesInOrder /\ NothingOpen /\ RecordsInOrder
  BY <1>1 DEF ChunksJoin, LinesBounded, LinesInOrder, NothingOpen,
              RecordsInOrder, Whole
<1>8. DerivedTypes /\ DrainedBehind /\ ReplaysWait
  BY <1>1 DEF Init, DerivedTypes, DrainedBehind, Late, ReplaysWait
<1> QED
  BY <1>4, <1>6, <1>7, <1>8 DEF ChannelInv

(* What the raw writer and the worker do keeps the channel's invariant,    *)
(* and so does what happens to it: chunks of any size, a child that exits  *)
(* at any moment, a failing write, a crash.                                *)
LEMMA ChannelKeeps ==
  ASSUME ChannelInv, [Next]_vars
  PROVE  ChannelInv'
<1>1. ChannelTypeOK'
  BY StageTypes, FlagTypes, LinesGrow, RawTypes, ChunksJoinStep,
     LinesBoundedStep DEF ChannelTypeOK, WorkerTypeOK
<1>2. RawInv'
  BY LinesReadStep, NothingBeforeStep, RawStagesStep, RawIsTruthStep DEF RawInv
<1> QED
  BY <1>1, <1>2, ChunksJoinStep, LinesBoundedStep, DerivedTypesStep,
     DrainedBehindStep, LinesInOrderStep, NothingOpenStep, RecordsInOrderStep,
     ReplaysWaitStep DEF ChannelInv

(* Every state of the channel, running, shutting down or crashed, has the  *)
(* inductive invariant.                                                    *)
THEOREM ChannelInvariant == Spec => []ChannelInv
<1>1. Init => ChannelInv
  BY ChannelBegins
<1>2. ChannelInv /\ [Next]_vars => ChannelInv'
  BY ChannelKeeps
<1> QED
  BY <1>1, <1>2, PTL DEF Spec

(* The raw file is the truth (worker.ts:60-64): what is on disk, being     *)
(* written and queued is every byte received, in order and without a gap,  *)
(* whatever fails on the derived side, and a raw write that fails costs    *)
(* the end of the file only.                                               *)
THEOREM RawFileIsTheTruth == Spec => []RawIsTruth
<1>1. ChannelInv => RawIsTruth
  BY DEF ChannelInv, RawInv
<1> QED
  BY <1>1, ChannelInvariant, PTL

(* However the log was cut into chunks, logcat.jsonl and the open entry    *)
(* are the records of the lines handled, in the order of their numbers,    *)
(* and crash.jsonl has the numbers of those with a signature.              *)
THEOREM DerivedFilesFollow == Spec => []DerivedFollowsRaw
<1>1. ASSUME ChannelInv PROVE DerivedFollowsRaw
  <2> DEFINE s       == SubSeq(lines, 1, rawLineNo)
             records == ToSet(jsonl) \union ({pending} \ {NoEntry})
  <2> SUFFICES ASSUME Whole, ~lost
               PROVE  /\ records \subseteq Handled
                      /\ \A r \in Handled \ records : lines[r.no] = "byPid"
                      /\ \A i, j \in DOMAIN jsonl : i < j => jsonl[i].no < jsonl[j].no
                      /\ ToSet(marks) = MarksOf(s)
    BY DEF DerivedFollowsRaw, Whole, Late, Handled
  <2>1. /\ phase \notin {"close", "down"} =>
             \/ pending = NoEntry /\ Handled = {}
             \/ pending \in Handled
        /\ \A i \in DOMAIN jsonl :
             /\ jsonl[i] \in Handled
             /\ \A j \in DOMAIN jsonl : i < j => jsonl[i].no < jsonl[j].no
        /\ \A r \in Handled \ (ToSet(jsonl) \union {pending}) :
             lines[r.no] = "byPid"
        /\ ToSet(marks) = MarksOf(s)
    BY <1>1 DEF ChannelInv, RecordsInOrder
  <2>2. phase \in {"close", "down"} => pending = NoEntry
    BY <1>1 DEF ChannelInv, NothingOpen
  <2>3. \A r \in Handled : r # NoEntry
    <3>1. s \in Seq(Kind) /\ Handled = RecordsOf(s)
      BY <1>1, HandledLines DEF ChannelInv, ChannelTypeOK, Handled, Whole
    <3> HIDE DEF s
    <3>2. \A r \in Handled : r.no \in 1 .. Len(s)
      BY <3>1, RecordsAre
    <3> QED
      BY <3>1, <3>2 DEF NoEntry
  <2>4. records \subseteq Handled
    BY <2>1, <2>2 DEF ToSet
  <2>5. \A r \in Handled \ records : lines[r.no] = "byPid"
    BY <2>1, <2>3
  <2> HIDE DEF records, s
  <2> QED
    BY <2>1, <2>4, <2>5
<1> QED
  BY <1>1, ChannelInvariant, PTL

(* Shutdown derives every line it has teed before it is down: no line is   *)
(* left in the buffer or in the chain, and no entry open.                  *)
THEOREM ShutdownLeavesNothing == Spec => []ShutdownDrains
<1>1. ASSUME ChannelInv PROVE ShutdownDrains
  <2> SUFFICES ASSUME phase = "down", received = drainTo, "long" \notin ToSet(lines)
               PROVE  rawLineNo = (received + 1) \div 2 /\ pending = NoEntry
    BY DEF ShutdownDrains
  <2>1. Whole
    BY DEF Whole, Wired
  <2>2. rawLineNo + Len(work) = (received + 1) \div 2 /\ work = <<>>
    BY <1>1, <2>1 DEF ChannelInv, LinesInOrder, Late
  <2>3. rawLineNo \in Nat
    BY <1>1, LogsAreBounded DEF ChannelInv, ChannelTypeOK
  <2>4. pending = NoEntry
    BY <1>1, <2>1 DEF ChannelInv, NothingOpen
  <2> QED
    BY <2>2, <2>3, <2>4
<1> QED
  BY <1>1, ChannelInvariant, PTL
-----------------------------------------------------------------------------
(* What a replay of a raw file computes.                                   *)

(* The sums over the beginnings of a log.                                  *)
LEMMA SumsAre ==
  ASSUME NEW s \in Seq(Kind), NEW width \in [Kind -> Nat]
  PROVE  \E f \in [0 .. Len(s) -> Nat] :
            /\ f[0] = 0
            /\ \A k \in 1 .. Len(s) : f[k] = f[k - 1] + width[s[k]] + 1
            /\ SumOver(s, width) = f[Len(s)]
<1> DEFINE n == Len(s)
           step == [k \in 1 .. n |-> [v \in Nat |-> v + width[s[k]] + 1]]
           Iter(g) == g = [t \in SUBSET (DOMAIN s) |->
                             IF t = {} THEN 0
                             ELSE g[t \ {Max(t)}] + width[s[Max(t)]] + 1]
<1>1. n \in Nat /\ DOMAIN s = 1 .. n /\ \A k \in 1 .. n : s[k] \in Kind
  OBVIOUS
<1>2. step \in [1 .. n -> [Nat -> Nat]]
  BY <1>1
<1>3. PICK some : Iterates(some, n, Nat, 0, step)
  <2> HIDE DEF n, step
  <2> QED
    BY <1>1, <1>2, IterExists
<1>4. \E g : Iter(g)
  <2>1. \A t \in SUBSET (1 .. n) : t # {} => Max(t) \in 1 .. n
    <3> HIDE DEF n
    <3> QED
      BY <1>1, MaxOf
  <2>2. Iter(some)
    BY <1>1, <1>3, <2>1 DEF Iterates
  <2> QED
    BY <2>2
<1>5. PICK g : Iter(g) /\ SumOver(s, width) = g[DOMAIN s]
  BY <1>4, Zenon DEF SumOver, FoldLeft, MapThenFoldSet
<1> DEFINE f == [k \in 0 .. n |-> g[1 .. k]]
<1>6. f[0] = 0
  <2>1. 1 .. 0 = {} /\ {} \in SUBSET (DOMAIN s) /\ 0 \in 0 .. n
    BY <1>1
  <2> QED
    BY <1>5, <2>1
<1>7. ASSUME NEW k \in 1 .. n
      PROVE  f[k] = f[k - 1] + width[s[k]] + 1
  <2>1. /\ 1 .. k \in SUBSET (DOMAIN s) /\ 1 .. k # {}
        /\ Max(1 .. k) = k /\ (1 .. k) \ {k} = 1 .. (k - 1)
    <3> HIDE DEF n
    <3> QED
      BY <1>1, Beginnings
  <2>2. g[1 .. k] = g[1 .. (k - 1)] + width[s[k]] + 1
    BY <1>5, <2>1
  <2>3. k \in 0 .. n /\ k - 1 \in 0 .. n
    BY <1>1
  <2> QED
    BY <2>2, <2>3
<1>8. f \in [0 .. n -> Nat]
  <2> DEFINE T == {k \in 0 .. n : f[k] \in Nat}
  <2>1. 0 \in T
    BY <1>1, <1>6
  <2>2. \A k \in 1 .. n : k - 1 \in T => k \in T
    <3> HIDE DEF f
    <3>1. \A k \in 1 .. n : k \in 0 .. n /\ width[s[k]] \in Nat
      BY <1>1
    <3> QED
      BY <3>1, <1>7
  <2>3. \A k \in 0 .. n : k \in T
    <3> HIDE DEF T
    <3> QED
      BY <1>1, <2>1, <2>2, UpTo
  <2> QED
    BY <2>3
<1>9. SumOver(s, width) = f[n]
  BY <1>1, <1>5
<1> HIDE DEF f
<1> QED
  BY <1>6, <1>7, <1>8, <1>9

(* The sum over a beginning is where the sums have got to.                 *)
LEMMA SumsOfBeginnings ==
  ASSUME NEW s \in Seq(Kind), NEW width \in [Kind -> Nat]
  PROVE  \E f \in [0 .. Len(s) -> Nat] :
            /\ f[0] = 0
            /\ \A k \in 1 .. Len(s) : f[k] = f[k - 1] + width[s[k]] + 1
            /\ \A k \in 0 .. Len(s) : SumOver(SubSeq(s, 1, k), width) = f[k]
<1> DEFINE n == Len(s)
<1>1. n \in Nat
  OBVIOUS
<1>2. PICK f \in [0 .. n -> Nat] :
         /\ f[0] = 0
         /\ \A k \in 1 .. n : f[k] = f[k - 1] + width[s[k]] + 1
  BY SumsAre
<1>3. ASSUME NEW k \in 0 .. n
      PROVE  SumOver(SubSeq(s, 1, k), width) = f[k]
  <2> DEFINE u == SubSeq(s, 1, k)
  <2>1. u \in Seq(Kind) /\ Len(u) = k /\ \A i \in 1 .. k : u[i] = s[i]
    BY <1>1
  <2> HIDE DEF u
  <2>2. PICK g \in [0 .. k -> Nat] :
           /\ g[0] = 0
           /\ \A i \in 1 .. k : g[i] = g[i - 1] + width[u[i]] + 1
           /\ SumOver(u, width) = g[k]
    BY <2>1, SumsAre
  <2> DEFINE T == {i \in 0 .. k : g[i] = f[i]}
  <2>3. 0 \in T
    BY <1>2, <2>2
  <2>4. ASSUME NEW i \in 1 .. k, i - 1 \in T
        PROVE  i \in T
    <3>1. i \in 1 .. n /\ i \in 0 .. k
      BY <1>1
    <3>2. /\ g[i] = g[i - 1] + width[s[i]] + 1
          /\ f[i] = f[i - 1] + width[s[i]] + 1
      BY <3>1, <1>2, <2>1, <2>2
    <3>3. g[i - 1] = f[i - 1]
      BY <2>4
    <3> QED
      BY <3>1, <3>2, <3>3
  <2>5. \A i \in 0 .. k : i \in T
    <3>1. k \in Nat
      BY <1>1
    <3> HIDE DEF T
    <3> QED
      BY <3>1, <2>3, <2>4, UpTo
  <2>6. g[k] = f[k]
    BY <2>5, <1>1
  <2> QED
    BY <2>2, <2>6 DEF u
<1> QED
  BY <1>2, <1>3

(* Sums grow with each line, by more than one but for a blank one.         *)
LEMMA SumsGrow ==
  ASSUME NEW n \in Nat, NEW f \in [0 .. n -> Nat],
         \A k \in 1 .. n : f[k - 1] < f[k],
         NEW i \in 0 .. n
  PROVE  \A j \in i .. n : f[i] + (j - i) <= f[j]
<1> DEFINE T == {d \in 0 .. n - i : f[i] + d <= f[i + d]}
           m == n - i
<1>1. m \in Nat /\ 0 \in T
  OBVIOUS
<1>2. \A d \in 1 .. m : d - 1 \in T => d \in T
  <2> SUFFICES ASSUME NEW d \in 1 .. m, d - 1 \in T
               PROVE  d \in T
    OBVIOUS
  <2>1. /\ i + d \in 1 .. n /\ (i + d) - 1 = i + (d - 1) /\ d \in 0 .. n - i
        /\ i + d \in 0 .. n /\ i + (d - 1) \in 0 .. n /\ d \in Int /\ i \in Int
    OBVIOUS
  <2>2. f[i + (d - 1)] < f[i + d] /\ f[i + (d - 1)] \in Nat /\ f[i + d] \in Nat
    BY <2>1
  <2>3. f[i] + (d - 1) <= f[i + (d - 1)] /\ f[i] \in Nat
    OBVIOUS
  <2> QED
    BY <2>1, <2>2, <2>3
<1>3. \A d \in 0 .. m : d \in T
  <2> HIDE DEF T, m
  <2> QED
    BY <1>1, <1>2, UpTo
<1> SUFFICES ASSUME NEW j \in i .. n
             PROVE  f[i] + (j - i) <= f[j]
  OBVIOUS
<1>4. j - i \in T /\ i + (j - i) = j
  BY <1>3
<1> QED
  BY <1>4

(* The loop ends early at most before the last line, a blank one that was  *)
(* cut, unless there are wide lines.                                       *)
LEMMA StopsAtTheEnd ==
  ASSUME NEW s \in Seq(Kind), NEW cut \in BOOLEAN, NEW i \in 1 .. Len(s),
         ~{"wide", "blank"} \subseteq ToSet(s), StopsAt(s, cut, i)
  PROVE  i = Len(s) /\ s[i] = "blank"
<1> DEFINE n == Len(s)
<1>1. n \in Nat /\ i \in 1 .. n /\ s[i] = "blank" /\ i \in DOMAIN s
  BY DEF StopsAt
<1>2. Units \in [Kind -> Nat] /\ Bytes \in [Kind -> Nat]
  BY DEF Units, Bytes
<1>3. \A k \in 1 .. n : s[k] \in Kind /\ Bytes[s[k]] = Units[s[k]]
  <2> SUFFICES ASSUME NEW k \in 1 .. n
               PROVE  s[k] \in Kind /\ Bytes[s[k]] = Units[s[k]]
    OBVIOUS
  <2>1. s[k] \in Kind /\ s[k] # "wide"
    BY <1>1 DEF ToSet
  <2> QED
    BY <2>1 DEF Bytes
<1>4. PICK f \in [0 .. n -> Nat] :
         /\ f[0] = 0
         /\ \A k \in 1 .. n : f[k] = f[k - 1] + Units[s[k]] + 1
         /\ \A k \in 0 .. n : SumOver(SubSeq(s, 1, k), Units) = f[k]
  BY <1>2, SumsOfBeginnings
<1>5. PICK g \in [0 .. n -> Nat] :
         /\ g[0] = 0
         /\ \A k \in 1 .. n : g[k] = g[k - 1] + Bytes[s[k]] + 1
         /\ \A k \in 0 .. n : SumOver(SubSeq(s, 1, k), Bytes) = g[k]
  BY <1>2, SumsOfBeginnings
<1>6. \A k \in 0 .. n : f[k] = g[k]
  <2> DEFINE T == {k \in 0 .. n : f[k] = g[k]}
  <2>1. 0 \in T
    BY <1>1, <1>4, <1>5
  <2>2. \A k \in 1 .. n : k - 1 \in T => k \in T
    BY <1>1, <1>3, <1>4, <1>5
  <2>3. \A k \in 0 .. n : k \in T
    <3> HIDE DEF T
    <3> QED
      BY <1>1, <2>1, <2>2, UpTo
  <2> QED
    BY <2>3
<1>7. /\ i - 1 \in 0 .. n /\ i \in 0 .. n /\ n \in 0 .. n /\ n \in i .. n
      /\ SubSeq(s, 1, n) = s
  BY <1>1
<1>8. f[i - 1] >= f[n] - (IF cut THEN 1 ELSE 0)
  <2>1. SumOver(SubSeq(s, 1, i - 1), Bytes) = f[i - 1]
    BY <1>5, <1>6, <1>7
  <2>2. SumOver(s, Units) = f[n]
    BY <1>4, <1>7
  <2> HIDE DEF n
  <2> QED
    BY <2>1, <2>2 DEF StopsAt, TextLength
<1>9. f[i] = f[i - 1] + 1
  <2>1. Units["blank"] = 0
    BY DEF Units, Kind
  <2>2. f[i] = f[i - 1] + Units["blank"] + 1
    BY <1>1, <1>4
  <2>3. f[i - 1] \in Nat
    BY <1>1
  <2> QED
    BY <2>1, <2>2, <2>3
<1>10. f[i] + (n - i) <= f[n]
  <2>1. \A k \in 1 .. n : f[k - 1] < f[k]
    <3> SUFFICES ASSUME NEW k \in 1 .. n
                 PROVE  f[k - 1] < f[k]
      OBVIOUS
    <3>1. f[k] = f[k - 1] + Units[s[k]] + 1
      BY <1>4
    <3>2. Units[s[k]] \in Nat
      BY <1>2, <1>3
    <3>3. f[k - 1] \in Nat
      BY <1>1
    <3> QED
      BY <3>1, <3>2, <3>3
  <2> HIDE DEF n
  <2> QED
    BY <1>1, <1>7, <2>1, SumsGrow
<1> QED
  <2>1. f[i - 1] \in Nat /\ f[i] \in Nat /\ f[n] \in Nat
    BY <1>7
  <2> HIDE DEF n
  <2>2. i = n
    BY <1>1, <1>8, <1>9, <1>10, <2>1
  <2> QED
    BY <1>1, <2>2 DEF n

(* What the loop reads has the records and the marks of the file.          *)
LEMMA ReadsItAll ==
  ASSUME NEW s \in Seq(Kind), NEW cut \in BOOLEAN,
         ~{"wide", "blank"} \subseteq ToSet(s)
  PROVE  /\ RecordsOf(ReplayedLines(s, cut)) = RecordsOf(s)
         /\ MarksOf(ReplayedLines(s, cut)) = MarksOf(s)
<1> DEFINE stops == {i \in 1 .. Len(s) : StopsAt(s, cut, i)}
           r == ReplayedLines(s, cut)
<1>1. CASE stops = {}
  <2>1. r = s
    BY <1>1 DEF ReplayedLines
  <2> QED
    BY <2>1
<1>2. CASE stops # {}
  <2>1. \A i \in stops : i = Len(s) /\ s[i] = "blank"
    BY StopsAtTheEnd
  <2>2. stops = {Len(s)} /\ s[Len(s)] = "blank" /\ Len(s) \in Nat \ {0}
    BY <1>2, <2>1
  <2>3. (CHOOSE i \in stops : \A j \in stops : i <= j) = Len(s)
    BY <2>2
  <2>4. r = SubSeq(s, 1, Len(s) - 1)
    BY <1>2, <2>3 DEF ReplayedLines
  <2> HIDE DEF r
  <2>5. r \in Seq(Kind) /\ Len(s) = Len(r) + 1 /\ \A i \in 1 .. Len(r) : s[i] = r[i]
    <3> DEFINE m == Len(s) - 1
    <3>1. m \in 0 .. Len(s) /\ Len(s) = m + 1 /\ r = SubSeq(s, 1, m)
      BY <2>2, <2>4
    <3> HIDE DEF m
    <3>2. r \in Seq(Kind) /\ Len(r) = m /\ \A i \in 1 .. m : r[i] = s[i]
      BY <3>1
    <3> QED
      BY <3>1, <3>2
  <2>6. Parse(s[Len(s)]) = "blank" /\ ~HasSignature(s[Len(s)])
    BY <2>2 DEF Parse, HasSignature, Entries, Joins, Signatures
  <2>7. RecordsOf(s) = RecordsOf(r) /\ MarksOf(s) = MarksOf(r)
    BY <2>5, <2>6, BlankIsNone, MarksGrow
  <2> QED
    BY <2>7 DEF r
<1> QED
  BY <1>1, <1>2

(* A part of the file is always read.                                      *)
LEMMA ReadsABeginning ==
  ASSUME NEW s \in Seq(Kind), NEW cut \in BOOLEAN
  PROVE  /\ ReplayedLines(s, cut) \in Seq(Kind)
         /\ Len(ReplayedLines(s, cut)) <= Len(s)
<1> DEFINE stops == {i \in 1 .. Len(s) : StopsAt(s, cut, i)}
           first == CHOOSE i \in stops : \A j \in stops : i <= j
<1>1. CASE stops = {}
  BY <1>1 DEF ReplayedLines
<1>2. CASE stops # {}
  <2>1. stops \in SUBSET Nat
    OBVIOUS
  <2>2. \E i \in stops : \A j \in stops : i <= j
    <3> HIDE DEF stops
    <3> QED
      BY <1>2, <2>1, LeastOf
  <2>3. first \in 1 .. Len(s)
    BY <2>2
  <2>4. ReplayedLines(s, cut) = SubSeq(s, 1, first - 1)
    BY <1>2 DEF ReplayedLines
  <2> HIDE DEF first
  <2> QED
    BY <2>3, <2>4
<1> QED
  BY <1>1, <1>2

(* What a replay is at, of whatever file.                                  *)
OpenRecord == [no : Nat, lines : SUBSET Nat]
Parsing    == [no : Nat, marks : Seq(Nat), out : Seq(OpenRecord),
               pending : OpenRecord]
Unparsed   == [no |-> 0, marks |-> <<>>, out |-> <<>>, pending |-> NoEntry]

LEMMA ReplayLineTypes ==
  ASSUME NEW p \in Parsing, NEW kind \in Kind
  PROVE  ReplayLine(p, kind) \in Parsing
<1> DEFINE q == ReplayLine(p, kind)
           no == p.no + 1
<1>1. p.no \in Nat /\ no \in Nat /\ p.marks \in Seq(Nat)
  BY DEF Parsing
<1>2. p.out \in Seq(OpenRecord) /\ p.pending \in OpenRecord
  BY DEF Parsing
<1>3. p.pending.no \in Nat /\ p.pending.lines \in SUBSET Nat
      /\ p.pending = [no |-> p.pending.no, lines |-> p.pending.lines]
  BY <1>2 DEF OpenRecord
<1>4. q = [no |-> q.no, marks |-> q.marks, out |-> q.out, pending |-> q.pending]
  BY DEF ReplayLine
<1>5. q.no = no /\ q.marks \in Seq(Nat)
  BY <1>1 DEF ReplayLine
<1>6. q.out \in Seq(OpenRecord)
  <2>1. q.out = IF Parse(kind) = "entry" /\ p.pending # NoEntry
                THEN Append(p.out, p.pending) ELSE p.out
    BY DEF ReplayLine
  <2> HIDE DEF q
  <2> QED
    BY <1>2, <2>1
<1>7. q.pending \in OpenRecord
  <2>1. q.pending = CASE Parse(kind) = "entry" -> [no |-> no, lines |-> {no}]
                      [] Parse(kind) = "continuation" /\ p.pending # NoEntry ->
                             [p.pending EXCEPT !.lines = @ \union {no}]
                      [] OTHER -> p.pending
    BY DEF ReplayLine
  <2>2. [no |-> no, lines |-> {no}] \in OpenRecord
    BY <1>1 DEF OpenRecord
  <2>3. [p.pending EXCEPT !.lines = @ \union {no}] \in OpenRecord
    BY <1>1, <1>3 DEF OpenRecord
  <2> HIDE DEF q, no
  <2>4. Parse(kind) = "entry" => q.pending = [no |-> no, lines |-> {no}]
    BY <2>1
  <2>5. Parse(kind) = "continuation" /\ p.pending # NoEntry
          => q.pending = [p.pending EXCEPT !.lines = @ \union {no}]
    BY <2>1
  <2>6. Parse(kind) # "entry" /\ ~(Parse(kind) = "continuation" /\ p.pending # NoEntry)
          => q.pending = p.pending
    BY <2>1
  <2> QED
    BY <1>2, <2>2, <2>3, <2>4, <2>5, <2>6
<1> HIDE DEF q
<1>8. q \in Parsing
  BY <1>1, <1>4, <1>5, <1>6, <1>7 DEF Parsing
<1> QED
  BY <1>8 DEF q

(* The states a replay goes through, one line at a time.                   *)
LEMMA ParsingSteps ==
  ASSUME NEW s \in Seq(Kind)
  PROVE  \E f \in [0 .. Len(s) -> Parsing] :
            /\ f[0] = Unparsed
            /\ \A k \in 1 .. Len(s) : f[k] = ReplayLine(f[k - 1], s[k])
            /\ FoldLeft(ReplayLine, Unparsed, s) = f[Len(s)]
<1> DEFINE n == Len(s)
           step == [k \in 1 .. n |-> [v \in Parsing |-> ReplayLine(v, s[k])]]
           Iter(g) == g = [t \in SUBSET (DOMAIN s) |->
                             IF t = {} THEN Unparsed
                             ELSE ReplayLine(g[t \ {Max(t)}], s[Max(t)])]
<1>1. n \in Nat /\ DOMAIN s = 1 .. n /\ \A k \in 1 .. n : s[k] \in Kind
  OBVIOUS
<1>2. step \in [1 .. n -> [Parsing -> Parsing]]
  BY <1>1, ReplayLineTypes
<1>3. Unparsed \in Parsing
  <2>1. <<>> \in Seq(Nat) /\ <<>> \in Seq(OpenRecord) /\ NoEntry \in OpenRecord
    BY DEF OpenRecord, NoEntry
  <2> QED
    BY <2>1 DEF Unparsed, Parsing
<1>4. PICK some : Iterates(some, n, Parsing, Unparsed, step)
  <2> HIDE DEF n, step
  <2> QED
    BY <1>1, <1>2, <1>3, IterExists
<1>5. \E g : Iter(g)
  <2>1. \A t \in SUBSET (1 .. n) : t # {} => Max(t) \in 1 .. n
    <3> HIDE DEF n
    <3> QED
      BY <1>1, MaxOf
  <2>2. Iter(some)
    BY <1>1, <1>4, <2>1 DEF Iterates
  <2> QED
    BY <2>2
<1>6. PICK g : Iter(g) /\ FoldLeft(ReplayLine, Unparsed, s) = g[DOMAIN s]
  BY <1>5, Zenon DEF FoldLeft, MapThenFoldSet
<1> DEFINE f == [k \in 0 .. n |-> g[1 .. k]]
<1>7. f[0] = Unparsed
  <2>1. 1 .. 0 = {} /\ {} \in SUBSET (DOMAIN s) /\ 0 \in 0 .. n
    BY <1>1
  <2> QED
    BY <1>6, <2>1
<1>8. ASSUME NEW k \in 1 .. n
      PROVE  f[k] = ReplayLine(f[k - 1], s[k])
  <2>1. /\ 1 .. k \in SUBSET (DOMAIN s) /\ 1 .. k # {}
        /\ Max(1 .. k) = k /\ (1 .. k) \ {k} = 1 .. (k - 1)
    <3> HIDE DEF n
    <3> QED
      BY <1>1, Beginnings
  <2>2. g[1 .. k] = ReplayLine(g[1 .. (k - 1)], s[k])
    BY <1>6, <2>1
  <2>3. k \in 0 .. n /\ k - 1 \in 0 .. n
    BY <1>1
  <2> QED
    BY <2>2, <2>3
<1>9. f \in [0 .. n -> Parsing]
  <2> DEFINE T == {k \in 0 .. n : f[k] \in Parsing}
  <2>1. 0 \in T
    BY <1>1, <1>3, <1>7
  <2>2. \A k \in 1 .. n : k - 1 \in T => k \in T
    <3> HIDE DEF f
    <3>1. \A k \in 1 .. n : k \in 0 .. n
      BY <1>1
    <3> QED
      BY <1>1, <3>1, <1>8, ReplayLineTypes
  <2>3. \A k \in 0 .. n : k \in T
    <3> HIDE DEF T
    <3> QED
      BY <1>1, <2>1, <2>2, UpTo
  <2> QED
    BY <2>3
<1>10. FoldLeft(ReplayLine, Unparsed, s) = f[n]
  BY <1>1, <1>6
<1> HIDE DEF f
<1> QED
  BY <1>7, <1>8, <1>9, <1>10

(* A replay that has read s has its records, the last of them still open.  *)
HasRead(p, s) ==
  /\ p.no = Len(s)
  /\ \/ p.pending = NoEntry /\ RecordsOf(s) = {}
     \/ /\ p.pending \in RecordsOf(s)
        /\ \A r \in RecordsOf(s) : r.no <= p.pending.no
  /\ RecordsOf(s) = ToSet(p.out) \union ({p.pending} \ {NoEntry})
  /\ \A i \in DOMAIN p.out :
        /\ p.out[i].no < p.pending.no
        /\ \A j \in DOMAIN p.out : i < j => p.out[i].no < p.out[j].no
  /\ ToSet(p.marks) = MarksOf(s)

LEMMA ReplayLineReads ==
  ASSUME NEW s \in Seq(Kind), NEW t \in Seq(Kind), Len(t) = Len(s) + 1,
         \A i \in 1 .. Len(s) : t[i] = s[i],
         NEW p \in Parsing, HasRead(p, s)
  PROVE  HasRead(ReplayLine(p, t[Len(t)]), t)
<1> DEFINE kind == t[Len(t)]
           q    == ReplayLine(p, kind)
           no   == Len(t)
<1>1. /\ kind \in Kind /\ no \in Nat \ {0} /\ no = p.no + 1 /\ Len(s) = no - 1
      /\ Len(s) \in Nat
  BY DEF HasRead
<1>2. /\ q.no = no
      /\ q.marks = IF HasSignature(kind) THEN Append(p.marks, no) ELSE p.marks
      /\ q.out = IF Parse(kind) = "entry" /\ p.pending # NoEntry
                 THEN Append(p.out, p.pending) ELSE p.out
      /\ q.pending = CASE Parse(kind) = "entry" -> [no |-> no, lines |-> {no}]
                       [] Parse(kind) = "continuation" /\ p.pending # NoEntry ->
                              [p.pending EXCEPT !.lines = @ \union {no}]
                       [] OTHER -> p.pending
  BY <1>1 DEF ReplayLine
<1>3. /\ p.out \in Seq(OpenRecord) /\ p.marks \in Seq(Nat) /\ p.pending \in OpenRecord
  BY DEF Parsing
<1>4. /\ \/ p.pending = NoEntry /\ RecordsOf(s) = {}
         \/ /\ p.pending \in RecordsOf(s)
            /\ \A r \in RecordsOf(s) : r.no <= p.pending.no
      /\ RecordsOf(s) = ToSet(p.out) \union ({p.pending} \ {NoEntry})
      /\ \A i \in DOMAIN p.out :
           /\ p.out[i].no < p.pending.no
           /\ \A j \in DOMAIN p.out : i < j => p.out[i].no < p.out[j].no
      /\ ToSet(p.marks) = MarksOf(s)
  BY DEF HasRead
<1>5. \A r \in RecordsOf(s) : r.no \in 1 .. Len(s) /\ r.no < no /\ r # NoEntry
  <2> SUFFICES ASSUME NEW r \in RecordsOf(s)
               PROVE  r.no \in 1 .. Len(s) /\ r.no < no /\ r # NoEntry
    OBVIOUS
  <2>1. r.no \in 1 .. Len(s)
    BY RecordsAre
  <2> QED
    BY <2>1, <1>1 DEF NoEntry
<1>6. Parse(kind) \in {"entry", "continuation", "blank"}
  BY DEF Parse
<1> SUFFICES HasRead(q, t)
  OBVIOUS
<1> HIDE DEF q, kind, no
<1>11. q.no = Len(t)
  BY <1>2 DEF no
<1>7. ToSet(q.marks) = MarksOf(t)
  <2>1. MarksOf(t) = MarksOf(s) \union (IF HasSignature(kind) THEN {no} ELSE {})
    BY MarksGrow DEF kind, no
  <2>2. CASE HasSignature(kind)
    <3>1. q.marks = Append(p.marks, no) /\ p.marks \in Seq(Nat) /\ no \in Nat
      BY <1>1, <1>2, <1>3, <2>2
    <3>2. ToSet(Append(p.marks, no)) = ToSet(p.marks) \union {no}
      <4> DEFINE m == p.marks
                 N == Nat
      <4>1. m \in Seq(N) /\ no \in N
        BY <3>1
      <4> HIDE DEF m, N
      <4>2. ToSet(Append(m, no)) = ToSet(m) \union {no}
        BY <4>1, ToSetAppend
      <4> QED
        BY <4>2 DEF m
    <3> QED
      BY <2>1, <2>2, <3>1, <3>2, <1>4
  <2>3. CASE ~HasSignature(kind)
    BY <2>1, <2>3, <1>2, <1>4
  <2> QED
    BY <2>2, <2>3
<1>8. CASE Parse(kind) = "entry"
  <2>1. q.pending = [no |-> no, lines |-> {no}] /\ q.pending.no = no
    BY <1>2, <1>8
  <2>2. RecordsOf(t) = RecordsOf(s) \union {q.pending}
    BY <2>1, <1>8, EntryAdds DEF kind, no
  <2>3. q.pending # NoEntry
    BY <2>1, <1>1 DEF NoEntry
  <2>4. CASE p.pending = NoEntry
    <3>1. q.out = p.out /\ RecordsOf(s) = {}
      BY <2>4, <1>2, <1>4, <1>5
    <3>4. ToSet(p.out) = {}
      BY <3>1, <1>4
    <3>2. DOMAIN p.out = {}
      BY <3>4 DEF ToSet
    <3>5. RecordsOf(t) = {q.pending} /\ DOMAIN q.out = {} /\ ToSet(q.out) = {}
      BY <2>2, <3>1, <3>2, <3>4
    <3>6. q.pending \in RecordsOf(t) /\ \A r \in RecordsOf(t) : r.no <= q.pending.no
      BY <2>1, <3>5, <1>1
    <3>7. RecordsOf(t) = ToSet(q.out) \union ({q.pending} \ {NoEntry})
      BY <2>3, <3>5
    <3> QED
      BY <1>7, <1>11, <3>5, <3>6, <3>7 DEF HasRead
  <2>5. CASE p.pending # NoEntry
    <3>1. q.out = Append(p.out, p.pending) /\ p.pending \in RecordsOf(s)
      BY <2>5, <1>2, <1>4, <1>8
    <3>2. ToSet(q.out) = ToSet(p.out) \union {p.pending}
      BY <3>1, <1>3, ToSetAppend
    <3>3. RecordsOf(t) = ToSet(q.out) \union ({q.pending} \ {NoEntry})
      BY <2>2, <2>3, <2>5, <3>2, <1>4
    <3>4. \A r \in RecordsOf(t) : r.no <= q.pending.no
      BY <2>1, <2>2, <1>1, <1>5
    <3>5. /\ Len(p.out) \in Nat /\ Len(q.out) = Len(p.out) + 1
          /\ DOMAIN p.out = 1 .. Len(p.out) /\ DOMAIN q.out = 1 .. Len(q.out)
          /\ \A i \in 1 .. Len(p.out) : q.out[i] = p.out[i]
          /\ q.out[Len(p.out) + 1] = p.pending
      BY <3>1, <1>3
    <3>6. p.pending.no < no
      BY <3>1, <1>5
    <3>7. \A i \in DOMAIN q.out :
            /\ q.out[i].no < q.pending.no
            /\ \A j \in DOMAIN q.out : i < j => q.out[i].no < q.out[j].no
      <4> SUFFICES ASSUME NEW i \in DOMAIN q.out
                   PROVE  /\ q.out[i].no < q.pending.no
                          /\ \A j \in DOMAIN q.out : i < j => q.out[i].no < q.out[j].no
        OBVIOUS
      <4>1. CASE i \in 1 .. Len(p.out)
        <5>1. /\ p.out[i].no < p.pending.no /\ p.out[i].no \in Nat
              /\ \A j \in DOMAIN p.out : i < j => p.out[i].no < p.out[j].no
          <6>1. p.out[i] \in OpenRecord /\ i \in DOMAIN p.out
            BY <4>1, <3>5, <1>3
          <6> QED
            BY <6>1, <1>4 DEF OpenRecord
        <5>2. p.pending.no \in Nat
          BY <1>3 DEF OpenRecord
        <5>3. p.out[i].no < no
          BY <5>1, <5>2, <3>6, <1>1
        <5>4. ASSUME NEW j \in DOMAIN q.out, i < j
              PROVE  q.out[i].no < q.out[j].no
          <6>1. j \in 1 .. Len(p.out) \/ j = Len(p.out) + 1
            BY <3>5
          <6> QED
            BY <6>1, <5>1, <5>4, <3>5, <4>1
        <5> QED
          BY <4>1, <5>3, <5>4, <3>5, <2>1
      <4>2. CASE i = Len(p.out) + 1
        BY <4>2, <3>5, <3>6, <2>1
      <4> QED
        BY <4>1, <4>2, <3>5
    <3> QED
      BY <1>7, <1>11, <2>2, <3>3, <3>4, <3>7 DEF HasRead
  <2> QED
    BY <2>4, <2>5
<1>9. CASE Parse(kind) = "continuation"
  <2>1. q.out = p.out
    BY <1>2, <1>9
  <2>2. CASE p.pending = NoEntry
    <3>1. q.pending = NoEntry /\ RecordsOf(s) = {}
      BY <2>2, <1>2, <1>4, <1>5, <1>9
    <3>2. RecordsOf(t) = {}
      BY <3>1, <1>9, ContinuationJoins DEF kind, no
    <3>4. ToSet(p.out) = {}
      BY <3>1, <1>4
    <3>3. DOMAIN p.out = {}
      BY <3>4 DEF ToSet
    <3> QED
      BY <1>7, <1>11, <2>1, <3>1, <3>2, <3>3, <3>4 DEF HasRead
  <2>3. CASE p.pending # NoEntry
    <3>1. /\ p.pending \in RecordsOf(s)
          /\ \A r \in RecordsOf(s) : r.no <= p.pending.no
      BY <2>3, <1>4
    <3>2. q.pending = [p.pending EXCEPT !.lines = @ \union {no}]
      BY <2>3, <1>2, <1>9
    <3>3. q.pending = [no |-> p.pending.no, lines |-> p.pending.lines \union {no}]
      BY <3>2, <1>3 DEF OpenRecord
    <3>4. RecordsOf(t) = (RecordsOf(s) \ {p.pending}) \union {q.pending}
      <4>1. \A r \in RecordsOf(s) :
               (\A x \in RecordsOf(s) : x.no <= r.no) =>
                   RecordsOf(t) = (RecordsOf(s) \ {r}) \union
                       {[no |-> r.no, lines |-> r.lines \union {Len(t)}]}
        BY <1>9, ContinuationJoins DEF kind, no
      <4>2. RecordsOf(t) = (RecordsOf(s) \ {p.pending}) \union
               {[no |-> p.pending.no, lines |-> p.pending.lines \union {Len(t)}]}
        BY <4>1, <3>1
      <4> QED
        BY <4>2, <3>3 DEF no
    <3>5. q.pending.no = p.pending.no /\ p.pending.no \in Nat
      BY <3>3, <1>3 DEF OpenRecord
    <3>6. q.pending # NoEntry
      BY <3>5, <3>1, <1>5 DEF NoEntry
    <3>7. p.pending \notin ToSet(p.out)
      <4> SUFFICES ASSUME NEW i \in DOMAIN p.out, p.out[i] = p.pending
                   PROVE  FALSE
        BY DEF ToSet
      <4>1. p.out[i].no < p.pending.no
        BY <1>4
      <4> QED
        BY <4>1, <3>5
    <3>8. RecordsOf(t) = ToSet(q.out) \union ({q.pending} \ {NoEntry})
      BY <3>4, <3>6, <3>7, <2>1, <2>3, <1>4
    <3>9. \A r \in RecordsOf(t) : r.no <= q.pending.no
      BY <3>1, <3>4, <3>5
    <3>10. q.pending \in RecordsOf(t)
      BY <3>4
    <3> QED
      BY <1>4, <1>7, <1>11, <2>1, <3>5, <3>8, <3>9, <3>10 DEF HasRead
  <2> QED
    BY <2>2, <2>3
<1>10. CASE Parse(kind) = "blank"
  <2>1. q.out = p.out /\ q.pending = p.pending
    BY <1>2, <1>10
  <2>2. RecordsOf(t) = RecordsOf(s)
    BY <1>10, BlankIsNone DEF kind, no
  <2> QED
    BY <1>4, <1>7, <1>11, <2>1, <2>2 DEF HasRead
<1> QED
  BY <1>6, <1>8, <1>9, <1>10

(* A replay that has read all it reads.                                    *)
LEMMA ParsedHasRead ==
  ASSUME NEW s \in Seq(Kind), NEW cut \in BOOLEAN
  PROVE  Parsed(s, cut) \in Parsing /\ HasRead(Parsed(s, cut), ReplayedLines(s, cut))
<1> DEFINE u == ReplayedLines(s, cut)
           n == Len(u)
<1>1. u \in Seq(Kind) /\ n \in Nat
  BY ReadsABeginning
<1> HIDE DEF u
<1>2. PICK f \in [0 .. n -> Parsing] :
         /\ f[0] = Unparsed
         /\ \A k \in 1 .. n : f[k] = ReplayLine(f[k - 1], u[k])
         /\ FoldLeft(ReplayLine, Unparsed, u) = f[n]
  BY <1>1, ParsingSteps
<1> DEFINE T == {k \in 0 .. n : HasRead(f[k], SubSeq(u, 1, k))}
<1>3. 0 \in T
  <2>1. SubSeq(u, 1, 0) = <<>> /\ Len(<<>>) = 0
    BY <1>1
  <2>2. RecordsOf(<<>>) = {} /\ MarksOf(<<>>) = {} /\ ToSet(<<>>) = {}
    BY DEF RecordsOf, MarksOf, ToSet
  <2>3. HasRead(Unparsed, <<>>)
    BY <2>1, <2>2 DEF HasRead, Unparsed
  <2> QED
    BY <1>1, <1>2, <2>1, <2>3
<1>4. ASSUME NEW k \in 1 .. n, k - 1 \in T
      PROVE  k \in T
  <2> DEFINE v == SubSeq(u, 1, k - 1)
             w == SubSeq(u, 1, k)
  <2>1. k \in 0 .. n /\ k - 1 \in 0 .. n
    BY <1>1
  <2>2. /\ v \in Seq(Kind) /\ Len(v) = k - 1 /\ w \in Seq(Kind) /\ Len(w) = k
        /\ w[k] = u[k] /\ \A i \in 1 .. k - 1 : w[i] = v[i]
    BY <1>1, <2>1
  <2>3. f[k - 1] \in Parsing /\ HasRead(f[k - 1], v)
    BY <1>2, <1>4, <2>1
  <2> HIDE DEF v, w
  <2>4. HasRead(ReplayLine(f[k - 1], w[Len(w)]), w)
    BY <2>2, <2>3, ReplayLineReads
  <2>5. HasRead(f[k], w)
    BY <1>2, <2>2, <2>4
  <2> QED
    BY <2>1, <2>5 DEF w
<1>5. \A k \in 0 .. n : k \in T
  <2> HIDE DEF T, n
  <2> QED
    BY <1>1, <1>3, <1>4, UpTo
<1>6. HasRead(f[n], u) /\ f[n] \in Parsing
  <2>1. n \in T /\ SubSeq(u, 1, n) = u /\ n \in 0 .. n
    BY <1>1, <1>5
  <2> QED
    BY <2>1, <1>2
<1>7. Parsed(s, cut) = f[n]
  BY <1>2 DEF Parsed, Unparsed, u
<1> QED
  BY <1>6, <1>7 DEF u

(* The records and marks that a replay appends are those of the lines it   *)
(* reads, each record once.                                                *)
LEMMA ReplayIs ==
  ASSUME NEW s \in Seq(Kind), NEW cut \in BOOLEAN
  PROVE  /\ Replay(s, cut).out \in Seq(OpenRecord)
         /\ Replay(s, cut).marks \in Seq(Nat)
         /\ ToSet(Replay(s, cut).out) = RecordsOf(ReplayedLines(s, cut))
         /\ ToSet(Replay(s, cut).marks) = MarksOf(ReplayedLines(s, cut))
         /\ \A i, j \in DOMAIN Replay(s, cut).out :
               i < j => Replay(s, cut).out[i].no < Replay(s, cut).out[j].no
<1> DEFINE p == Parsed(s, cut)
           r == Replay(s, cut)
           u == ReplayedLines(s, cut)
<1>1. p \in Parsing /\ HasRead(p, u)
  BY ParsedHasRead
<1>2. /\ p.out \in Seq(OpenRecord) /\ p.marks \in Seq(Nat) /\ p.pending \in OpenRecord
      /\ p = [no |-> p.no, marks |-> p.marks, out |-> p.out, pending |-> p.pending]
  BY <1>1 DEF Parsing
<1>3. r = IF p.pending = NoEntry THEN p ELSE [p EXCEPT !.out = Append(@, p.pending)]
  BY DEF Replay
<1>4. /\ RecordsOf(u) = ToSet(p.out) \union ({p.pending} \ {NoEntry})
      /\ \A i \in DOMAIN p.out :
           /\ p.out[i].no < p.pending.no
           /\ \A j \in DOMAIN p.out : i < j => p.out[i].no < p.out[j].no
      /\ ToSet(p.marks) = MarksOf(u)
  BY <1>1 DEF HasRead
<1> SUFFICES /\ r.out \in Seq(OpenRecord) /\ r.marks \in Seq(Nat)
             /\ ToSet(r.out) = RecordsOf(u) /\ ToSet(r.marks) = MarksOf(u)
             /\ \A i, j \in DOMAIN r.out : i < j => r.out[i].no < r.out[j].no
  OBVIOUS
<1> HIDE DEF p, r, u
<1>5. CASE p.pending = NoEntry
  BY <1>2, <1>3, <1>4, <1>5
<1>6. CASE p.pending # NoEntry
  <2>1. r = [no |-> p.no, marks |-> p.marks, out |-> Append(p.out, p.pending),
             pending |-> p.pending]
    BY <1>2, <1>3, <1>6
  <2>2. r.marks = p.marks /\ r.out = Append(p.out, p.pending)
    BY <2>1
  <2> DEFINE o == p.out
             e == p.pending
             n == Len(o)
  <2>3. /\ o \in Seq(OpenRecord) /\ e \in OpenRecord /\ r.out = Append(o, e)
        /\ RecordsOf(u) = ToSet(o) \union {e}
        /\ \A i \in DOMAIN o : /\ o[i].no < e.no
                               /\ \A j \in DOMAIN o : i < j => o[i].no < o[j].no
    BY <1>2, <1>4, <1>6, <2>2
  <2> HIDE DEF o, e
  <2>4. ToSet(Append(o, e)) = ToSet(o) \union {e}
    BY <2>3, ToSetAppend
  <2>5. /\ n \in Nat /\ DOMAIN o = 1 .. n /\ DOMAIN r.out = 1 .. n + 1
        /\ r.out[n + 1] = e /\ \A i \in 1 .. n : r.out[i] = o[i]
        /\ r.out \in Seq(OpenRecord)
    BY <2>3
  <2>6. \A i, j \in DOMAIN r.out : i < j => r.out[i].no < r.out[j].no
    <3> SUFFICES ASSUME NEW i \in 1 .. n + 1, NEW j \in 1 .. n + 1, i < j
                 PROVE  r.out[i].no < r.out[j].no
      BY <2>5
    <3>1. i \in 1 .. n /\ (j \in 1 .. n \/ j = n + 1)
      BY <2>5
    <3> QED
      BY <3>1, <2>3, <2>5
  <2> QED
    BY <1>2, <1>4, <2>2, <2>3, <2>4, <2>5, <2>6
<1> QED
  BY <1>5, <1>6

-----------------------------------------------------------------------------
(* The replays after a crash.                                              *)

(* A sequence whose elements are all in T is one of T.                     *)
LEMMA SeqOfElements ==
  ASSUME NEW S, NEW T, NEW s \in Seq(S), ToSet(s) \subseteq T
  PROVE  s \in Seq(T)
<1>1. Len(s) \in Nat /\ DOMAIN s = 1 .. Len(s) /\ s = [i \in 1 .. Len(s) |-> s[i]]
  OBVIOUS
<1>2. \A i \in 1 .. Len(s) : s[i] \in T
  BY <1>1 DEF ToSet
<1>3. s \in [1 .. Len(s) -> T]
  BY <1>1, <1>2
<1> QED
  BY <1>1, <1>3

(* Taking the head of a sequence.                                          *)
LEMMA HeadAndTail ==
  ASSUME NEW S, NEW s \in Seq(S), s # <<>>
  PROVE  /\ Head(s) \in ToSet(s) /\ Head(s) \in S /\ Tail(s) \in Seq(S)
         /\ ToSet(s) = {Head(s)} \union ToSet(Tail(s))
<1> DEFINE n == Len(s)
           t == Tail(s)
<1>1. /\ n \in Nat \ {0} /\ DOMAIN s = 1 .. n /\ Head(s) = s[1] /\ t \in Seq(S)
      /\ Len(t) = n - 1 /\ DOMAIN t = 1 .. n - 1 /\ \A i \in 1 .. n - 1 : t[i] = s[i + 1]
  OBVIOUS
<1>2. s[1] \in S /\ 1 \in DOMAIN s
  BY <1>1
<1> HIDE DEF n, t
<1>3. ToSet(s) \subseteq {s[1]} \union ToSet(t)
  <2> SUFFICES ASSUME NEW i \in 1 .. n
               PROVE  s[i] \in {s[1]} \union ToSet(t)
    BY <1>1 DEF ToSet
  <2>1. CASE i = 1
    BY <2>1
  <2>2. CASE i # 1
    <3>1. i - 1 \in 1 .. n - 1 /\ (i - 1) + 1 = i
      BY <2>2, <1>1
    <3>2. t[i - 1] = s[i]
      BY <3>1, <1>1
    <3> QED
      BY <3>1, <3>2, <1>1 DEF ToSet
  <2> QED
    BY <2>1, <2>2
<1>4. ToSet(t) \subseteq ToSet(s)
  <2> SUFFICES ASSUME NEW i \in 1 .. n - 1
               PROVE  t[i] \in ToSet(s)
    BY <1>1 DEF ToSet
  <2>1. i + 1 \in 1 .. n
    BY <1>1
  <2> QED
    BY <2>1, <1>1 DEF ToSet
<1> QED
  BY <1>1, <1>2, <1>3, <1>4 DEF t, ToSet

(* What the raw file holds after a crash: the session_start line and a     *)
(* beginning of what the child has logged.                                 *)
LEMMA DiskIs ==
  ASSUME ChannelInv, phase = "crashed"
  PROVE  /\ DiskLines \in Seq(Kind) /\ Len(DiskLines) <= MaxLines + 1
         /\ DiskCut \in BOOLEAN
         /\ ToSet(DiskLines) \subseteq ToSet(lines) \union {"header"}
<1>1. /\ lines \in Seq(Kind) /\ disk \in Seq(Piece)
      /\ IsPrefix(disk, Pieces(0, 2 * Len(lines)))
  BY DEF ChannelInv, ChannelTypeOK, RawInv, RawIsTruth
<1>2. PICK log \in Logs : IsPrefix(lines, log)
  BY DEF ChannelInv, ChannelTypeOK
<1>3. MaxLines \in Nat /\ log \in Seq(Kind) /\ Len(log) <= MaxLines
  BY LogsAreBounded
<1>4. Len(lines) \in Nat /\ Len(lines) <= MaxLines
  <2>1. Len(lines) <= Len(log)
    BY <1>1, <1>2, <1>3, PrefixIs
  <2> QED
    BY <2>1, <1>1, <1>3
<1>5. Len(disk) \in Nat /\ Len(disk) <= 2 * Len(lines) + 1
  <2> DEFINE all == Pieces(0, 2 * Len(lines))
  <2>1. all \in Seq(Nat) /\ Len(all) = 2 * Len(lines) + 1
    <3> DEFINE to == 2 * Len(lines)
    <3>1. to \in Nat /\ 0 <= to + 1
      BY <1>4
    <3> HIDE DEF to
    <3>2. Pieces(0, to) \in Seq(Nat) /\ Len(Pieces(0, to)) = to - 0 + 1
      BY <3>1, PiecesAre
    <3> QED
      BY <3>1, <3>2 DEF to
  <2>2. disk \in Seq(Nat)
    BY <1>1, <1>3 DEF Piece
  <2> HIDE DEF all
  <2>3. Len(disk) <= Len(all)
    BY <1>1, <2>1, <2>2, PrefixIs DEF all
  <2> QED
    BY <2>1, <2>2, <2>3
<1>6. Len(disk) \div 2 \in 0 .. Len(lines)
  <2> DEFINE n == Len(lines)
             d == Len(disk)
  <2>1. n \in Nat /\ d \in Nat /\ d <= 2 * n + 1
    BY <1>4, <1>5
  <2> HIDE DEF n, d
  <2>2. d \div 2 \in 0 .. n
    BY <2>1
  <2> QED
    BY <2>2 DEF n, d
<1> DEFINE n == Len(disk) \div 2
           s == SubSeq(lines, 1, n)
<1>7. CASE disk = <<>>
  BY <1>7, <1>3 DEF DiskLines, DiskCut, ToSet
<1>8. CASE disk # <<>>
  <2>1. n \in 0 .. Len(lines)
    BY <1>6
  <2> HIDE DEF n
  <2>2. s \in Seq(Kind) /\ Len(s) = n /\ \A i \in 1 .. n : s[i] = lines[i]
    BY <1>1, <2>1
  <2>3. DiskLines = <<"header">> \o s
    BY <1>8 DEF DiskLines, n
  <2> HIDE DEF s
  <2>4. <<"header">> \in Seq(Kind) /\ Len(<<"header">>) = 1
    BY DEF Kind
  <2>5. /\ DiskLines \in Seq(Kind) /\ Len(DiskLines) = 1 + n
        /\ \A i \in 1 .. 1 + n : DiskLines[i] = IF i <= 1 THEN "header" ELSE s[i - 1]
    <3> DEFINE h == <<"header">>
    <3>1. h \in Seq(Kind) /\ Len(h) = 1 /\ h[1] = "header"
      BY <2>4
    <3> HIDE DEF h
    <3>2. /\ h \o s \in Seq(Kind) /\ Len(h \o s) = Len(h) + Len(s)
          /\ \A i \in 1 .. Len(h) + Len(s) :
                (h \o s)[i] = IF i <= Len(h) THEN h[i] ELSE s[i - Len(h)]
      BY <2>2, <3>1, ConcatProperties
    <3>3. DiskLines = h \o s
      BY <2>3 DEF h
    <3> QED
      BY <2>1, <2>2, <3>1, <3>2, <3>3
  <2>6. ToSet(DiskLines) \subseteq ToSet(lines) \union {"header"}
    <3> SUFFICES ASSUME NEW i \in 1 .. 1 + n
                 PROVE  DiskLines[i] \in ToSet(lines) \union {"header"}
      BY <2>5 DEF ToSet
    <3>1. CASE i <= 1
      BY <3>1, <2>5
    <3>2. CASE i > 1
      <4>1. i - 1 \in 1 .. n /\ i - 1 \in DOMAIN lines
        BY <3>2, <2>1, <1>1
      <4>2. DiskLines[i] = lines[i - 1]
        BY <4>1, <3>2, <2>1, <2>2, <2>5
      <4> QED
        BY <4>1, <4>2 DEF ToSet
    <3> QED
      BY <3>1, <3>2, <2>1
  <2>7. Len(DiskLines) <= MaxLines + 1
    BY <2>1, <2>5, <1>3, <1>4
  <2> QED
    BY <1>8, <2>5, <2>6, <2>7 DEF DiskCut
<1> QED
  BY <1>7, <1>8

(* What a replay of it appends, to either file.                            *)
LEMMA ReplayedIs ==
  ASSUME ChannelInv, phase = "crashed"
  PROVE  /\ Replayed.out \in Seq(Record)
         /\ Replayed.marks \in Seq(1 .. 2 * MaxLines + 2)
         /\ \A i, j \in DOMAIN Replayed.out :
               i < j => Replayed.out[i].no < Replayed.out[j].no
         /\ ~{"wide", "blank"} \subseteq ToSet(lines) =>
               /\ ToSet(Replayed.out) = RecordsOf(DiskLines)
               /\ ToSet(Replayed.marks) = MarksOf(DiskLines)
<1> DEFINE s == DiskLines
           cut == DiskCut
           r == Replay(s, cut)
           u == ReplayedLines(s, cut)
<1>1. /\ s \in Seq(Kind) /\ Len(s) <= MaxLines + 1 /\ cut \in BOOLEAN
      /\ ToSet(s) \subseteq ToSet(lines) \union {"header"}
  BY DiskIs
<1>2. MaxLines \in Nat
  BY LogsAreBounded
<1> HIDE DEF s, cut
<1>3. /\ r.out \in Seq(OpenRecord) /\ r.marks \in Seq(Nat)
      /\ ToSet(r.out) = RecordsOf(u) /\ ToSet(r.marks) = MarksOf(u)
      /\ \A i, j \in DOMAIN r.out : i < j => r.out[i].no < r.out[j].no
  BY <1>1, ReplayIs
<1>4. u \in Seq(Kind) /\ Len(u) <= Len(s) /\ Len(u) \in Nat /\ Len(s) \in Nat
  BY <1>1, ReadsABeginning
<1>5. Replayed = r
  BY DEF Replayed, s, cut
<1> HIDE DEF r, u
<1>6. RecordsOf(u) \subseteq Record
  <2> SUFFICES ASSUME NEW e \in RecordsOf(u)
               PROVE  e \in Record
    OBVIOUS
  <2>1. PICK i \in 1 .. Len(u) : e = [no |-> i, lines |-> Body(u, i)]
    BY DEF RecordsOf
  <2>2. Body(u, i) \subseteq 1 .. Len(u)
    BY <1>4 DEF Body
  <2>3. i \in 1 .. 2 * MaxLines + 2 /\ 1 .. Len(u) \subseteq 1 .. MaxLines + 1
    BY <1>1, <1>2, <1>4
  <2>4. Body(u, i) \in SUBSET (1 .. MaxLines + 1)
    BY <2>2, <2>3
  <2> QED
    BY <2>1, <2>3, <2>4 DEF Record
<1>7. MarksOf(u) \subseteq 1 .. 2 * MaxLines + 2
  BY <1>1, <1>2, <1>4 DEF MarksOf
<1>8. r.out \in Seq(Record)
  BY <1>3, <1>6, SeqOfElements
<1>9. r.marks \in Seq(1 .. 2 * MaxLines + 2)
  <2> DEFINE m == r.marks
             N == Nat
             T == 1 .. 2 * MaxLines + 2
  <2>1. m \in Seq(N) /\ ToSet(m) \subseteq T
    BY <1>3, <1>7
  <2> HIDE DEF m, N, T
  <2>2. m \in Seq(T)
    BY <2>1, SeqOfElements
  <2> QED
    BY <2>2 DEF m, T
<1>10. ASSUME ~{"wide", "blank"} \subseteq ToSet(lines)
       PROVE  RecordsOf(u) = RecordsOf(s) /\ MarksOf(u) = MarksOf(s)
  <2>1. ~{"wide", "blank"} \subseteq ToSet(s)
    BY <1>1, <1>10
  <2> QED
    BY <1>1, <2>1, ReadsItAll DEF u
<1> QED
  BY <1>3, <1>5, <1>8, <1>9, <1>10 DEF s

(* A replay is the only one to write to the derived files after a crash.   *)
LEMMA ReplaySteps ==
  ASSUME [Next]_vars, phase = "crashed"
  PROVE  /\ UNCHANGED <<phase, lines, disk>>
         /\ \/ UNCHANGED <<jsonl, marks, replay>>
            \/ \E p \in Recoverer : \/ ReplayTruncates(p) \/ ReplayAppends(p)
                                    \/ ReplayEnds(p) \/ ReplayDies(p)
<1> USE TRUE DEF vars, Starting, Wired, Closed, Alive, PhaseMoves, Reads,
        childVars, rawVars, workerVars, derived
<1>1. CASE UNCHANGED vars
  BY <1>1
<1>2. CASE \E p \in Recoverer : \/ ReplayTruncates(p) \/ ReplayAppends(p)
                                \/ ReplayEnds(p) \/ ReplayDies(p)
  BY <1>2 DEF ReplayTruncates, ReplayBegins, ReplayAppends, ReplayEnds, ReplayDies
<1> QED
  BY <1>1, <1>2 DEF Next, StartSteps, ChildSteps, RawSteps, WorkSteps,
     ShutdownSteps, GetAppUid, SpawnChild, OpenRaw, StartFails, ChildExits,
     ChildCloses, FlushStart, FlushDone, FlushFails, ProcessChunk,
     ProcessLine, GraceEnds, CloseSeen, Finish, FinishLine, FinishEntry,
     CloseRaw, FlushTick, PollPids, Shutdown, Crash, OnChunk

(* Before it, no replay begins.                                            *)
LEMMA ReplaysIdle ==
  ASSUME ChannelInv, [Next]_vars, phase # "crashed"
  PROVE  /\ replay' = replay
         /\ phase' = "crashed" => UNCHANGED <<jsonl, marks>>
<1> USE TRUE DEF vars, childVars, rawVars, workerVars, derived
<1>1. \A p \in Recoverer : replay[p] = Idle
  BY DEF ChannelInv, ReplaysWait
<1>2. \A p \in Recoverer : ~ReplayAppends(p) /\ ~ReplayEnds(p) /\ ~ReplayDies(p)
  BY <1>1 DEF ReplayAppends, ReplayEnds, ReplayDies, Idle
<1>3. \A p \in Recoverer : ~ReplayTruncates(p)
  BY DEF ReplayTruncates, ReplayBegins
<1>4. replay' = replay
  BY <1>2, <1>3 DEF Next, StartSteps, ChildSteps, RawSteps, WorkSteps,
     ShutdownSteps, GetAppUid, SpawnChild, OpenRaw, StartFails, ChildExits,
     ChildCloses, FlushStart, FlushDone, FlushFails, ProcessChunk,
     ProcessLine, GraceEnds, CloseSeen, Finish, FinishLine, FinishEntry,
     CloseRaw, FlushTick, PollPids, Shutdown, Crash, OnChunk
<1>5. phase' = "crashed" => UNCHANGED <<jsonl, marks>>
  BY PhaseSteps DEF Crash
<1> QED
  BY <1>4, <1>5

ReplayState == [at : {"idle", "appending", "done", "dead"},
                todo : Seq(Record), todoMarks : Seq(1 .. 2 * MaxLines + 2)]

(* The derived files and the replays keep their types.                     *)
LEMMA TypeOKStep ==
  ASSUME ChannelInv, ReplayInv, ChannelInv', [Next]_vars
  PROVE  TypeOK'
<1> DEFINE N == 1 .. 2 * MaxLines + 2
<1>1. /\ jsonl \in Seq(Record) /\ marks \in Seq(N)
      /\ replay \in [Recoverer -> ReplayState]
  BY DEF ReplayInv, TypeOK, ReplayState
<1>2. ChannelTypeOK'
  BY DEF ChannelInv
<1> SUFFICES /\ jsonl' \in Seq(Record) /\ marks' \in Seq(N)
             /\ replay' \in [Recoverer -> ReplayState]
  BY <1>2 DEF TypeOK, ReplayState, Record, MaxLines
<1>3. CASE phase # "crashed"
  <2>1. replay' = replay /\ (phase' = "crashed" => UNCHANGED <<jsonl, marks>>)
    BY <1>3, ReplaysIdle
  <2>2. phase' # "crashed" => jsonl' \in Seq(Record) /\ marks' \in Seq(N)
    BY DEF ChannelInv, DerivedTypes, Record, MaxLines
  <2> QED
    BY <1>1, <2>1, <2>2
<1>4. CASE phase = "crashed"
  <2>1. \/ UNCHANGED <<jsonl, marks, replay>>
        \/ \E p \in Recoverer : \/ ReplayTruncates(p) \/ ReplayAppends(p)
                                \/ ReplayEnds(p) \/ ReplayDies(p)
    BY <1>4, ReplaySteps
  <2>2. CASE UNCHANGED <<jsonl, marks, replay>>
    BY <2>2, <1>1
  <2>3. ASSUME NEW p \in Recoverer, ReplayTruncates(p)
        PROVE  /\ jsonl' \in Seq(Record) /\ marks' \in Seq(N)
               /\ replay' \in [Recoverer -> ReplayState]
    <3> DEFINE e == [at |-> "appending", todo |-> Replayed.out,
                     todoMarks |-> Replayed.marks]
    <3>1. jsonl' = <<>> /\ marks' = <<>> /\ replay' = [replay EXCEPT ![p] = e]
      BY <2>3 DEF ReplayTruncates, ReplayBegins, Replayed
    <3>2. e \in ReplayState
      BY <1>4, ReplayedIs DEF ReplayState
    <3> HIDE DEF e
    <3> QED
      BY <1>1, <3>1, <3>2
  <2>4. ASSUME NEW p \in Recoverer, ReplayAppends(p)
        PROVE  /\ jsonl' \in Seq(Record) /\ marks' \in Seq(N)
               /\ replay' \in [Recoverer -> ReplayState]
    <3>1. /\ replay[p] \in ReplayState
          /\ replay[p].todo \in Seq(Record) /\ replay[p].todoMarks \in Seq(N)
      BY <1>1 DEF ReplayState
    <3>2. CASE /\ replay[p].todo # <<>>
               /\ jsonl' = Append(jsonl, Head(replay[p].todo))
               /\ replay' = [replay EXCEPT ![p].todo = Tail(@)]
               /\ marks' = marks
      <4> DEFINE t == replay[p].todo
                 e == [replay[p] EXCEPT !.todo = Tail(t)]
      <4>1. Head(t) \in Record /\ Tail(t) \in Seq(Record)
        BY <3>1, <3>2, HeadAndTail
      <4>2. replay' = [replay EXCEPT ![p] = e]
        BY <3>2
      <4>3. e \in ReplayState
        BY <3>1, <4>1 DEF ReplayState
      <4> HIDE DEF e
      <4>4. replay' \in [Recoverer -> ReplayState]
        BY <1>1, <4>2, <4>3
      <4> QED
        BY <1>1, <3>2, <4>1, <4>4
    <3>3. CASE /\ replay[p].todoMarks # <<>>
               /\ marks' = Append(marks, Head(replay[p].todoMarks))
               /\ replay' = [replay EXCEPT ![p].todoMarks = Tail(@)]
               /\ jsonl' = jsonl
      <4> DEFINE t == replay[p].todoMarks
                 e == [replay[p] EXCEPT !.todoMarks = Tail(t)]
      <4>1. Head(t) \in N /\ Tail(t) \in Seq(N)
        <5>1. t \in Seq(N) /\ t # <<>>
          BY <3>1, <3>3
        <5> HIDE DEF t, N
        <5> QED
          BY <5>1, HeadAndTail
      <4>2. replay' = [replay EXCEPT ![p] = e]
        BY <3>3
      <4>3. e \in ReplayState
        BY <3>1, <4>1 DEF ReplayState
      <4> HIDE DEF e
      <4>4. replay' \in [Recoverer -> ReplayState]
        BY <1>1, <4>2, <4>3
      <4> QED
        BY <1>1, <3>3, <4>1, <4>4
    <3> QED
      BY <2>4, <3>2, <3>3 DEF ReplayAppends
  <2>5. ASSUME NEW p \in Recoverer, ReplayEnds(p) \/ ReplayDies(p)
        PROVE  /\ jsonl' \in Seq(Record) /\ marks' \in Seq(N)
               /\ replay' \in [Recoverer -> ReplayState]
    <3>1. /\ UNCHANGED <<jsonl, marks>>
          /\ \/ replay' = [replay EXCEPT ![p].at = "done"]
             \/ replay' = [replay EXCEPT ![p] = [Idle EXCEPT !.at = "dead"]]
      BY <2>5 DEF ReplayEnds, ReplayDies, derived
    <3>2. [Idle EXCEPT !.at = "dead"] \in ReplayState
      <4>1. <<>> \in Seq(Record) /\ <<>> \in Seq(N)
        OBVIOUS
      <4>2. [Idle EXCEPT !.at = "dead"]
                = [at |-> "dead", todo |-> <<>>, todoMarks |-> <<>>]
        BY DEF Idle
      <4> HIDE DEF N
      <4> QED
        BY <4>1, <4>2 DEF ReplayState, N
    <3>3. [replay[p] EXCEPT !.at = "done"] \in ReplayState
      BY <1>1 DEF ReplayState
    <3>4. \/ replay' = [replay EXCEPT ![p] = [replay[p] EXCEPT !.at = "done"]]
          \/ replay' = [replay EXCEPT ![p] = [Idle EXCEPT !.at = "dead"]]
      BY <3>1
    <3> QED
      BY <1>1, <3>1, <3>2, <3>3, <3>4
  <2> HIDE DEF N
  <2> QED
    BY <2>1, <2>2, <2>3, <2>4, <2>5
<1> QED
  BY <1>3, <1>4

(* What a replay does to the replays and the files, by its stages.         *)
LEMMA ReplayDoes ==
  ASSUME ReplayInv, phase = "crashed", NEW q \in Recoverer
  PROVE  /\ ReplayTruncates(q) =>
               /\ replay[q].at = "idle"
               /\ jsonl' = <<>> /\ marks' = <<>>
               /\ replay'[q].at = "appending"
               /\ replay'[q].todo = Replayed.out
               /\ replay'[q].todoMarks = Replayed.marks
         /\ ReplayAppends(q) =>
               /\ replay[q].at = "appending" /\ replay'[q].at = "appending"
               /\ \/ /\ replay[q].todo # <<>>
                     /\ jsonl' = Append(jsonl, Head(replay[q].todo))
                     /\ replay'[q].todo = Tail(replay[q].todo)
                     /\ replay'[q].todoMarks = replay[q].todoMarks
                     /\ marks' = marks
                  \/ /\ replay[q].todoMarks # <<>>
                     /\ marks' = Append(marks, Head(replay[q].todoMarks))
                     /\ replay'[q].todoMarks = Tail(replay[q].todoMarks)
                     /\ replay'[q].todo = replay[q].todo
                     /\ jsonl' = jsonl
         /\ ReplayEnds(q) =>
               /\ replay[q].at = "appending" /\ replay'[q].at = "done"
               /\ replay[q].todo = <<>> /\ replay[q].todoMarks = <<>>
               /\ replay'[q].todo = <<>> /\ replay'[q].todoMarks = <<>>
               /\ jsonl' = jsonl /\ marks' = marks
         /\ ReplayDies(q) =>
               /\ replay[q].at = "appending" /\ replay'[q].at = "dead"
               /\ replay'[q].todo = <<>> /\ replay'[q].todoMarks = <<>>
               /\ jsonl' = jsonl /\ marks' = marks
<1>1. replay \in [Recoverer -> ReplayState]
  BY DEF ReplayInv, TypeOK, ReplayState
<1>2. /\ replay[q] \in ReplayState /\ DOMAIN replay = Recoverer
      /\ replay[q] = [at |-> replay[q].at, todo |-> replay[q].todo,
                      todoMarks |-> replay[q].todoMarks]
  BY <1>1 DEF ReplayState
<1>3. ASSUME ReplayTruncates(q)
      PROVE  /\ replay[q].at = "idle"
             /\ jsonl' = <<>> /\ marks' = <<>>
             /\ replay'[q].at = "appending"
             /\ replay'[q].todo = Replayed.out
             /\ replay'[q].todoMarks = Replayed.marks
  BY <1>2, <1>3 DEF ReplayTruncates, ReplayBegins, Replayed, Idle
<1>4. ASSUME ReplayAppends(q)
      PROVE  /\ replay[q].at = "appending" /\ replay'[q].at = "appending"
             /\ \/ /\ replay[q].todo # <<>>
                   /\ jsonl' = Append(jsonl, Head(replay[q].todo))
                   /\ replay'[q].todo = Tail(replay[q].todo)
                   /\ replay'[q].todoMarks = replay[q].todoMarks
                   /\ marks' = marks
                \/ /\ replay[q].todoMarks # <<>>
                   /\ marks' = Append(marks, Head(replay[q].todoMarks))
                   /\ replay'[q].todoMarks = Tail(replay[q].todoMarks)
                   /\ replay'[q].todo = replay[q].todo
                   /\ jsonl' = jsonl
  <2>1. replay[q].at = "appending"
    BY <1>4 DEF ReplayAppends
  <2>2. CASE /\ replay[q].todo # <<>>
             /\ jsonl' = Append(jsonl, Head(replay[q].todo))
             /\ replay' = [replay EXCEPT ![q].todo = Tail(@)]
             /\ marks' = marks
    BY <1>2, <2>1, <2>2
  <2>3. CASE /\ replay[q].todoMarks # <<>>
             /\ marks' = Append(marks, Head(replay[q].todoMarks))
             /\ replay' = [replay EXCEPT ![q].todoMarks = Tail(@)]
             /\ jsonl' = jsonl
    BY <1>2, <2>1, <2>3
  <2> QED
    BY <1>4, <2>2, <2>3 DEF ReplayAppends
<1>5. ASSUME ReplayEnds(q)
      PROVE  /\ replay[q].at = "appending" /\ replay'[q].at = "done"
             /\ replay[q].todo = <<>> /\ replay[q].todoMarks = <<>>
             /\ replay'[q].todo = <<>> /\ replay'[q].todoMarks = <<>>
             /\ jsonl' = jsonl /\ marks' = marks
  BY <1>2, <1>5 DEF ReplayEnds, Idle, derived
<1>6. ASSUME ReplayDies(q)
      PROVE  /\ replay[q].at = "appending" /\ replay'[q].at = "dead"
             /\ replay'[q].todo = <<>> /\ replay'[q].todoMarks = <<>>
             /\ jsonl' = jsonl /\ marks' = marks
  BY <1>2, <1>6 DEF ReplayDies, Idle, derived
<1> QED
  BY <1>3, <1>4, <1>5, <1>6

(* The others stay where they are.                                         *)
LEMMA OthersStay ==
  ASSUME ReplayInv, NEW q \in Recoverer,
         \/ ReplayTruncates(q) \/ ReplayAppends(q)
         \/ ReplayEnds(q) \/ ReplayDies(q),
         NEW p \in Recoverer, p # q
  PROVE  replay'[p] = replay[p]
<1>1. DOMAIN replay = Recoverer
  BY DEF ReplayInv, TypeOK
<1>2. CASE ReplayTruncates(q)
  BY <1>1, <1>2 DEF ReplayTruncates, ReplayBegins
<1>3. CASE ReplayAppends(q)
  BY <1>1, <1>3 DEF ReplayAppends
<1>4. CASE ReplayEnds(q)
  BY <1>1, <1>4 DEF ReplayEnds
<1>5. CASE ReplayDies(q)
  BY <1>1, <1>5 DEF ReplayDies
<1> QED
  BY <1>2, <1>3, <1>4, <1>5

(* What is in the files and still to be appended is of the raw file.       *)
LEMMA NothingElseStep ==
  ASSUME ChannelInv, ReplayInv, phase = "crashed", Replayed' = Replayed,
         NEW q \in Recoverer,
         \/ ReplayTruncates(q) \/ ReplayAppends(q)
         \/ ReplayEnds(q) \/ ReplayDies(q)
  PROVE  NothingElse'
<1> DEFINE out == Replayed.out
           mks == Replayed.marks
<1>1. \A p \in Recoverer : p \in Began <=> replay[p].at # "idle"
  BY DEF Began
<1>2. /\ Began # {} => ToSet(jsonl) \subseteq ToSet(out) /\ ToSet(marks) \subseteq ToSet(mks)
      /\ \A p \in Began : /\ ToSet(replay[p].todo) \subseteq ToSet(out)
                          /\ ToSet(replay[p].todoMarks) \subseteq ToSet(mks)
  BY DEF ReplayInv, NothingElse
<1>3. /\ jsonl \in Seq(Record) /\ marks \in Seq(1 .. 2 * MaxLines + 2)
      /\ replay[q].todo \in Seq(Record)
      /\ replay[q].todoMarks \in Seq(1 .. 2 * MaxLines + 2)
  BY DEF ReplayInv, TypeOK
<1> HIDE DEF out, mks
<1>4. /\ ToSet(jsonl') \subseteq ToSet(out) /\ ToSet(marks') \subseteq ToSet(mks)
      /\ ToSet(replay'[q].todo) \subseteq ToSet(out)
      /\ ToSet(replay'[q].todoMarks) \subseteq ToSet(mks)
  <2>1. ToSet(<<>>) = {}
    BY DEF ToSet
  <2>2. CASE ReplayTruncates(q)
    BY <2>1, <2>2, ReplayDoes DEF out, mks
  <2>3. CASE ReplayAppends(q)
    <3>1. q \in Began
      BY <2>3, <1>1, ReplayDoes
    <3>2. CASE /\ replay[q].todo # <<>>
               /\ jsonl' = Append(jsonl, Head(replay[q].todo))
               /\ replay'[q].todo = Tail(replay[q].todo)
               /\ replay'[q].todoMarks = replay[q].todoMarks
               /\ marks' = marks
      <4> DEFINE t == replay[q].todo
                 h == Head(t)
      <4>1. t \in Seq(Record) /\ t # <<>>
        BY <1>3, <3>2
      <4> HIDE DEF t
      <4>2. h \in Record /\ ToSet(t) = {h} \union ToSet(Tail(t))
        BY <4>1, HeadAndTail
      <4> HIDE DEF h
      <4>3. ToSet(Append(jsonl, h)) = ToSet(jsonl) \union {h}
        BY <1>3, <4>2, ToSetAppend
      <4> QED
        BY <1>2, <3>1, <3>2, <4>2, <4>3 DEF t, h
    <3>3. CASE /\ replay[q].todoMarks # <<>>
               /\ marks' = Append(marks, Head(replay[q].todoMarks))
               /\ replay'[q].todoMarks = Tail(replay[q].todoMarks)
               /\ replay'[q].todo = replay[q].todo
               /\ jsonl' = jsonl
      <4> DEFINE t == replay[q].todoMarks
                 h == Head(t)
                 N == 1 .. 2 * MaxLines + 2
      <4>1. t \in Seq(N) /\ t # <<>> /\ marks \in Seq(N)
        BY <1>3, <3>3
      <4> HIDE DEF t, N
      <4>2. h \in N /\ ToSet(t) = {h} \union ToSet(Tail(t))
        BY <4>1, HeadAndTail
      <4> HIDE DEF h
      <4>3. ToSet(Append(marks, h)) = ToSet(marks) \union {h}
        BY <4>1, <4>2, ToSetAppend
      <4> QED
        BY <1>2, <3>1, <3>3, <4>2, <4>3 DEF t, h
    <3> QED
      BY <2>3, <3>2, <3>3, ReplayDoes
  <2>4. CASE ReplayEnds(q) \/ ReplayDies(q)
    <3>1. q \in Began
      BY <2>4, <1>1, ReplayDoes
    <3> QED
      BY <2>1, <2>4, <3>1, <1>2, ReplayDoes
  <2> QED
    BY <2>2, <2>3, <2>4
<1>5. ASSUME NEW p \in Began'
      PROVE  /\ ToSet(replay'[p].todo) \subseteq ToSet(out)
             /\ ToSet(replay'[p].todoMarks) \subseteq ToSet(mks)
  <2>1. CASE p = q
    BY <2>1, <1>4
  <2>2. CASE p # q
    <3>1. p \in Recoverer /\ replay'[p] = replay[p] /\ p \in Began
      BY <2>2, OthersStay DEF Began
    <3> QED
      BY <3>1, <1>2
  <2> QED
    BY <2>1, <2>2
<1> QED
  BY <1>4, <1>5 DEF NothingElse, out, mks

(* Unless one has died, one has appended or will append it all.            *)
LEMMA NothingLeftOutStep ==
  ASSUME ChannelInv, ReplayInv, phase = "crashed", Replayed' = Replayed,
         NEW q \in Recoverer,
         \/ ReplayTruncates(q) \/ ReplayAppends(q)
         \/ ReplayEnds(q) \/ ReplayDies(q)
  PROVE  NothingLeftOut'
<1> DEFINE out == ToSet(Replayed.out)
           mks == ToSet(Replayed.marks)
           Fine(p) == \/ replay[p].at = "dead"
                      \/ /\ out \subseteq ToSet(jsonl) \union ToSet(replay[p].todo)
                         /\ mks \subseteq ToSet(marks) \union ToSet(replay[p].todoMarks)
           FineNow(p) == \/ replay'[p].at = "dead"
                         \/ /\ out \subseteq ToSet(jsonl') \union ToSet(replay'[p].todo)
                            /\ mks \subseteq ToSet(marks') \union ToSet(replay'[p].todoMarks)
<1>1. /\ jsonl \in Seq(Record) /\ marks \in Seq(1 .. 2 * MaxLines + 2)
      /\ replay[q].todo \in Seq(Record)
      /\ replay[q].todoMarks \in Seq(1 .. 2 * MaxLines + 2)
  BY DEF ReplayInv, TypeOK
<1>2. Began # {} => \E p \in Began : Fine(p)
  BY DEF ReplayInv, NothingLeftOut
<1>3. \A p \in Recoverer : (p \in Began <=> replay[p].at # "idle")
                           /\ (p \in Began' <=> replay'[p].at # "idle")
  BY DEF Began
<1>4. Began \subseteq Recoverer
  BY DEF Began
<1> SUFFICES \E p \in Began' : FineNow(p)
  BY DEF NothingLeftOut
<1> HIDE DEF out, mks
<1>5. CASE ReplayTruncates(q)
  <2>1. q \in Began' /\ FineNow(q)
    BY <1>3, <1>5, ReplayDoes DEF out, mks
  <2> QED
    BY <2>1
<1>6. CASE ReplayDies(q)
  <2>1. q \in Began' /\ FineNow(q)
    BY <1>3, <1>6, ReplayDoes
  <2> QED
    BY <2>1
<1>7. CASE ReplayAppends(q)
  <2>1. q \in Began /\ q \in Began'
    BY <1>3, <1>7, ReplayDoes
  <2>2. PICK p \in Began : Fine(p)
    BY <1>2, <2>1
  <2>3. \A x \in Recoverer \ {q} : replay'[x] = replay[x]
    BY <1>7, OthersStay
  <2>4. p \in Began'
    BY <1>3, <1>4, <2>1, <2>3
  <2>5. CASE /\ replay[q].todo # <<>>
             /\ jsonl' = Append(jsonl, Head(replay[q].todo))
             /\ replay'[q].todo = Tail(replay[q].todo)
             /\ replay'[q].todoMarks = replay[q].todoMarks
             /\ marks' = marks
    <3> DEFINE t == replay[q].todo
               h == Head(t)
    <3>1. t \in Seq(Record) /\ t # <<>>
      BY <1>1, <2>5
    <3> HIDE DEF t
    <3>2. h \in Record /\ ToSet(t) = {h} \union ToSet(Tail(t))
      BY <3>1, HeadAndTail
    <3> HIDE DEF h
    <3>3. ToSet(Append(jsonl, h)) = ToSet(jsonl) \union {h}
      BY <1>1, <3>2, ToSetAppend
    <3>4. ToSet(jsonl') = ToSet(jsonl) \union {h}
      BY <2>5, <3>3 DEF h, t
    <3>5. ToSet(replay[q].todo) = {h} \union ToSet(replay'[q].todo)
      BY <2>5, <3>2 DEF t
    <3>6. CASE p = q
      BY <2>1, <2>2, <2>5, <3>4, <3>5, <3>6, <1>7, ReplayDoes
    <3>7. CASE p # q
      BY <2>2, <2>3, <2>4, <2>5, <3>4, <3>7, <1>4
    <3> QED
      BY <3>6, <3>7
  <2>6. CASE /\ replay[q].todoMarks # <<>>
             /\ marks' = Append(marks, Head(replay[q].todoMarks))
             /\ replay'[q].todoMarks = Tail(replay[q].todoMarks)
             /\ replay'[q].todo = replay[q].todo
             /\ jsonl' = jsonl
    <3> DEFINE t == replay[q].todoMarks
               h == Head(t)
               N == 1 .. 2 * MaxLines + 2
    <3>1. t \in Seq(N) /\ t # <<>> /\ marks \in Seq(N)
      BY <1>1, <2>6
    <3> HIDE DEF t, N
    <3>2. h \in N /\ ToSet(t) = {h} \union ToSet(Tail(t))
      BY <3>1, HeadAndTail
    <3> HIDE DEF h
    <3>3. ToSet(Append(marks, h)) = ToSet(marks) \union {h}
      BY <3>1, <3>2, ToSetAppend
    <3>4. ToSet(marks') = ToSet(marks) \union {h}
      BY <2>6, <3>3 DEF h, t
    <3>5. ToSet(replay[q].todoMarks) = {h} \union ToSet(replay'[q].todoMarks)
      BY <2>6, <3>2 DEF t
    <3>6. CASE p = q
      BY <2>1, <2>2, <2>6, <3>4, <3>5, <3>6, <1>7, ReplayDoes
    <3>7. CASE p # q
      BY <2>2, <2>3, <2>4, <2>6, <3>4, <3>7, <1>4
    <3> QED
      BY <3>6, <3>7
  <2> QED
    BY <1>7, <2>5, <2>6, ReplayDoes
<1>8. CASE ReplayEnds(q)
  <2>1. q \in Began
    BY <1>3, <1>8, ReplayDoes
  <2>2. PICK p \in Began : Fine(p)
    BY <1>2, <2>1
  <2>3. /\ replay'[p].todo = replay[p].todo /\ replay'[p].todoMarks = replay[p].todoMarks
        /\ jsonl' = jsonl /\ marks' = marks
        /\ replay[p].at = "dead" => replay'[p].at = "dead"
        /\ p \in Began'
    <3>1. CASE p = q
      BY <1>3, <1>8, <3>1, ReplayDoes
    <3>2. CASE p # q
      BY <1>3, <1>4, <1>8, <3>2, ReplayDoes, OthersStay
    <3> QED
      BY <3>1, <3>2
  <2> QED
    BY <2>2, <2>3
<1> QED
  BY <1>5, <1>6, <1>7, <1>8

(* One alone appends it in order.                                          *)
LEMMA InOrderStep ==
  ASSUME ChannelInv, ReplayInv, phase = "crashed", Replayed' = Replayed,
         NEW q \in Recoverer,
         \/ ReplayTruncates(q) \/ ReplayAppends(q)
         \/ ReplayEnds(q) \/ ReplayDies(q)
  PROVE  InOrder'
<1>1. /\ jsonl \in Seq(Record) /\ replay[q].todo \in Seq(Record)
      /\ Replayed.out \in Seq(Record)
  BY ReplayedIs DEF ReplayInv, TypeOK
<1>2. \A p \in Recoverer : (p \in Began <=> replay[p].at # "idle")
                           /\ (p \in Began' <=> replay'[p].at # "idle")
  BY DEF Began
<1>3. Began \subseteq Recoverer /\ Began' \subseteq Recoverer
  BY DEF Began
<1>4. \A p \in Began : Began = {p} =>
         replay[p].at = "dead" \/ jsonl \o replay[p].todo = Replayed.out
  BY DEF ReplayInv, InOrder
<1>5. q \in Began'
  BY <1>2, ReplayDoes
<1> SUFFICES ASSUME Began' = {q}
             PROVE  \/ replay'[q].at = "dead"
                    \/ jsonl' \o replay'[q].todo = Replayed.out
  BY <1>5 DEF InOrder
<1>6. q \in Began => Began = {q}
  <2> SUFFICES ASSUME NEW p \in Began, p # q
               PROVE  FALSE
    OBVIOUS
  <2>1. p \in Recoverer /\ replay'[p] = replay[p]
    BY <1>3, OthersStay
  <2> QED
    BY <2>1, <1>2
<1>7. CASE ReplayTruncates(q)
  BY <1>1, <1>7, ReplayDoes
<1>8. CASE ReplayDies(q)
  BY <1>8, ReplayDoes
<1>9. CASE ReplayAppends(q) \/ ReplayEnds(q)
  <2>1. q \in Began /\ replay[q].at # "dead"
    BY <1>2, <1>9, ReplayDoes
  <2>2. jsonl \o replay[q].todo = Replayed.out
    BY <2>1, <1>4, <1>6
  <2>3. CASE jsonl' = jsonl /\ replay'[q].todo = replay[q].todo
    BY <2>2, <2>3
  <2>4. CASE /\ replay[q].todo # <<>>
             /\ jsonl' = Append(jsonl, Head(replay[q].todo))
             /\ replay'[q].todo = Tail(replay[q].todo)
    <3> DEFINE t == replay[q].todo
    <3>1. t \in Seq(Record) /\ t # <<>>
      BY <1>1, <2>4
    <3> HIDE DEF t
    <3>2. Append(jsonl, Head(t)) \o Tail(t) = jsonl \o t
      <4> DEFINE h == Head(t)
                 r == Tail(t)
                 j == jsonl
      <4>1. h \in Record /\ r \in Seq(Record) /\ t = <<h>> \o r /\ j \in Seq(Record)
        BY <1>1, <3>1
      <4> HIDE DEF h, r, j
      <4>2. Append(j, h) = j \o <<h>> /\ <<h>> \in Seq(Record)
        BY <4>1
      <4>3. (j \o <<h>>) \o r = j \o (<<h>> \o r)
        BY <4>1, <4>2, ConcatAssociative
      <4> QED
        BY <4>1, <4>2, <4>3, Zenon DEF h, r, j
    <3> QED
      BY <2>2, <2>4, <3>2 DEF t
  <2> QED
    BY <1>9, <2>3, <2>4, ReplayDoes
<1> QED
  BY <1>7, <1>8, <1>9

(* A replay that is not at work has nothing to append.                     *)
LEMMA OnlyAtWorkStep ==
  ASSUME ReplayInv, phase = "crashed", NEW q \in Recoverer,
         \/ ReplayTruncates(q) \/ ReplayAppends(q)
         \/ ReplayEnds(q) \/ ReplayDies(q)
  PROVE  OnlyAtWork'
<1>1. \A p \in Recoverer : replay[p].at # "appending" =>
         replay[p].todo = <<>> /\ replay[p].todoMarks = <<>>
  BY DEF ReplayInv, OnlyAtWork
<1> SUFFICES ASSUME NEW p \in Recoverer, replay'[p].at # "appending"
             PROVE  replay'[p].todo = <<>> /\ replay'[p].todoMarks = <<>>
  BY DEF OnlyAtWork
<1>2. CASE p = q
  BY <1>2, ReplayDoes
<1>3. CASE p # q
  BY <1>1, <1>3, OthersStay
<1> QED
  BY <1>2, <1>3

LEMMA ReplayBegin ==
  ASSUME Init
  PROVE  ReplayInv
<1>1. ChannelInv
  BY ChannelBegins
<1>2. ChannelTypeOK /\ phase = "uid" /\ jsonl = <<>> /\ marks = <<>>
      /\ replay = [p \in Recoverer |-> Idle]
  BY <1>1 DEF Init, ChannelInv
<1> DEFINE N == 1 .. 2 * MaxLines + 2
<1>3. <<>> \in Seq(Record) /\ <<>> \in Seq(N)
  OBVIOUS
<1> HIDE DEF N
<1>4. Idle \in ReplayState
  BY <1>3 DEF Idle, ReplayState, N
<1>5. jsonl \in Seq(Record) /\ marks \in Seq(N) /\ replay \in [Recoverer -> ReplayState]
  BY <1>2, <1>3, <1>4
<1> QED
  BY <1>2, <1>5 DEF ReplayInv, TypeOK, ReplayState, N

LEMMA ReplayKeepsOn ==
  ASSUME ChannelInv, ReplayInv, ChannelInv', [Next]_vars
  PROVE  ReplayInv'
<1>1. TypeOK'
  BY TypeOKStep
<1>2. ASSUME phase' = "crashed", phase # "crashed"
      PROVE  (OnlyAtWork /\ NothingElse /\ NothingLeftOut /\ InOrder)'
  <2>1. \A p \in Recoverer : replay'[p] = Idle
    BY <1>2, ReplaysIdle DEF ChannelInv, ReplaysWait
  <2>2. Began' = {}
    BY <2>1 DEF Began, Idle
  <2> QED
    BY <2>1, <2>2 DEF OnlyAtWork, NothingElse, NothingLeftOut, InOrder, Idle
<1>3. ASSUME phase = "crashed"
      PROVE  (OnlyAtWork /\ NothingElse /\ NothingLeftOut /\ InOrder)'
  <2>1. UNCHANGED <<lines, disk>>
    BY <1>3, ReplaySteps
  <2>2. Replayed' = Replayed
    BY <2>1 DEF Replayed, DiskLines, DiskCut
  <2>3. CASE UNCHANGED <<jsonl, marks, replay>>
    <3>1. Began' = Began
      BY <2>3 DEF Began
    <3>2. OnlyAtWork /\ NothingElse /\ NothingLeftOut /\ InOrder
      BY <1>3 DEF ReplayInv
    <3> QED
      BY <2>2, <2>3, <3>1, <3>2 DEF OnlyAtWork, NothingElse, NothingLeftOut, InOrder
  <2>4. ASSUME NEW q \in Recoverer,
               \/ ReplayTruncates(q) \/ ReplayAppends(q)
               \/ ReplayEnds(q) \/ ReplayDies(q)
        PROVE  (OnlyAtWork /\ NothingElse /\ NothingLeftOut /\ InOrder)'
    BY <1>3, <2>2, <2>4, OnlyAtWorkStep, NothingElseStep, NothingLeftOutStep,
       InOrderStep
  <2> QED
    BY <1>3, <2>3, <2>4, ReplaySteps
<1> QED
  BY <1>1, <1>2, <1>3 DEF ReplayInv

(* The replays keep to what the raw file holds, whichever boots run them   *)
(* and wherever they stop.                                                 *)
THEOREM ReplayInvariant == Spec => []ReplayInv
<1>1. Init => ReplayInv
  BY ReplayBegin
<1>2. ChannelInv /\ ChannelInv' /\ ReplayInv /\ [Next]_vars => ReplayInv'
  BY ReplayKeepsOn
<1> QED
  BY <1>1, <1>2, ChannelInvariant, PTL DEF Spec

(* Every part of the channel's state keeps its type, the replays' included.*)
THEOREM ChannelTypeCorrect == Spec => []TypeOK
<1>1. ReplayInv => TypeOK
  BY DEF ReplayInv
<1> QED
  BY <1>1, ReplayInvariant, PTL

(* Once every replay that began has ended, logcat.jsonl and crash.jsonl    *)
(* have the records and the marks of the raw file, whatever the crash cut  *)
(* off and whatever was in them before; with one replay, each record once. *)
THEOREM ReplayRebuilds == Spec => []RebuiltFromRaw
<1>1. ASSUME ChannelInv, ReplayInv PROVE RebuiltFromRaw
  <2> SUFFICES ASSUME Began # {}, \A p \in Began : replay[p].at = "done",
                      ~{"wide", "blank"} \subseteq ToSet(lines)
               PROVE  /\ ToSet(jsonl) = RecordsOf(DiskLines)
                      /\ (\E p \in Recoverer : Began = {p}) =>
                            \A i, j \in DOMAIN jsonl : i < j => jsonl[i].no < jsonl[j].no
                      /\ ToSet(marks) = MarksOf(DiskLines)
    BY DEF RebuiltFromRaw
  <2>1. phase = "crashed"
    <3>1. PICK p \in Recoverer : replay[p].at # "idle"
      BY DEF Began
    <3> QED
      BY <1>1, <3>1 DEF ChannelInv, ReplaysWait, Idle
  <2>2. /\ ToSet(Replayed.out) = RecordsOf(DiskLines)
        /\ ToSet(Replayed.marks) = MarksOf(DiskLines)
        /\ \A i, j \in DOMAIN Replayed.out :
              i < j => Replayed.out[i].no < Replayed.out[j].no
    BY <1>1, <2>1, ReplayedIs
  <2>3. OnlyAtWork /\ NothingElse /\ NothingLeftOut /\ InOrder
    BY <1>1, <2>1 DEF ReplayInv
  <2>4. \A p \in Began : replay[p].todo = <<>> /\ replay[p].todoMarks = <<>>
    BY <2>3 DEF OnlyAtWork, Began
  <2>5. /\ ToSet(Replayed.out) \subseteq ToSet(jsonl)
        /\ ToSet(Replayed.marks) \subseteq ToSet(marks)
    <3>1. PICK p \in Began :
             /\ ToSet(Replayed.out) \subseteq ToSet(jsonl) \union ToSet(replay[p].todo)
             /\ ToSet(Replayed.marks) \subseteq ToSet(marks) \union ToSet(replay[p].todoMarks)
      BY <2>3 DEF NothingLeftOut
    <3>2. ToSet(<<>>) = {}
      BY DEF ToSet
    <3> QED
      BY <2>4, <3>1, <3>2
  <2>6. ToSet(jsonl) \subseteq ToSet(Replayed.out) /\ ToSet(marks) \subseteq ToSet(Replayed.marks)
    BY <2>3 DEF NothingElse
  <2>7. ASSUME NEW p \in Recoverer, Began = {p}
        PROVE  jsonl = Replayed.out
    <3>1. jsonl \o replay[p].todo = Replayed.out /\ replay[p].todo = <<>>
      BY <2>3, <2>4, <2>7 DEF InOrder
    <3>2. jsonl \in Seq(Record)
      BY <1>1 DEF ReplayInv, TypeOK
    <3> QED
      BY <3>1, <3>2
  <2> QED
    BY <2>2, <2>5, <2>6, <2>7
<1> QED
  BY <1>1, ChannelInvariant, ReplayInvariant, PTL

=============================================================================
