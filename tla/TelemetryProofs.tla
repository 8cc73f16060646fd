-------------------------- MODULE TelemetryProofs --------------------------
(***************************************************************************)
(* Theorems about Telemetry, for any helpers, queue, stderr and number of  *)
(* events.                                                                 *)
(***************************************************************************)
EXTENDS Telemetry, FiniteSetTheorems, SequenceLemmas

\* The end comes in order: the flag and the channels of Close are set when main
\* waits, the goroutine drains only then, and main emits nothing any more.
EndInv ==
  /\ stop \/ ending \in {"printed", "waiting"} => epc[Main] = "out"
  /\ stop => ending \in {"waiting", "exited"}
  /\ draining => stop
  /\ done => runner = "ended"
  /\ waited = "done" => done
  /\ runner = "ended" => draining /\ \A i \in DOMAIN records : records[i] # Main

\* Only main's last event takes its count past the bound.
CountInv == \A p \in Producers : (p # Main \/ ending = "no") => emitted[p] <= MaxEmits

\* A record takes losses along only between the swap and its encoding.
AccountInv ==
  /\ EveryEventIsAccountedFor
  /\ runner \notin {"lock", "encode"} => carried = 0

IInv == TypeOK /\ EndInv /\ CountInv

-----------------------------------------------------------------------------
LEMMA Sizes ==
  QueueSize \in Nat /\ QueueSize > 0 /\ StderrSize \in Nat /\ StderrSize > 0 /\ MaxEmits \in Nat
BY TelemetryAssumption

\* A send appends one record to a queue with room or goes on to the counter.
LEMMA OfferEffect ==
  ASSUME TypeOK, NEW p \in Producers, Offer(p)
  PROVE  /\ records' \in Seq(Producers) /\ Len(records') <= QueueSize
         /\ epc' \in [Producers -> {"out", "put", "count"}]
         /\ \A q \in Producers : q # p => epc'[q] = epc[q]
         /\ (p # Main /\ \A i \in DOMAIN records : records[i] # Main)
              => \A i \in DOMAIN records' : records'[i] # Main
<1> USE TelemetryAssumption DEF TypeOK
<1>1. CASE Len(records) < QueueSize /\ records' = Append(records, p) /\ epc' = [epc EXCEPT ![p] = "out"]
  <2>1. Len(records') = Len(records) + 1 /\ DOMAIN records' = 1 .. Len(records) + 1
    BY <1>1
  <2>2. \A i \in DOMAIN records' : records'[i] = IF i <= Len(records) THEN records[i] ELSE p
    BY <1>1
  <2> QED
    BY <1>1, <2>1, <2>2
<1>2. CASE Len(records) >= QueueSize /\ epc' = [epc EXCEPT ![p] = "count"] /\ UNCHANGED records
  BY <1>2
<1> QED
  BY <1>1, <1>2 DEF Offer

\* Taking the first record leaves a shorter queue of the same records.
LEMMA TailEffect ==
  ASSUME TypeOK, records # <<>>, records' = Tail(records)
  PROVE  records' \in Seq(Producers) /\ Len(records') <= QueueSize
BY TelemetryAssumption DEF TypeOK

-----------------------------------------------------------------------------
LEMMA EmitCheckStep == ASSUME IInv, NEW p \in Producers, EmitCheck(p) PROVE IInv'
<1> USE TelemetryAssumption
         DEF IInv, EmitCheck, shutdown, consumer, pipe, fates
<1>1. emitted' \in [Producers -> 0 .. MaxEmits + 1]
  BY DEF TypeOK
<1>2. TypeOK'
  BY <1>1 DEF TypeOK
<1>3. CountInv'
  BY DEF CountInv, TypeOK
<1> QED
  BY <1>2, <1>3 DEF EndInv, fates, TypeOK

LEMMA EmitStep == ASSUME IInv, NEW p \in Producers, Emit(p) PROVE IInv'
<1> USE DEF IInv, shutdown, consumer, pipe
<1>1. CASE EmitSend(p)
  <2> USE <1>1 DEF EmitSend
  <2>1. TypeOK'
    BY OfferEffect DEF TypeOK, fates
  <2>2. EndInv'
    <3>1. stop \/ ending \in {"printed", "waiting"} => p # Main
      BY DEF EndInv
    <3>2. epc'[Main] = epc[Main] \/ p = Main
      BY OfferEffect DEF Producers
    <3> QED
      BY <3>1, <3>2, OfferEffect DEF EndInv, TypeOK
  <2> QED
    BY <2>1, <2>2 DEF CountInv
<1>2. CASE EmitCount(p)
  <2>1. epc' \in [Producers -> {"out", "put", "count"}] /\ dropped' \in Nat
    BY <1>2 DEF EmitCount, TypeOK
  <2> QED
    BY <1>2, <2>1 DEF EmitCount, TypeOK, EndInv, CountInv, fates
<1> QED
  BY <1>1, <1>2 DEF Emit

LEMMA RunnerStep == ASSUME IInv, Runner \/ EncodeFails PROVE IInv'
<1> USE DEF IInv, producer, shutdown, pipe, fates
<1>1. CASE Receive
  <2>1. records' \in Seq(Producers) /\ Len(records') <= QueueSize
    BY <1>1, TailEffect DEF Receive
  <2> QED
    BY <1>1, <2>1 DEF Receive, TypeOK, EndInv, CountInv
<1>2. CASE SeeStop
  BY <1>2 DEF SeeStop, TypeOK, EndInv, CountInv
<1>3. CASE Quit
  BY <1>3 DEF Quit, TypeOK, EndInv, CountInv
<1>4. CASE TakeDropped
  BY <1>4 DEF TakeDropped, TypeOK, EndInv, CountInv
<1>5. CASE Lock
  BY <1>5 DEF Lock, TypeOK, EndInv, CountInv
<1>6. CASE Encode
  <2> USE <1>6 DEF Encode
  <2>1. stderr' \in 0 .. StderrSize
    BY Sizes DEF Room, TypeOK
  <2>2. written' \in Nat /\ reported' \in Nat /\ carried' \in Nat
    BY DEF TypeOK
  <2>3. TypeOK'
    BY <2>1, <2>2 DEF TypeOK
  <2> QED
    BY <2>3 DEF EndInv, CountInv
<1>7. CASE EncodeFails
  <2>1. unwritten' \in Nat /\ forgotten' \in Nat /\ carried' \in Nat
    BY <1>7 DEF EncodeFails, TypeOK
  <2> QED
    BY <1>7, <2>1 DEF EncodeFails, TypeOK, EndInv, CountInv
<1> QED
  BY <1>1, <1>2, <1>3, <1>4, <1>5, <1>6, <1>7 DEF Runner

LEMMA EndingStep == ASSUME IInv, Ending \/ PrintErrorFails \/ BrokenPipe PROVE IInv'
<1> USE DEF IInv, producer, consumer, pipe, TypeOK, EndInv, CountInv
<1>1. CASE PrintError
  BY <1>1, TelemetryAssumption DEF PrintError, Room, fates
<1>2. CASE PrintErrorFails
  BY <1>2 DEF PrintErrorFails, fates
<1>3. CASE Close
  BY <1>3 DEF Close, fates
<1>4. CASE SeeDone
  BY <1>4 DEF SeeDone, fates
<1>5. CASE GiveUp
  BY <1>5 DEF GiveUp, fates
<1>6. CASE BrokenPipe
  BY <1>6 DEF BrokenPipe, fates
<1> QED
  BY <1>1, <1>2, <1>3, <1>4, <1>5, <1>6 DEF Ending

LEMMA EndStep == ASSUME IInv, NEW how \in {"eof", "error"}, End(how) PROVE IInv'
<1> USE DEF IInv, End, consumer, pipe
<1>1. Main \in Producers /\ ending' \in {"eof", "error"} /\ failed' \in BOOLEAN
  BY DEF Producers
<1>2. emitted' \in [Producers -> 0 .. MaxEmits + 1] /\ epc' \in [Producers -> {"out", "put", "count"}]
  BY <1>1, TelemetryAssumption DEF TypeOK, CountInv
<1>3. TypeOK'
  BY <1>1, <1>2 DEF TypeOK, fates
<1>4. EndInv'
  BY <1>1 DEF EndInv
<1>5. CountInv'
  BY <1>1 DEF CountInv, TypeOK
<1> QED
  BY <1>3, <1>4, <1>5

LEMMA ReadStderrStep == ASSUME IInv, ReadStderr PROVE IInv'
BY TelemetryAssumption
   DEF IInv, ReadStderr, producer, shutdown, consumer, fates, TypeOK, EndInv, CountInv

LEMMA Invariance == Spec => []IInv
<1>1. Init => IInv
  <2> SUFFICES ASSUME Init PROVE IInv
    OBVIOUS
  <2> USE Sizes DEF Init
  <2>1. TypeOK
    <3>1. records \in Seq(Producers) /\ Len(records) = 0
      OBVIOUS
    <3>2. 0 \in 0 .. MaxEmits + 1
      OBVIOUS
    <3>3. epc \in [Producers -> {"out", "put", "count"}]
      OBVIOUS
    <3>4. emitted \in [Producers -> 0 .. MaxEmits + 1]
      <4> DEFINE Counts == 0 .. MaxEmits + 1
      <4>1. 0 \in Counts /\ emitted = [p \in Producers |-> 0]
        BY <3>2
      <4> HIDE DEF Counts
      <4>2. emitted \in [Producers -> Counts]
        BY <4>1 DEF Producers
      <4> QED
        BY <4>2 DEF Counts
    <3>5. dropped \in Nat /\ {carried, written, reported, unwritten, forgotten} \subseteq Nat /\ stderr \in 0 .. StderrSize
      OBVIOUS
    <3>6. {failed, stopped, stop, done, draining} \subseteq BOOLEAN
      OBVIOUS
    <3>7. /\ Len(records) <= QueueSize
          /\ ending = "no" /\ waited = "no" /\ runner = "select"
      BY <3>1
    <3> QED
      BY <3>1, <3>3, <3>4, <3>5, <3>6, <3>7, Zenon DEF TypeOK
  <2>2. EndInv
    BY DEF EndInv, Producers
  <2>3. CountInv
    BY DEF CountInv
  <2> QED
    BY <2>1, <2>2, <2>3 DEF IInv
<1>2. IInv /\ [Next]_vars => IInv'
  <2> SUFFICES ASSUME IInv, [Next]_vars PROVE IInv'
    OBVIOUS
  <2>1. CASE Next
    BY <2>1, EmitCheckStep, EmitStep, RunnerStep, EndStep, EndingStep, ReadStderrStep DEF Next
  <2>2. CASE UNCHANGED vars
    BY <2>2 DEF vars, producer, shutdown, consumer, pipe, fates, IInv, TypeOK, EndInv,
                CountInv
  <2> QED
    BY <2>1, <2>2
<1> QED
  BY <1>1, <1>2, PTL DEF Spec

-----------------------------------------------------------------------------
\* telemetry.go run and Emit: types, and the bounded queue that decouples JSON-RPC
\* from stderr never outgrows its capacity.
THEOREM TypeCorrect == Spec => []TypeOK
BY Invariance, PTL DEF IInv

\* telemetry.go:61-70, 89-97.  When Close returns through done, main's events have
\* left the queue, the last one included.
THEOREM CleanClose == Spec => []CleanCloseTookMainsEvents
<1>1. IInv => CleanCloseTookMainsEvents
  BY DEF IInv, EndInv, CleanCloseTookMainsEvents
<1> QED
  BY <1>1, Invariance, PTL

-----------------------------------------------------------------------------
(* Sums over the producers, by induction on the size of sets of them. *)

\* The sums over all subsets, as the function that SumFunction defines by recursion.
Chosen(s) == CHOOSE x \in s : TRUE

Sums(f) ==
  CHOOSE iter : iter = [s \in SUBSET DOMAIN f |->
                   IF s = {} THEN 0 ELSE f[Chosen(s)] + iter[s \ {Chosen(s)}]]

\* The library's sum is that function at the whole domain.
LEMMA SumIsSums == ASSUME NEW f PROVE SumFunction(f) = Sums(f)[DOMAIN f]
BY DEF SumFunction, SumFunctionOnSet, FoldFunctionOnSet, MapThenFoldSet, Sums, Chosen

\* Subsets of a finite set have sizes, and lose one with each element.
LEMMA SubsetSize ==
  ASSUME NEW P, IsFiniteSet(P), NEW s, s \subseteq P
  PROVE  /\ Cardinality(P) \in Nat /\ Cardinality(s) \in Nat /\ Cardinality(s) <= Cardinality(P)
         /\ s # {} => Chosen(s) \in s /\ Cardinality(s \ {Chosen(s)}) = Cardinality(s) - 1
         /\ s = {} <=> Cardinality(s) = 0
<1>1. IsFiniteSet(s) /\ Cardinality(s) <= Cardinality(P)
  BY FS_Subset
<1>2. Cardinality(P) \in Nat /\ Cardinality(s) \in Nat
  BY <1>1, FS_CardinalityType
<1>3. s = {} <=> Cardinality(s) = 0
  BY <1>1, FS_EmptySet
<1>4. s # {} => Chosen(s) \in s
  BY DEF Chosen
<1>5. s # {} => Cardinality(s \ {Chosen(s)}) = Cardinality(s) - 1
  BY <1>1, <1>4, FS_RemoveElement
<1> QED
  BY <1>1, <1>2, <1>3, <1>4, <1>5

\* The recursion has a solution: a least size of sets without one is neither zero
\* nor the size of a set with an element to take away.
LEMMA SumsDef ==
  ASSUME NEW P, IsFiniteSet(P), NEW f, DOMAIN f = P
  PROVE  \A s \in SUBSET P :
           Sums(f)[s] = IF s = {} THEN 0 ELSE f[Chosen(s)] + Sums(f)[s \ {Chosen(s)}]
<1> DEFINE Level(n) == {s \in SUBSET P : Cardinality(s) <= n}
           Sum(g, s) == IF s = {} THEN 0 ELSE f[Chosen(s)] + g[s \ {Chosen(s)}]
           Good(g, n) == g = [s \in Level(n) |-> Sum(g, s)]
           Bad == {n \in 0..Cardinality(P) : ~\E g : Good(g, n)}
<1>1. Cardinality(P) \in Nat
  BY FS_CardinalityType
<1>2. Bad = {}
  <2> SUFFICES ASSUME Bad # {} PROVE FALSE
    OBVIOUS
  <2>1. PICK n \in Bad : \A k \in Bad : n <= k
    <3>1. Bad \in SUBSET Nat
      BY <1>1
    <3> HIDE DEF Bad
    <3> QED
      BY <3>1, LeastNatural
  <2>2. n \in 0..Cardinality(P) /\ \A g : ~Good(g, n)
    BY <2>1
  <2>3. n # 0
    <3>1. ASSUME NEW s \in Level(0) PROVE s = {}
      <4>1. s \in SUBSET P /\ Cardinality(s) <= 0
        OBVIOUS
      <4>2. Cardinality(s) \in Nat /\ (s = {} <=> Cardinality(s) = 0)
        BY <4>1, SubsetSize
      <4> QED
        BY <4>1, <4>2
    <3>2. \A g : [s \in Level(0) |-> Sum(g, s)] = [s \in Level(0) |-> 0]
      <4> HIDE DEF Level
      <4> QED
        BY <3>1
    <3>3. Good([s \in Level(0) |-> 0], 0)
      <4> HIDE DEF Level, Sum
      <4> QED
        BY <3>2
    <3> HIDE DEF Good
    <3> QED
      BY <2>2, <3>3
  <2>4. n - 1 \in 0..Cardinality(P) /\ n - 1 \notin Bad
    <3>1. n - 1 \in 0..Cardinality(P) /\ ~(n <= n - 1)
      BY <1>1, <2>2, <2>3
    <3> HIDE DEF Bad
    <3> QED
      BY <2>1, <3>1
  <2>5. PICK g : Good(g, n - 1)
    BY <2>4
  <2>6. \A s \in Level(n - 1) : g[s] = Sum(g, s)
    <3> HIDE DEF Level, Sum
    <3> QED
      BY <2>5
  <2> DEFINE h == [s \in Level(n) |-> IF s \in Level(n - 1) THEN g[s] ELSE Sum(g, s)]
  <2>7. \A s \in Level(n) : s = {} \/ s \ {Chosen(s)} \in Level(n - 1)
    <3> SUFFICES ASSUME NEW s \in Level(n), s # {} PROVE s \ {Chosen(s)} \in Level(n - 1)
      OBVIOUS
    <3>1. Cardinality(s \ {Chosen(s)}) = Cardinality(s) - 1 /\ Cardinality(s) \in Nat /\ Cardinality(s) <= n
      BY SubsetSize
    <3> QED
      BY <2>2, <3>1
  <2>8. ASSUME NEW s \in Level(n - 1) PROVE s \in Level(n)
    <3>1. s \in SUBSET P /\ Cardinality(s) <= n - 1 /\ n \in Nat
      BY <1>1, <2>2
    <3>2. Cardinality(s) \in Nat
      BY <3>1, SubsetSize
    <3>3. Cardinality(s) <= n
      BY <3>1, <3>2
    <3> QED
      BY <3>1, <3>3
  <2>9. \A s \in Level(n) : h[s] = Sum(g, s)
    <3> HIDE DEF Sum, Level
    <3> QED
      BY <2>6
  <2>10. \A s \in Level(n) : Sum(h, s) = Sum(g, s)
    <3> HIDE DEF Level
    <3>1. \A s \in Level(n - 1) : h[s] = g[s]
      BY <2>8
    <3> HIDE DEF h
    <3> QED
      BY <2>7, <3>1
  <2>11. Good(h, n)
    <3> HIDE DEF Sum, Level
    <3>1. h = [s \in Level(n) |-> h[s]]
      OBVIOUS
    <3> HIDE DEF h
    <3> QED
      BY <2>9, <2>10, <3>1
  <2> QED
    BY <2>2, <2>11
<1>3. Cardinality(P) \in 0..Cardinality(P) /\ Cardinality(P) \notin Bad
  <2> HIDE DEF Bad
  <2> QED
    BY <1>1, <1>2
<1>4. \E g : Good(g, Cardinality(P))
  BY <1>3
<1>5. Level(Cardinality(P)) = SUBSET P
  <2>1. ASSUME NEW s, s \subseteq P PROVE Cardinality(s) <= Cardinality(P)
    BY <2>1, SubsetSize
  <2> QED
    BY <2>1
<1>6. \E g : g = [s \in SUBSET DOMAIN f |-> IF s = {} THEN 0 ELSE f[Chosen(s)] + g[s \ {Chosen(s)}]]
  BY <1>4, <1>5
<1>7. Sums(f) = [s \in SUBSET DOMAIN f |-> IF s = {} THEN 0 ELSE f[Chosen(s)] + Sums(f)[s \ {Chosen(s)}]]
  BY <1>6 DEF Sums
<1> QED
  BY <1>7

\* One more at one place is one more in all.
LEMMA SumsAdd ==
  ASSUME NEW P, IsFiniteSet(P), NEW f, DOMAIN f = P, NEW g, DOMAIN g = P, NEW p \in P,
         \A q \in P : f[q] \in Nat /\ g[q] = f[q] + (IF q = p THEN 1 ELSE 0)
  PROVE  Sums(f)[P] \in Nat /\ Sums(g)[P] = Sums(f)[P] + 1
<1> DEFINE Claim(s) == Sums(f)[s] \in Nat /\ Sums(g)[s] = Sums(f)[s] + (IF p \in s THEN 1 ELSE 0)
           Bad == {n \in Nat : \E s \in SUBSET P : Cardinality(s) = n /\ ~Claim(s)}
<1>1. Cardinality(P) \in Nat
  BY FS_CardinalityType
<1>2. Bad = {}
  <2> SUFFICES ASSUME Bad # {} PROVE FALSE
    OBVIOUS
  <2>1. PICK n \in Bad : \A k \in Bad : n <= k
    <3>1. Bad \in SUBSET Nat
      OBVIOUS
    <3> HIDE DEF Bad
    <3> QED
      BY <3>1, LeastNatural
  <2>2. PICK s \in SUBSET P : Cardinality(s) = n /\ ~Claim(s)
    BY <2>1
  <2>0. /\ \A t \in SUBSET P : Sums(f)[t] = IF t = {} THEN 0 ELSE f[Chosen(t)] + Sums(f)[t \ {Chosen(t)}]
        /\ \A t \in SUBSET P : Sums(g)[t] = IF t = {} THEN 0 ELSE g[Chosen(t)] + Sums(g)[t \ {Chosen(t)}]
    <3>1. DOMAIN f = P /\ DOMAIN g = P
      OBVIOUS
    <3>2. \A h : DOMAIN h = P => \A t \in SUBSET P :
            Sums(h)[t] = IF t = {} THEN 0 ELSE h[Chosen(t)] + Sums(h)[t \ {Chosen(t)}]
      BY SumsDef
    <3> QED
      BY <3>1, <3>2
  <2>3. /\ Sums(f)[s] = IF s = {} THEN 0 ELSE f[Chosen(s)] + Sums(f)[s \ {Chosen(s)}]
        /\ Sums(g)[s] = IF s = {} THEN 0 ELSE g[Chosen(s)] + Sums(g)[s \ {Chosen(s)}]
    BY <2>0
  <2>4. s # {}
    BY <2>2, <2>3
  <2>5. Chosen(s) \in s /\ Cardinality(s \ {Chosen(s)}) = n - 1 /\ n \in Nat /\ n - 1 \in Nat
    <3>1. Chosen(s) \in s /\ Cardinality(s \ {Chosen(s)}) = Cardinality(s) - 1 /\ Cardinality(s) \in Nat
          /\ Cardinality(s) # 0
      BY <2>4, SubsetSize
    <3> QED
      BY <2>2, <3>1
  <2>6. n - 1 \notin Bad
    <3> HIDE DEF Bad
    <3>1. ~(n <= n - 1)
      BY <2>5
    <3> QED
      BY <2>1, <3>1
  <2>7. Claim(s \ {Chosen(s)})
    <3> HIDE DEF Claim
    <3> QED
      BY <2>5, <2>6
  <2>8. f[Chosen(s)] \in Nat /\ g[Chosen(s)] = f[Chosen(s)] + (IF p = Chosen(s) THEN 1 ELSE 0)
    BY <2>5
  <2> QED
    BY <2>2, <2>3, <2>4, <2>5, <2>7, <2>8
<1>3. Claim(P)
  <2>1. Cardinality(P) \notin Bad
    <3> HIDE DEF Bad
    <3> QED
      BY <1>2
  <2> HIDE DEF Claim
  <2> QED
    BY <1>1, <2>1
<1> QED
  BY <1>3

\* Nothing anywhere is nothing in all.
LEMMA SumsOfZeros ==
  ASSUME NEW P, IsFiniteSet(P), NEW f, f = [q \in P |-> 0]
  PROVE  \A s \in SUBSET P : Sums(f)[s] = 0
<1> DEFINE Bad == {n \in Nat : \E s \in SUBSET P : Cardinality(s) = n /\ Sums(f)[s] # 0}
<1>1. Bad = {}
  <2> SUFFICES ASSUME Bad # {} PROVE FALSE
    OBVIOUS
  <2>1. PICK n \in Bad : \A k \in Bad : n <= k
    <3>1. Bad \in SUBSET Nat
      OBVIOUS
    <3> HIDE DEF Bad
    <3> QED
      BY <3>1, LeastNatural
  <2>2. PICK s \in SUBSET P : Cardinality(s) = n /\ Sums(f)[s] # 0
    BY <2>1
  <2>3. Sums(f)[s] = IF s = {} THEN 0 ELSE f[Chosen(s)] + Sums(f)[s \ {Chosen(s)}]
    <3>1. DOMAIN f = P
      OBVIOUS
    <3>2. \A h : DOMAIN h = P => \A t \in SUBSET P :
            Sums(h)[t] = IF t = {} THEN 0 ELSE h[Chosen(t)] + Sums(h)[t \ {Chosen(t)}]
      BY SumsDef
    <3> QED
      BY <3>1, <3>2
  <2>4. s # {}
    BY <2>2, <2>3
  <2>5. Chosen(s) \in s /\ Cardinality(s \ {Chosen(s)}) = n - 1 /\ n \in Nat /\ n - 1 \in Nat
    <3>1. Chosen(s) \in s /\ Cardinality(s \ {Chosen(s)}) = Cardinality(s) - 1 /\ Cardinality(s) \in Nat
          /\ Cardinality(s) # 0
      BY <2>4, SubsetSize
    <3> QED
      BY <2>2, <3>1
  <2>6. n - 1 \notin Bad
    <3> HIDE DEF Bad
    <3>1. ~(n <= n - 1)
      BY <2>5
    <3> QED
      BY <2>1, <3>1
  <2>7. Sums(f)[s \ {Chosen(s)}] = 0
    BY <2>5, <2>6
  <2>8. f[Chosen(s)] = 0
    BY <2>5
  <2> QED
    BY <2>2, <2>3, <2>4, <2>7, <2>8
<1> SUFFICES ASSUME NEW s \in SUBSET P PROVE Sums(f)[s] = 0
  OBVIOUS
<1>2. Cardinality(s) \in Nat /\ Cardinality(s) \notin Bad
  <2> HIDE DEF Bad
  <2> QED
    BY <1>1, SubsetSize
<1> QED
  BY <1>2

-----------------------------------------------------------------------------
(* The account of the events. *)

\* Producers are finitely many.
LEMMA ProducersAreFinite == IsFiniteSet(Producers)
<1>1. IsFiniteSet({Main}) /\ IsFiniteSet(Helpers)
  BY TelemetryAssumption, FS_Singleton
<1> QED
  BY <1>1, FS_Union DEF Producers

\* So are those inside Emit and those about to count a loss; a step of one producer
\* moves it in or out.
LEMMA CountsMove ==
  ASSUME TypeOK, NEW p \in Producers, NEW to \in {"out", "put", "count"},
         epc' = [epc EXCEPT ![p] = to]
  PROVE  /\ to # "out" /\ epc[p] = "out" => Cardinality(OnTheirWay)' = Cardinality(OnTheirWay) + 1
         /\ to = "out" /\ epc[p] # "out" => Cardinality(OnTheirWay)' = Cardinality(OnTheirWay) - 1
         /\ to # "out" /\ epc[p] # "out" => Cardinality(OnTheirWay)' = Cardinality(OnTheirWay)
         /\ to # "count" /\ epc[p] = "count" => Cardinality(Counting)' = Cardinality(Counting) - 1
         /\ to # "count" /\ epc[p] # "count" => Cardinality(Counting)' = Cardinality(Counting)
<1>1. IsFiniteSet(OnTheirWay) /\ IsFiniteSet(Counting)
  BY ProducersAreFinite, FS_Subset DEF OnTheirWay, Counting
<1>2. ASSUME to # "out", epc[p] = "out"
      PROVE  Cardinality(OnTheirWay)' = Cardinality(OnTheirWay) + 1
  <2>1. OnTheirWay' = OnTheirWay \cup {p} /\ p \notin OnTheirWay
    BY <1>2 DEF OnTheirWay, TypeOK
  <2> QED
    BY <1>1, <2>1, FS_AddElement
<1>3. ASSUME to = "out", epc[p] # "out"
      PROVE  Cardinality(OnTheirWay)' = Cardinality(OnTheirWay) - 1
  <2>1. OnTheirWay' = OnTheirWay \ {p} /\ p \in OnTheirWay
    BY <1>3 DEF OnTheirWay, TypeOK
  <2> QED
    BY <1>1, <2>1, FS_RemoveElement
<1>4. to # "out" /\ epc[p] # "out" => OnTheirWay' = OnTheirWay
  BY DEF OnTheirWay, TypeOK
<1>5. ASSUME to # "count", epc[p] = "count"
      PROVE  Cardinality(Counting)' = Cardinality(Counting) - 1
  <2>1. Counting' = Counting \ {p} /\ p \in Counting
    BY <1>5 DEF Counting, TypeOK
  <2> QED
    BY <1>1, <2>1, FS_RemoveElement
<1>6. to # "count" /\ epc[p] # "count" => Counting' = Counting
  BY DEF Counting, TypeOK
<1> QED
  BY <1>2, <1>3, <1>4, <1>5, <1>6

\* Their numbers.
LEMMA CountsAreNat ==
  /\ Cardinality(OnTheirWay) \in Nat /\ Cardinality(Counting) \in Nat
  /\ Cardinality(Producers) \in Nat /\ Cardinality(Counting) <= Cardinality(Producers)
<1>1. OnTheirWay \subseteq Producers /\ Counting \subseteq Producers
  BY DEF OnTheirWay, Counting
<1> QED
  BY <1>1, ProducersAreFinite, FS_Subset, FS_CardinalityType

\* An event more of one producer is one more in all.
LEMMA EmittedAdds ==
  ASSUME TypeOK, NEW p \in Producers
  PROVE  emitted' = [emitted EXCEPT ![p] = emitted[p] + 1]
           => TotalEmitted \in Nat /\ TotalEmitted' = TotalEmitted + 1
<1>1. \A f, g : (/\ DOMAIN f = Producers /\ DOMAIN g = Producers
                /\ \A q \in Producers : f[q] \in Nat /\ g[q] = f[q] + (IF q = p THEN 1 ELSE 0))
               => Sums(f)[Producers] \in Nat /\ Sums(g)[Producers] = Sums(f)[Producers] + 1
  BY ProducersAreFinite, SumsAdd
<1>2. emitted \in [Producers -> Nat]
  BY Sizes DEF TypeOK
<1>3. ASSUME emitted' = [emitted EXCEPT ![p] = emitted[p] + 1]
      PROVE  TotalEmitted \in Nat /\ TotalEmitted' = TotalEmitted + 1
  <2>1. DOMAIN emitted = Producers /\ DOMAIN emitted' = Producers
    BY <1>2, <1>3
  <2>2. \A q \in Producers :
          emitted[q] \in Nat /\ emitted'[q] = emitted[q] + (IF q = p THEN 1 ELSE 0)
    BY <1>2, <1>3
  <2>3. TotalEmitted = Sums(emitted)[Producers] /\ TotalEmitted' = Sums(emitted')[Producers]
    BY <2>1, SumIsSums DEF TotalEmitted
  <2> QED
    BY <1>1, <2>1, <2>2, <2>3
<1> QED
  BY <1>3

\* Nobody has emitted at first.
LEMMA NothingEmitted == Init => TotalEmitted = 0 /\ Cardinality(OnTheirWay) = 0
<1> SUFFICES ASSUME Init PROVE TotalEmitted = 0 /\ Cardinality(OnTheirWay) = 0
  OBVIOUS
<1>1. OnTheirWay = {}
  BY DEF Init, OnTheirWay
<1>2. IsFiniteSet(Producers)
  BY ProducersAreFinite
<1>3. emitted = [p \in Producers |-> 0] /\ DOMAIN emitted = Producers
  BY DEF Init
<1>4. \A s \in SUBSET Producers : Sums(emitted)[s] = 0
  BY <1>2, <1>3, SumsOfZeros
<1>5. TotalEmitted = Sums(emitted)[Producers]
  BY <1>3, SumIsSums DEF TotalEmitted
<1>6. Producers \in SUBSET Producers
  OBVIOUS
<1> QED
  BY <1>1, <1>4, <1>5, <1>6, FS_EmptySet

\* A send is one record more in the queue and one event less on its way, or leaves
\* both as they are.
LEMMA OfferCounts ==
  ASSUME TypeOK, NEW p \in Producers, epc[p] = "put", Offer(p)
  PROVE  \/ /\ Len(records') = Len(records) + 1
            /\ Cardinality(OnTheirWay)' = Cardinality(OnTheirWay) - 1
            /\ Cardinality(Counting)' = Cardinality(Counting)
         \/ /\ UNCHANGED records /\ Len(records) > 0
            /\ Cardinality(OnTheirWay)' = Cardinality(OnTheirWay)
<1>1. CASE records' = Append(records, p) /\ epc' = [epc EXCEPT ![p] = "out"]
  <2>1. Len(records') = Len(records) + 1
    BY <1>1 DEF TypeOK
  <2> QED
    BY <1>1, <2>1, CountsMove
<1>2. CASE Len(records) >= QueueSize /\ epc' = [epc EXCEPT ![p] = "count"] /\ UNCHANGED records
  <2>1. Len(records) \in Nat
    BY DEF TypeOK
  <2>2. Len(records) > 0
    BY <1>2, <2>1, Sizes
  <2>3. Cardinality(OnTheirWay)' = Cardinality(OnTheirWay)
    BY <1>2, CountsMove
  <2> QED
    BY <1>2, <2>2, <2>3
<1> QED
  BY <1>1, <1>2 DEF Offer

\* The records of the account, and its losses.
Kept == Len(records) + InHand + written + unwritten
Lost == dropped + carried + reported + forgotten

\* Sums of integers.
LEMMA SumOfThree ==
  ASSUME NEW a \in Int, NEW b \in Int, NEW c \in Int
  PROVE  a + b + c = a + (b + c)
OBVIOUS

LEMMA SumOfFour == \A a, b, c, d \in Int : a + b + c + d \in Int
OBVIOUS

\* The account, told by the two.
LEMMA AccountInTwo ==
  TypeOK => (EveryEventIsAccountedFor <=> TotalEmitted = Cardinality(OnTheirWay) + Kept + Lost)
<1> SUFFICES ASSUME TypeOK
             PROVE  EveryEventIsAccountedFor <=> TotalEmitted = Cardinality(OnTheirWay) + Kept + Lost
  OBVIOUS
<1>1. /\ Cardinality(OnTheirWay) \in Nat
      /\ Len(records) \in Nat /\ InHand \in Nat /\ written \in Nat /\ dropped \in Nat
      /\ carried \in Nat /\ reported \in Nat /\ unwritten \in Nat /\ forgotten \in Nat
  BY CountsAreNat DEF TypeOK, InHand
<1>2. Cardinality(OnTheirWay) + Kept + Lost
        = Cardinality(OnTheirWay) + Len(records) + InHand + written + unwritten
          + dropped + carried + reported + forgotten
  BY ONLY <1>1, SMTT(60) DEF Kept, Lost
<1> QED
  BY <1>2 DEF EveryEventIsAccountedFor

\* Every step keeps the account.
LEMMA AccountStep == TypeOK /\ TypeOK' /\ AccountInv /\ [Next]_vars => AccountInv'
<1> SUFFICES ASSUME TypeOK, TypeOK', AccountInv, [Next]_vars PROVE AccountInv'
  OBVIOUS
<1>a. Cardinality(OnTheirWay) \in Nat /\ Cardinality(OnTheirWay)' \in Int
  <2>1. CountsAreNat!1'
    BY CountsAreNat, PTL
  <2> QED
    BY <2>1, CountsAreNat
<1>b. /\ Len(records') \in Int /\ InHand' \in Int /\ written' \in Int /\ dropped' \in Int
      /\ carried' \in Int /\ reported' \in Int /\ unwritten' \in Int /\ forgotten' \in Int
  BY DEF TypeOK, InHand
<1>d. /\ Len(records) \in Nat /\ InHand \in {0, 1} /\ written \in Nat /\ dropped \in Nat
      /\ carried \in Nat /\ reported \in Nat /\ unwritten \in Nat /\ forgotten \in Nat
      /\ runner \in {"select", "swap", "lock", "encode", "ended"}
      /\ runner \notin {"lock", "encode"} => carried = 0
  BY DEF AccountInv, TypeOK, InHand
<1>e. TotalEmitted = Cardinality(OnTheirWay) + Kept + Lost
  BY AccountInTwo DEF AccountInv
<1>0. /\ TotalEmitted = Cardinality(OnTheirWay) + Kept + Lost
      /\ runner \notin {"lock", "encode"} => carried = 0
      /\ Len(records) \in Nat /\ InHand \in {0, 1} /\ written \in Nat /\ dropped \in Nat
      /\ carried \in Nat /\ reported \in Nat /\ unwritten \in Nat /\ forgotten \in Nat
      /\ runner \in {"select", "swap", "lock", "encode", "ended"}
  BY <1>d, <1>e
<1>c. ASSUME TotalEmitted' = Cardinality(OnTheirWay)' + Kept' + Lost',
             runner' \notin {"lock", "encode"} => carried' = 0
      PROVE  AccountInv'
  <2>1. (TypeOK => (EveryEventIsAccountedFor
                      <=> TotalEmitted = Cardinality(OnTheirWay) + Kept + Lost))'
    BY AccountInTwo, PTL
  <2> QED
    BY <1>c, <2>1 DEF AccountInv
<1>2. ASSUME NEW p \in Producers,
             epc[p] = "out" /\ epc' = [epc EXCEPT ![p] = "put"],
             emitted' = [emitted EXCEPT ![p] = emitted[p] + 1],
             UNCHANGED <<records, dropped, consumer, pipe>>
      PROVE  AccountInv'
  <2>1. TotalEmitted \in Nat /\ TotalEmitted' = TotalEmitted + 1
    BY <1>2, EmittedAdds
  <2>2. Cardinality(OnTheirWay)' = Cardinality(OnTheirWay) + 1
    BY <1>2, CountsMove
  <2>3. UNCHANGED <<Kept, Lost, carried, runner>>
    BY <1>2 DEF Kept, Lost, InHand, consumer, pipe, fates
  <2>4. Kept \in Nat /\ Lost \in Nat
    BY <1>0 DEF Kept, Lost
  <2> QED
    BY <1>0, <1>a, <1>c, <2>1, <2>2, <2>3, <2>4
<1>3. ASSUME NEW p \in Producers, EmitSend(p) PROVE AccountInv'
  <2>1. \/ /\ Len(records') = Len(records) + 1
           /\ Cardinality(OnTheirWay)' = Cardinality(OnTheirWay) - 1
        \/ /\ UNCHANGED records
           /\ Cardinality(OnTheirWay)' = Cardinality(OnTheirWay)
    BY <1>3, OfferCounts DEF EmitSend
  <2>2. UNCHANGED <<emitted, dropped, runner, carried, written, reported, unwritten, forgotten>>
    BY <1>3 DEF EmitSend, consumer, pipe, fates
  <2>3. TotalEmitted' = TotalEmitted /\ InHand' = InHand
    BY <2>2 DEF TotalEmitted, InHand
  <2> QED
    BY <1>0, <1>a, <1>c, <2>1, <2>2, <2>3, SMTT(60) DEF Kept, Lost
<1>4. ASSUME NEW p \in Producers, EmitCount(p) PROVE AccountInv'
  <2>1. Cardinality(OnTheirWay)' = Cardinality(OnTheirWay) - 1 /\ dropped' = dropped + 1
    BY <1>4, CountsMove DEF EmitCount
  <2>2. UNCHANGED <<emitted, records, runner, carried, written, reported, unwritten, forgotten>>
    BY <1>4 DEF EmitCount, consumer, pipe, fates
  <2>3. TotalEmitted' = TotalEmitted /\ InHand' = InHand
    BY <2>2 DEF TotalEmitted, InHand
  <2> QED
    BY <1>0, <1>a, <1>c, <2>1, <2>2, <2>3, SMTT(60) DEF Kept, Lost
<1>5. ASSUME UNCHANGED <<producer, records, dropped, carried, fates>>,
             \/ runner' = runner
             \/ runner = "select" /\ runner' = "ended"
             \/ runner = "lock" /\ runner' = "encode"
      PROVE  AccountInv'
  <2>1. UNCHANGED <<OnTheirWay, TotalEmitted, InHand>>
    BY <1>5 DEF OnTheirWay, TotalEmitted, InHand, producer
  <2>2. UNCHANGED <<Kept, Lost>>
    BY <1>5, <2>1 DEF fates, Kept, Lost
  <2> QED
    BY <1>0, <1>5, <1>c, <2>1, <2>2
<1>6. CASE Receive \/ TakeDropped \/ Encode \/ EncodeFails
  <2>1. UNCHANGED <<OnTheirWay, TotalEmitted>>
    BY <1>6 DEF Receive, TakeDropped, Encode, EncodeFails, producer, OnTheirWay, TotalEmitted
  <2>2. Kept' + Lost' = Kept + Lost /\ (runner' \notin {"lock", "encode"} => carried' = 0)
    <3>1. CASE Receive
      <4>1. Len(records') = Len(records) - 1
        BY <3>1 DEF Receive, TypeOK
      <4> QED
        BY <1>0, <3>1, <4>1 DEF Receive, pipe, fates, InHand, Kept, Lost
    <3>2. CASE TakeDropped
      BY <1>0, <3>2 DEF TakeDropped, pipe, fates, InHand, Kept, Lost
    <3>3. CASE Encode
      BY <1>0, <3>3 DEF Encode, InHand, Kept, Lost
    <3>4. CASE EncodeFails
      BY <1>0, <3>4 DEF EncodeFails, InHand, Kept, Lost
    <3> QED
      BY <1>6, <3>1, <3>2, <3>3, <3>4
  <2>3. Kept \in Int /\ Lost \in Int /\ Kept' \in Int /\ Lost' \in Int
    <3>1. Kept \in Int /\ Lost \in Int
      BY <1>0 DEF Kept, Lost
    <3>2. Kept' \in Int /\ Lost' \in Int
      BY <1>b, SumOfFour, Zenon DEF Kept, Lost
    <3> QED
      BY <3>1, <3>2
  <2>4. TotalEmitted = Cardinality(OnTheirWay) + (Kept + Lost)
    BY <1>0, <1>a, <2>3, SumOfThree
  <2>5. Cardinality(OnTheirWay)' + Kept' + Lost' = Cardinality(OnTheirWay)' + (Kept' + Lost')
    BY ONLY <1>a, <2>3, SumOfThree, Zenon
  <2>6. TotalEmitted' = Cardinality(OnTheirWay)' + Kept' + Lost'
    BY <2>1, <2>2, <2>4, <2>5, Zenon
  <2> QED
    BY <1>c, <2>2, <2>6
<1>7. CASE SeeStop \/ Quit \/ Lock
  BY <1>5, <1>7 DEF SeeStop, Quit, Lock, pipe
<1>8. ASSUME NEW how \in {"eof", "error"}, End(how) PROVE AccountInv'
  BY <1>2, <1>8 DEF End, Producers
<1>9. CASE Ending \/ PrintErrorFails \/ BrokenPipe \/ ReadStderr
  BY <1>5, <1>9 DEF Ending, PrintError, PrintErrorFails, BrokenPipe, Close, SeeDone, GiveUp,
                    ReadStderr, consumer, pipe
<1>10. CASE UNCHANGED vars
  BY <1>5, <1>10 DEF vars, consumer, pipe
<1>11. ASSUME NEW p \in Producers, EmitCheck(p) PROVE AccountInv'
  BY <1>2, <1>11 DEF EmitCheck
<1> QED
  BY <1>3, <1>4, <1>6, <1>7, <1>8, <1>9, <1>10, <1>11 DEF Next, Runner, Emit

\* telemetry.go:42-97.  Every event that passed the check is on its way, queued, in
\* hand, written, refused by stderr, counted as lost or lost with its count taken
\* along by a record, exactly once.
THEOREM EventsAccounted == Spec => []EveryEventIsAccountedFor
<1>1. Init => AccountInv
  <2> SUFFICES ASSUME Init PROVE AccountInv
    OBVIOUS
  <2>1. TotalEmitted = 0 /\ Cardinality(OnTheirWay) = 0
    BY NothingEmitted
  <2>2. /\ Len(records) = 0 /\ InHand = 0 /\ written = 0 /\ dropped = 0 /\ carried = 0
        /\ reported = 0 /\ unwritten = 0 /\ forgotten = 0
    BY DEF Init, InHand
  <2> QED
    BY <2>1, <2>2 DEF AccountInv, EveryEventIsAccountedFor
<1> QED
  BY <1>1, AccountStep, TypeCorrect, PTL DEF Spec, AccountInv

-----------------------------------------------------------------------------
(* What the counter keeps back. *)

\* Every step keeps the bound: only a full queue sends a producer to the counter, the
\* queue runs dry by a Receive, and the swap that follows empties the counter.
LEMMA LateStep == TypeOK /\ TypeOK' /\ LateLossesAreFew /\ [Next]_vars => LateLossesAreFew'
<1> SUFFICES ASSUME TypeOK, TypeOK', LateLossesAreFew, [Next]_vars, records' = <<>>, runner' # "swap"
             PROVE  dropped' + Cardinality(Counting)' <= Cardinality(Producers)
  BY DEF LateLossesAreFew, Producers
<1>1. /\ dropped \in Nat /\ Cardinality(Counting) \in Nat
      /\ Cardinality(Producers) \in Nat /\ Cardinality(Counting) <= Cardinality(Producers)
  BY CountsAreNat DEF TypeOK
<1>2. Len(records') = 0
  OBVIOUS
<1>3. ASSUME records = <<>>, runner # "swap"
      PROVE  dropped + Cardinality(Counting) <= Cardinality(Producers)
  BY <1>3 DEF LateLossesAreFew
<1>4. ASSUME NEW p \in Producers, epc[p] = "out", epc' = [epc EXCEPT ![p] = "put"],
             UNCHANGED <<records, dropped, runner>>
      PROVE  dropped' + Cardinality(Counting)' <= Cardinality(Producers)
  <2>1. Cardinality(Counting)' = Cardinality(Counting)
    BY <1>4, CountsMove
  <2> QED
    BY <1>3, <1>4, <2>1
<1>5. ASSUME NEW p \in Producers, EmitSend(p)
      PROVE  dropped' + Cardinality(Counting)' <= Cardinality(Producers)
  BY <1>2, <1>5, OfferCounts DEF EmitSend, TypeOK
<1>6. ASSUME NEW p \in Producers, EmitCount(p)
      PROVE  dropped' + Cardinality(Counting)' <= Cardinality(Producers)
  <2>1. Cardinality(Counting)' = Cardinality(Counting) - 1
    BY <1>6, CountsMove DEF EmitCount
  <2> QED
    BY <1>1, <1>3, <1>6, <2>1 DEF EmitCount, consumer
<1>7. CASE TakeDropped
  <2>1. dropped' = 0 /\ Counting' = Counting
    BY <1>7 DEF TakeDropped, producer, Counting
  <2> QED
    BY <1>1, <2>1
<1>8. CASE Receive
  BY <1>8 DEF Receive
<1>9. ASSUME UNCHANGED <<producer, records, dropped>>, runner # "swap"
      PROVE  dropped' + Cardinality(Counting)' <= Cardinality(Producers)
  <2>1. Counting' = Counting
    BY <1>9 DEF producer, Counting
  <2> QED
    BY <1>3, <1>9, <2>1
<1>10. CASE SeeStop \/ Quit \/ Lock \/ Encode \/ EncodeFails
  BY <1>9, <1>10 DEF SeeStop, Quit, Lock, Encode, EncodeFails
<1>11. ASSUME NEW how \in {"eof", "error"}, End(how)
       PROVE  dropped' + Cardinality(Counting)' <= Cardinality(Producers)
  BY <1>4, <1>11 DEF End, Producers, consumer
<1>12. CASE Ending \/ PrintErrorFails \/ BrokenPipe \/ ReadStderr
  BY <1>9, <1>12 DEF Ending, PrintError, PrintErrorFails, BrokenPipe, Close, SeeDone, GiveUp,
                     ReadStderr, consumer
<1>13. CASE UNCHANGED vars
  BY <1>9, <1>13 DEF vars, consumer
<1>14. ASSUME NEW p \in Producers, EmitCheck(p)
       PROVE  dropped' + Cardinality(Counting)' <= Cardinality(Producers)
  BY <1>4, <1>14 DEF EmitCheck, consumer
<1> QED
  BY <1>5, <1>6, <1>7, <1>8, <1>10, <1>11, <1>12, <1>13, <1>14 DEF Next, Runner, Emit

\* telemetry.go:54-58, 77.  Once the queue has run dry with no swap ahead, at most one
\* loss per producer is left in the counter: one counted after the drain.
THEOREM LossesReported == Spec => []LateLossesAreFew
<1>1. Init => LateLossesAreFew
  <2> SUFFICES ASSUME Init PROVE LateLossesAreFew
    OBVIOUS
  <2>1. Counting = {} /\ dropped = 0
    BY DEF Init, Counting
  <2> QED
    BY <2>1, FS_EmptySet, CountsAreNat DEF LateLossesAreFew
<1> QED
  BY <1>1, LateStep, TypeCorrect, PTL DEF Spec
=============================================================================
