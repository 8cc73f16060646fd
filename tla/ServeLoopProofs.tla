---------------------------- MODULE ServeLoopProofs ----------------------------
(***************************************************************************)
(* Theorems about ServeLoop, for any number of requests and any sizes of   *)
(* frames, buffer and pipe.  StreamInv says, for each place the goroutine  *)
(* of the current reply can be at, how its frame is divided among the      *)
(* buffer, the call under way and the stream; everybody else's goroutine   *)
(* has nothing left to write.                                              *)
(***************************************************************************)
EXTENDS ServeLoop, SequenceLemmas

Unit == Nat \X Nat

\* Where the units of the current frame are.  What went before it is in the
\* stream, and after an error nothing follows it.
FrameInv ==
  /\ wpc[seq] = "none" => buffer = <<>> /\ pending[seq] = <<>> /\ stream = Frames[seq]
  /\ wpc[seq] = "write" => buffer = <<>> /\ pending[seq] = <<>> /\ stream = Frames[seq - 1]
  /\ wpc[seq] = "wrote" => pending[seq] = <<>> /\ stream \o buffer = Frames[seq]
  /\ wpc[seq] \in {"writing", "flushing"} => buffer = <<>> /\ stream \o pending[seq] = Frames[seq]
  /\ wpc[seq] \in {"flushed", "sent"} =>
       /\ buffer = <<>> /\ pending[seq] = <<>>
       /\ \E rest \in Seq(Unit) : stream \o rest = Frames[seq]
       /\ outcome[seq] = "ok" => stream = Frames[seq]

StreamInv ==
  /\ stream \in Seq(Unit) /\ buffer \in Seq(Unit) /\ drained \in Nat
  /\ pending \in [Numbers -> Seq(Unit)]
  /\ \A n \in Numbers : n # seq => pending[n] = <<>>
  /\ seq = 0 => stream = <<>> /\ buffer = <<>>
  /\ seq # 0 => FrameInv
  /\ main = "decode" /\ seq # 0 => wpc[seq] = "none" \/ (wpc[seq] = "sent" /\ outcome[seq] = "ok")
  /\ main = "waiting" => seq # 0

\* A stored preview was answered with its result.
HeldInv == \A n \in held : replies[n].kind = "result"

IInv == TypeOK /\ StreamInv

-----------------------------------------------------------------------------
-----------------------------------------------------------------------------
(* The frames as data. *)

FramesEquation ==
  \A n \in 0..MaxRequests : Frames[n] = IF n = 0 THEN <<>> ELSE Frames[n - 1] \o Frame(n)

\* The recursion that defines Frames has a solution, so Frames is one: a least
\* bound up to which there were none would be neither 0 nor a successor.
LEMMA FramesDef == FramesEquation
<1> USE ServeLoopAssumption
<1> DEFINE Good(g, m) == g = [n \in 0..m |-> IF n = 0 THEN <<>> ELSE g[n - 1] \o Frame(n)]
           Bad == {m \in 0..MaxRequests : ~\E g : Good(g, m)}
<1>1. Bad = {}
  <2> SUFFICES ASSUME Bad # {} PROVE FALSE
    OBVIOUS
  <2>1. PICK m \in Bad : \A k \in Bad : m <= k
    <3>1. Bad \in SUBSET Nat
      OBVIOUS
    <3> HIDE DEF Bad
    <3> QED
      BY <3>1, LeastNatural
  <2>2. m \in 0..MaxRequests /\ \A g : ~Good(g, m)
    BY <2>1
  <2>3. m # 0
    <3> DEFINE e == [n \in 0..0 |-> <<>>]
    <3>1. \A n \in 0..0 : n = 0
      OBVIOUS
    <3>2. Good(e, 0)
      BY <3>1
    <3> QED
      BY <2>2, <3>2
  <2>4. m - 1 \in 0..MaxRequests /\ m - 1 \notin Bad
    <3>1. m - 1 \in 0..MaxRequests /\ ~(m <= m - 1)
      BY <2>2, <2>3
    <3> HIDE DEF Bad
    <3> QED
      BY <2>1, <3>1
  <2>5. PICK g : Good(g, m - 1)
    BY <2>4
  <2> DEFINE h == [n \in 0..m |-> IF n = m THEN g[m - 1] \o Frame(m) ELSE g[n]]
  <2>6. h[m] = g[m - 1] \o Frame(m) /\ \A n \in 0..m - 1 : h[n] = g[n]
    BY <2>2
  <2>7. \A n \in 0..m - 1 : g[n] = IF n = 0 THEN <<>> ELSE g[n - 1] \o Frame(n)
    BY <2>5
  <2>8. \A n \in 0..m : h[n] = IF n = 0 THEN <<>> ELSE h[n - 1] \o Frame(n)
    <3> HIDE DEF h
    <3>1. /\ \A n \in 0..m : n = m \/ n \in 0..m - 1
          /\ \A n \in 0..m - 1 : n # 0 => n - 1 \in 0..m - 1
          /\ m - 1 \in 0..m - 1
      BY <2>2, <2>3
    <3> QED
      BY <2>3, <2>6, <2>7, <3>1
  <2>9. Good(h, m)
    BY <2>8
  <2> QED
    BY <2>2, <2>9
<1>2. MaxRequests \in 0..MaxRequests /\ MaxRequests \notin Bad
  <2> HIDE DEF Bad
  <2> QED
    BY <1>1
<1> DEFINE F == CHOOSE g : Good(g, MaxRequests)
<1>3. Good(F, MaxRequests)
  BY <1>2
<1>4. F = Frames
  BY DEF Frames
<1>5. Good(Frames, MaxRequests)
  BY <1>3, <1>4
<1> QED
  BY <1>5 DEF FramesEquation

\* The equation holds in the next state as well.
LEMMA FramesDefNext == FramesEquation'
BY FramesDef, PTL

\* A frame of a reply that is not empty is a sequence of units.
LEMMA FrameType ==
  ASSUME TypeOK, NEW n \in 1..seq
  PROVE  Frame(n) \in Seq(Unit)
<1>0. /\ seq \in Nat /\ n \in Nat /\ n \in 1..Len(replies)
      /\ replies \in Seq(Reply)
  BY ServeLoopAssumption DEF TypeOK
<1>1. replies[n] \in Reply /\ replies[n].size \in Nat
  <2>1. replies[n] \in Reply
    BY <1>0, ElementOfSeq
  <2> QED
    BY <2>1 DEF Reply
<1>2. \A i \in 1..replies[n].size : <<n, i>> \in Unit
  BY <1>0, <1>1 DEF Unit
<1>3. Frame(n) \in [1..replies[n].size -> Unit]
  BY <1>2 DEF Frame
<1> QED
  BY <1>1, <1>3, SeqDef

\* So are the frames of all replies so far, one after the other.
LEMMA FramesType ==
  ASSUME TypeOK
  PROVE  \A n \in 0..seq : Frames[n] \in Seq(Unit)
<1> USE ServeLoopAssumption
<1> DEFINE Bad == {n \in 0..seq : Frames[n] \notin Seq(Unit)}
<1>0. seq \in 0..MaxRequests /\ MaxRequests \in Nat
  BY DEF TypeOK
<1> SUFFICES ASSUME Bad # {} PROVE FALSE
  OBVIOUS
<1>1. PICK m \in Bad : \A k \in Bad : m <= k
  <2>1. Bad \in SUBSET Nat
    OBVIOUS
  <2> HIDE DEF Bad
  <2> QED
    BY <2>1, LeastNatural
<1>2. m \in 0..seq /\ Frames[m] \notin Seq(Unit)
  BY <1>1
<1>3. Frames[m] = IF m = 0 THEN <<>> ELSE Frames[m - 1] \o Frame(m)
  BY <1>0, <1>2, FramesDef DEF FramesEquation
<1>4. m # 0
  BY <1>2, <1>3, EmptySeq
<1>5. m - 1 \in 0..seq /\ ~(m <= m - 1) /\ m \in 1..seq
  BY <1>0, <1>2, <1>4
<1>6. Frames[m - 1] \in Seq(Unit)
  <2>1. m - 1 \notin Bad
    <3> HIDE DEF Bad
    <3> QED
      BY <1>1, <1>5
  <2> QED
    BY <1>5, <2>1
<1>7. Frame(m) \in Seq(Unit)
  BY <1>5, FrameType
<1> QED
  BY <1>2, <1>3, <1>4, <1>6, <1>7, ConcatProperties

\* Frames that do not change do not change the stream they make up.
LEMMA FramesKept ==
  ASSUME NEW m \in 0..MaxRequests, \A n \in 1..m : Frame(n)' = Frame(n)
  PROVE  \A n \in 0..m : Frames'[n] = Frames[n]
<1> USE ServeLoopAssumption
<1> DEFINE Bad == {n \in 0..m : Frames'[n] # Frames[n]}
<1> SUFFICES ASSUME Bad # {} PROVE FALSE
  OBVIOUS
<1>1. PICK n \in Bad : \A k \in Bad : n <= k
  <2>1. Bad \in SUBSET Nat
    OBVIOUS
  <2> HIDE DEF Bad
  <2> QED
    BY <2>1, LeastNatural
<1>2. n \in 0..m /\ n \in 0..MaxRequests /\ Frames'[n] # Frames[n]
  BY <1>1
<1>3. /\ Frames[n] = IF n = 0 THEN <<>> ELSE Frames[n - 1] \o Frame(n)
      /\ Frames'[n] = IF n = 0 THEN <<>> ELSE Frames'[n - 1] \o Frame(n)'
  BY <1>2, FramesDef, FramesDefNext DEF FramesEquation
<1>4. n # 0
  BY <1>2, <1>3
<1>5. n - 1 \in 0..m /\ ~(n <= n - 1) /\ n \in 1..m
  BY <1>2, <1>4
<1>6. Frames'[n - 1] = Frames[n - 1]
  <2>1. n - 1 \notin Bad
    <3> HIDE DEF Bad
    <3> QED
      BY <1>1, <1>5
  <2> QED
    BY <1>5, <2>1
<1> QED
  BY <1>2, <1>3, <1>4, <1>5, <1>6

\* While no reply is added, the frames stay.
LEMMA FramesSame ==
  ASSUME TypeOK, UNCHANGED replies
  PROVE  \A n \in 0..MaxRequests : Frames'[n] = Frames[n]
<1>1. MaxRequests \in 0..MaxRequests
  BY ServeLoopAssumption
<1>2. \A n \in 1..MaxRequests : Frame(n)' = Frame(n)
  BY DEF Frame
<1> QED
  BY <1>1, <1>2, FramesKept

\* What the output takes moves from the call to the stream.
LEMMA MoveHead ==
  ASSUME NEW s \in Seq(Unit), NEW p \in Seq(Unit), p # <<>>
  PROVE  /\ Append(s, Head(p)) \in Seq(Unit) /\ Len(Append(s, Head(p))) = Len(s) + 1
         /\ Tail(p) \in Seq(Unit)
         /\ Append(s, Head(p)) \o Tail(p) = s \o p
<1>1. Head(p) \in Unit /\ Tail(p) \in Seq(Unit)
  BY HeadTailProperties
<1>2. p = <<Head(p)>> \o Tail(p)
  <2>1. <<Head(p)>> \in Seq(Unit) /\ Len(<<Head(p)>>) = 1
    BY <1>1
  <2>2. Len(Tail(p)) = Len(p) - 1 /\ Len(p) \in Nat \ {0}
    BY HeadTailProperties, EmptySeq
  <2>3. <<Head(p)>> \o Tail(p) \in Seq(Unit) /\ Len(<<Head(p)>> \o Tail(p)) = Len(p)
    BY <1>1, <2>1, <2>2, ConcatProperties
  <2>4. \A i \in 1..Len(p) : (<<Head(p)>> \o Tail(p))[i] = p[i]
    BY <1>1, <2>1, <2>2
  <2> QED
    BY <2>3, <2>4, SeqEqual
<1>3. Append(s, Head(p)) = s \o <<Head(p)>> /\ Len(Append(s, Head(p))) = Len(s) + 1
  BY <1>1, AppendIsConcat, AppendProperties
<1>4. <<Head(p)>> \in Seq(Unit)
  BY <1>1
<1> QED
  BY <1>1, <1>2, <1>3, <1>4, ConcatAssociative, ConcatProperties

\* A reply has a kind and a size.
LEMMA AnswerType ==
  ASSUME NEW r \in Request
  PROVE  Answer(r) \in Reply /\ (Answer(r).kind = "none" => Answer(r).size = 0)
<1>1. r.id \in Nat /\ r.body \in Nat /\ r.kind \in Kinds /\ Envelope \in Nat
  BY ServeLoopAssumption DEF Request
<1>2. \A kind \in {"result", "error"}, id \in Nat, body \in Nat :
        Sized(kind, id, body) \in Reply /\ Sized(kind, id, body).kind # "none"
  BY <1>1 DEF Sized, Reply
<1>3. NoReply \in Reply /\ NoReply.kind = "none" /\ NoReply.size = 0
  BY DEF NoReply, Reply
<1> QED
  BY <1>1, <1>2, <1>3 DEF Answer, Kinds

-----------------------------------------------------------------------------
(* Each action preserves the invariant. *)

\* The initial state satisfies the invariant.
LEMMA InitIInv == Init => IInv /\ HeldInv
<1> SUFFICES ASSUME Init PROVE IInv /\ HeldInv
  OBVIOUS
<1> USE ServeLoopAssumption
<1>1. TypeOK
  BY DEF Init, TypeOK
<1>2. StreamInv
  BY EmptySeq DEF Init, StreamInv, Numbers
<1> QED
  BY <1>1, <1>2 DEF Init, IInv, HeldInv

\* A step of main or of the client that writes nothing.
LEMMA QuietStep ==
  ASSUME IInv, UNCHANGED <<seq, replies, wpc, outcome, pending, buffer, stream>>,
         drained' \in Nat,
         main' = "decode" => main = "decode" \/ (wpc[seq] = "sent" /\ outcome[seq] = "ok"),
         main' = "waiting" => main = "waiting"
  PROVE  StreamInv'
<1>1. seq \in 0..MaxRequests /\ MaxRequests \in Nat
  BY ServeLoopAssumption DEF IInv, TypeOK
<1>2. \A n \in 0..MaxRequests : Frames'[n] = Frames[n]
  BY FramesSame DEF IInv
<1>3. seq # 0 => seq - 1 \in 0..MaxRequests
  BY <1>1
<1>4. seq # 0 => FrameInv'
  BY <1>1, <1>2, <1>3 DEF IInv, StreamInv, FrameInv
<1> QED
  BY <1>4 DEF IInv, StreamInv

LEMMA MainStep ==
  ASSUME IInv, EndOfInput \/ TakeOutcome \/ Fire \/ TakeTimeout \/ CloseOutput \/ PrintError \/ Exit
  PROVE  IInv'
<1>1. TypeOK'
  BY DEF IInv, TypeOK, EndOfInput, TakeOutcome, Fire, TakeTimeout, CloseOutput, PrintError, Exit, pipe
<1>2. StreamInv'
  BY QuietStep DEF EndOfInput, TakeOutcome, Fire, TakeTimeout, CloseOutput, PrintError, Exit, pipe,
                   IInv, StreamInv
<1> QED
  BY <1>1, <1>2 DEF IInv

LEMMA ClientStep == ASSUME IInv, Drain \/ Leave PROVE IInv'
<1>0. drained \in Nat /\ Len(stream) \in Nat /\ PipeSize \in Nat
  BY LenProperties, ServeLoopAssumption DEF IInv, StreamInv
<1>1. TypeOK'
  <2>1. CASE Drain
    <3>1. drained' <= Len(stream) /\ Len(stream) - drained' <= PipeSize
      BY <1>0, <2>1 DEF Drain, IInv, TypeOK
    <3> QED
      BY <2>1, <3>1 DEF IInv, TypeOK, Drain, mains
  <2>2. CASE Leave
    BY <2>2 DEF IInv, TypeOK, Leave, mains, pipe
  <2> QED
    BY <2>1, <2>2
<1>2. /\ UNCHANGED <<seq, replies, wpc, outcome, pending, buffer, stream>>
      /\ main' = main /\ drained' \in Nat
  BY <1>0 DEF Drain, Leave, mains, pipe
<1>3. StreamInv'
  BY <1>2, QuietStep
<1> QED
  BY <1>1, <1>3 DEF IInv

\* A request is decoded when everything before it was answered in full.
LEMMA ServeStep == ASSUME IInv, NEW r \in Request, Serve(r) PROVE IInv'
<1> USE ServeLoopAssumption
<1>0. PICK m : m = seq + 1
  OBVIOUS
<1>1. /\ seq \in 0..MaxRequests /\ seq' = m /\ m \in 1..MaxRequests /\ m - 1 = seq
      /\ seq < MaxRequests /\ MaxRequests \in Nat
      /\ replies \in Seq(Reply) /\ Len(replies) = seq
      /\ Answer(r) \in Reply /\ replies' = Append(replies, Answer(r))
  BY <1>0, AnswerType DEF IInv, TypeOK, Serve
<1>2. /\ replies' \in Seq(Reply) /\ Len(replies') = m
      /\ replies'[m] = Answer(r) /\ \A n \in 1..seq : replies'[n] = replies[n]
  BY <1>1, AppendProperties
<1>3. /\ main = "decode" /\ UNCHANGED <<blocked, outcome, pending, buffer, stream, drained, gone>>
      /\ wpc' = IF Answer(r).kind = "none" THEN wpc ELSE [wpc EXCEPT ![m] = "write"]
      /\ main' = IF Answer(r).kind = "none" THEN main ELSE "waiting"
      /\ timer' = IF Answer(r).kind = "none" THEN timer ELSE "running"
  BY <1>1 DEF Serve, pipe
<1>4. /\ wpc[m] = "none" /\ \A n \in 1..seq : wpc[n] \in {"none", "sent"}
      /\ buffer = <<>> /\ \A n \in Numbers : pending[n] = <<>>
      /\ stream = Frames[seq] /\ stream \in Seq(Unit)
  <2>0. wpc[m] = "none"
    BY <1>1 DEF IInv, TypeOK, Numbers
  <2>1. CASE seq = 0
    <3>1. Frames[0] = <<>>
      BY FramesDef DEF FramesEquation
    <3> QED
      BY <1>1, <2>0, <2>1, <3>1 DEF IInv, StreamInv, Numbers
  <2>2. CASE seq # 0
    <3>1. seq \in Numbers /\ FrameInv
          /\ (wpc[seq] = "none" \/ (wpc[seq] = "sent" /\ outcome[seq] = "ok"))
      BY <1>1, <1>3, <2>2 DEF IInv, StreamInv, Numbers
    <3>2. buffer = <<>> /\ pending[seq] = <<>> /\ stream = Frames[seq]
      BY <3>1 DEF FrameInv
    <3>3. \A n \in 1..seq : n = seq \/ n \in 1..seq - 1
      BY <1>1
    <3> QED
      BY <2>0, <3>1, <3>2, <3>3 DEF IInv, StreamInv, TypeOK
  <2> QED
    BY <2>1, <2>2
<1>5. TypeOK'
  <2>1. held' \subseteq 1..m
    <3>1. held \subseteq 1..seq /\ 1..seq \subseteq 1..m /\ m \in 1..m
      BY <1>1 DEF IInv, TypeOK
    <3>2. held' \subseteq held \union {m}
      BY <1>1 DEF Serve
    <3> QED
      BY <3>1, <3>2
  <2>2. /\ main' \in {"decode", "waiting", "expired", "failed", "closing", "exited"}
        /\ timer' \in {"off", "running", "fired"} /\ (main' = "waiting" => timer' # "off")
        /\ wpc' \in [Numbers -> {"none", "write", "writing", "wrote", "flushing", "flushed", "sent"}]
    BY <1>3 DEF IInv, TypeOK
  <2>3. \A n \in Numbers : wpc'[n] # "none" => n <= m /\ replies'[n].kind # "none"
    <3> SUFFICES ASSUME NEW n \in Numbers, wpc'[n] # "none"
                 PROVE  n <= m /\ replies'[n].kind # "none"
      OBVIOUS
    <3>1. CASE n = m
      BY <1>2, <1>3, <1>4, <3>1 DEF IInv, TypeOK
    <3>2. CASE n # m
      <4>1. wpc[n] # "none"
        BY <1>3, <3>2 DEF IInv, TypeOK
      <4>2. n <= seq /\ replies[n].kind # "none" /\ n \in 1..seq
        BY <1>1, <4>1 DEF IInv, TypeOK, Numbers
      <4> QED
        BY <1>1, <1>2, <4>2
    <3> QED
      BY <3>1, <3>2
  <2>4. \A n \in 1..m - 1 : wpc'[n] \in {"none", "sent"}
    BY <1>1, <1>3, <1>4 DEF IInv, TypeOK
  <2>5. /\ m \in 0..MaxRequests
        /\ blocked' \in {"none", "write", "flush"} /\ outcome' \in [Numbers -> {"none", "ok", "error"}]
        /\ Len(buffer') <= BufSize /\ drained' <= Len(stream') /\ Len(stream') - drained' <= PipeSize
        /\ gone' \in {"none", "closed", "left"}
    BY <1>1, <1>3 DEF IInv, TypeOK
  <2> QED
    BY <1>1, <1>2, <2>1, <2>2, <2>3, <2>4, <2>5 DEF TypeOK
<1>6. /\ Frames'[seq] = Frames[seq]
      /\ Frames'[m] = Frames'[seq] \o Frame(m)'
  <2>1. \A n \in 1..seq : Frame(n)' = Frame(n)
    BY <1>2 DEF Frame
  <2>2. Frames'[seq] = Frames[seq]
    BY <1>1, <2>1, FramesKept
  <2>3. m \in 0..MaxRequests /\ m # 0
    BY <1>1
  <2> QED
    BY <1>1, <2>2, <2>3, FramesDefNext DEF FramesEquation
<1>7. FrameInv'
  <2>1. CASE Answer(r).kind = "none"
    <3>1. replies'[m].size = 0
      BY <1>2, <2>1, AnswerType
    <3>2. Frame(m)' = <<>>
      BY <3>1 DEF Frame
    <3>3. Frames'[m] = stream
      BY <1>4, <1>6, <3>2, ConcatEmptySeq
    <3> QED
      BY <1>1, <1>3, <1>4, <2>1, <3>3 DEF FrameInv, Numbers
  <2>2. CASE Answer(r).kind # "none"
    <3>1. wpc'[m] = "write"
      BY <1>1, <1>3, <2>2 DEF IInv, TypeOK, Numbers
    <3> QED
      BY <1>1, <1>3, <1>4, <1>6, <3>1 DEF FrameInv, Numbers
  <2> QED
    BY <2>1, <2>2
<1>8. StreamInv'
  <2>1. main' = "decode" => wpc'[m] = "none"
    BY <1>3, <1>4
  <2>2. /\ stream' \in Seq(Unit) /\ buffer' \in Seq(Unit) /\ drained' \in Nat
        /\ pending' \in [Numbers -> Seq(Unit)]
        /\ \A n \in Numbers : pending'[n] = <<>>
    BY <1>3, <1>4 DEF IInv, StreamInv
  <2>3. seq' = m /\ m # 0
    BY <1>1
  <2>4. seq' # 0
    BY <2>3
  <2>5. wpc'[seq'] = wpc'[m]
    BY <2>3
  <2> QED
    BY <1>7, <2>1, <2>2, <2>4, <2>5 DEF StreamInv
<1> QED
  BY <1>5, <1>8 DEF IInv

\* A goroutine that has something left to do is that of the last reply, and main
\* is not decoding.
LEMMA WriterFacts ==
  ASSUME IInv, NEW n \in Numbers, wpc[n] \notin {"none", "sent"} \/ pending[n] # <<>>
  PROVE  /\ n = seq /\ seq # 0 /\ FrameInv /\ main # "decode"
         /\ wpc[n] \notin {"none", "sent"}
         /\ (pending[n] # <<>> => wpc[n] \in {"writing", "flushing"})
         /\ seq \in 0..MaxRequests /\ seq - 1 \in 0..MaxRequests
         /\ stream \in Seq(Unit) /\ buffer \in Seq(Unit) /\ pending[n] \in Seq(Unit)
         /\ Frames[seq - 1] \in Seq(Unit) /\ Frame(n) \in Seq(Unit)
         /\ Frames[seq] = Frames[seq - 1] \o Frame(n)
<1> USE ServeLoopAssumption
<1>1. seq \in 0..MaxRequests /\ n \in 1..MaxRequests /\ MaxRequests \in Nat
  BY DEF IInv, TypeOK, Numbers
<1>2. n = seq
  <2>1. CASE wpc[n] \notin {"none", "sent"}
    <3>1. n <= seq /\ n \notin 1..seq - 1
      BY <2>1 DEF IInv, TypeOK
    <3> QED
      BY <1>1, <3>1
  <2>2. CASE pending[n] # <<>>
    BY <2>2 DEF IInv, StreamInv
  <2> QED
    BY <2>1, <2>2
<1>3. seq # 0 /\ seq - 1 \in 0..MaxRequests /\ seq - 1 \in 0..seq /\ n \in 1..seq
  BY <1>1, <1>2
<1>4. FrameInv /\ (main = "decode" => wpc[seq] = "none" \/ wpc[seq] = "sent")
  BY <1>3 DEF IInv, StreamInv
<1>5. wpc[n] \in {"none", "write", "writing", "wrote", "flushing", "flushed", "sent"}
  BY DEF IInv, TypeOK
<1>6. pending[n] # <<>> => wpc[n] \in {"writing", "flushing"}
  BY <1>2, <1>4, <1>5 DEF FrameInv
<1>7. Frames[seq - 1] \in Seq(Unit) /\ Frame(n) \in Seq(Unit)
  BY <1>3, FramesType, FrameType DEF IInv
<1>8. Frames[seq] = Frames[seq - 1] \o Frame(n)
  BY <1>1, <1>2, <1>3, FramesDef DEF FramesEquation
<1>9. stream \in Seq(Unit) /\ buffer \in Seq(Unit) /\ pending[n] \in Seq(Unit)
  BY DEF IInv, StreamInv
<1> QED
  BY <1>1, <1>2, <1>3, <1>4, <1>6, <1>7, <1>8, <1>9

\* A step of that goroutine keeps the invariant when it keeps the division of the
\* current frame and the room of the buffer and the pipe.
LEMMA WriterKeeps ==
  ASSUME IInv, NEW n \in Numbers, n = seq, seq # 0, main # "decode", wpc[n] # "none",
         UNCHANGED mains, gone' \in {"none", "closed", "left"},
         NEW pc \in {"write", "writing", "wrote", "flushing", "flushed", "sent"},
         wpc' = [wpc EXCEPT ![n] = pc],
         outcome' \in [Numbers -> {"none", "ok", "error"}],
         NEW p \in Seq(Unit), pending' = [pending EXCEPT ![n] = p],
         stream' \in Seq(Unit), buffer' \in Seq(Unit), UNCHANGED drained,
         Len(buffer') <= BufSize, drained <= Len(stream'), Len(stream') - drained <= PipeSize,
         FrameInv'
  PROVE  IInv'
<1>1. /\ UNCHANGED <<main, seq, replies, held, timer, blocked>>
      /\ seq \in 0..MaxRequests /\ MaxRequests \in Nat
  BY ServeLoopAssumption DEF mains, IInv, TypeOK
<1>2. \A k \in 1..seq - 1 : k # n
  BY <1>1
<1>3. TypeOK'
  <2>1. wpc' \in [Numbers -> {"none", "write", "writing", "wrote", "flushing", "flushed", "sent"}]
    BY DEF IInv, TypeOK
  <2>2. \A k \in Numbers : wpc'[k] # "none" => wpc[k] # "none"
    BY DEF IInv, TypeOK
  <2>3. \A k \in 1..seq - 1 : wpc'[k] = wpc[k]
    BY <1>1, <1>2 DEF IInv, TypeOK, Numbers
  <2> QED
    BY <1>1, <2>1, <2>2, <2>3 DEF IInv, TypeOK
<1>4. StreamInv'
  <2>1. /\ pending' \in [Numbers -> Seq(Unit)]
        /\ \A k \in Numbers : k # seq => pending'[k] = <<>>
    BY DEF IInv, StreamInv
  <2> QED
    BY <1>1, <2>1 DEF IInv, StreamInv
<1> QED
  BY <1>3, <1>4 DEF IInv

LEMMA WriteStep == ASSUME IInv, NEW n \in Numbers, Write(n) PROVE IInv'
<1>1. wpc[n] = "write" /\ UNCHANGED <<mains, outcome, stream, drained, gone, seq, replies>>
  BY DEF Write, mains, pipe
<1>2. \A k \in 0..MaxRequests : Frames'[k] = Frames[k]
  BY <1>1, FramesSame DEF IInv
<1>3. buffer = <<>> /\ pending[n] = <<>> /\ stream = Frames[seq - 1]
  BY <1>1, WriterFacts DEF FrameInv
<1>4. buffer \o Frame(n) = Frame(n)
  BY <1>1, <1>3, WriterFacts, ConcatEmptySeq
<1>5. CASE Len(Frame(n)) <= BufSize
  <2>1. buffer' = Frame(n) /\ pending' = pending /\ wpc' = [wpc EXCEPT ![n] = "wrote"]
    BY <1>4, <1>5 DEF Write
  <2>2. wpc'[seq'] = "wrote" /\ pending'[seq'] = <<>> /\ stream' \o buffer' = Frames'[seq']
    BY <1>1, <1>2, <1>3, <2>1, WriterFacts DEF IInv, TypeOK
  <2>3. FrameInv'
    BY <2>2 DEF FrameInv
  <2>4. pending' = [pending EXCEPT ![n] = <<>>]
    BY <1>3, <2>1 DEF IInv, StreamInv
  <2> QED
    BY <1>1, <1>5, <2>1, <2>3, <2>4, WriterFacts, WriterKeeps, EmptySeq DEF IInv, TypeOK
<1>6. CASE ~(Len(Frame(n)) <= BufSize)
  <2>1. /\ buffer' = <<>> /\ pending' = [pending EXCEPT ![n] = Frame(n)]
        /\ wpc' = [wpc EXCEPT ![n] = "writing"]
    BY <1>4, <1>6 DEF Write
  <2>2. /\ wpc'[seq'] = "writing" /\ pending'[seq'] = Frame(n)
        /\ stream' \o pending'[seq'] = Frames'[seq']
    BY <1>1, <1>2, <1>3, <2>1, WriterFacts DEF IInv, TypeOK, StreamInv
  <2>3. FrameInv'
    BY <2>1, <2>2 DEF FrameInv
  <2>4. buffer' \in Seq(Unit) /\ Len(buffer') <= BufSize
    BY <2>1, EmptySeq, ServeLoopAssumption
  <2> QED
    BY <1>1, <2>1, <2>3, <2>4, WriterFacts, WriterKeeps DEF IInv, TypeOK
<1> QED
  BY <1>5, <1>6

LEMMA OutputStep == ASSUME IInv, NEW n \in Numbers, Output(n) PROVE IInv'
<1>1. /\ pending[n] # <<>> /\ UNCHANGED <<mains, wpc, outcome, buffer, drained, gone, seq, replies>>
      /\ Len(stream) - drained < PipeSize
      /\ stream' = Append(stream, Head(pending[n]))
      /\ pending' = [pending EXCEPT ![n] = Tail(pending[n])]
  BY DEF Output, mains
<1>2. \A k \in 0..MaxRequests : Frames'[k] = Frames[k]
  BY <1>1, FramesSame DEF IInv
<1>3. /\ n = seq /\ FrameInv /\ wpc[n] \in {"writing", "flushing"} /\ seq \in 0..MaxRequests
      /\ seq # 0 /\ main # "decode" /\ stream \in Seq(Unit) /\ pending[n] \in Seq(Unit)
      /\ buffer \in Seq(Unit)
  BY <1>1, WriterFacts
<1>4. buffer = <<>> /\ stream \o pending[n] = Frames[seq]
  BY <1>3 DEF FrameInv
<1>5. /\ stream' \in Seq(Unit) /\ Len(stream') = Len(stream) + 1 /\ Tail(pending[n]) \in Seq(Unit)
      /\ stream' \o Tail(pending[n]) = stream \o pending[n]
  BY <1>1, <1>3, MoveHead
<1>6. pending'[n] = Tail(pending[n])
  BY <1>1 DEF IInv, StreamInv
<1>7. FrameInv'
  BY <1>1, <1>2, <1>3, <1>4, <1>5, <1>6 DEF FrameInv
<1>8. /\ drained <= Len(stream') /\ Len(stream') - drained <= PipeSize
      /\ Len(buffer') <= BufSize
  <2>1. drained \in Nat /\ Len(stream) \in Nat /\ PipeSize \in Nat /\ drained <= Len(stream)
        /\ Len(buffer) <= BufSize
    BY <1>3, LenProperties, ServeLoopAssumption DEF IInv, StreamInv, TypeOK
  <2> QED
    BY <1>1, <1>5, <2>1
<1>9. wpc' = [wpc EXCEPT ![n] = wpc[n]] /\ outcome' \in [Numbers -> {"none", "ok", "error"}]
      /\ gone' \in {"none", "closed", "left"}
  BY <1>1 DEF IInv, TypeOK
<1> QED
  BY <1>1, <1>3, <1>5, <1>7, <1>8, <1>9, WriterKeeps

LEMMA OutputFailsStep == ASSUME IInv, NEW n \in Numbers, OutputFails(n) PROVE IInv'
<1>1. /\ pending[n] # <<>> /\ UNCHANGED <<mains, buffer, stream, drained, gone, seq, replies>>
      /\ pending' = [pending EXCEPT ![n] = <<>>]
      /\ outcome' = [outcome EXCEPT ![n] = "error"]
      /\ wpc' = [wpc EXCEPT ![n] = IF wpc[n] = "writing" THEN "sent" ELSE "flushed"]
  BY DEF OutputFails, mains, pipe
<1>2. \A k \in 0..MaxRequests : Frames'[k] = Frames[k]
  BY <1>1, FramesSame DEF IInv
<1>3. /\ n = seq /\ FrameInv /\ wpc[n] \in {"writing", "flushing"} /\ seq \in 0..MaxRequests
      /\ seq # 0 /\ main # "decode" /\ stream \in Seq(Unit) /\ pending[n] \in Seq(Unit)
      /\ buffer \in Seq(Unit)
  BY <1>1, WriterFacts
<1>4. buffer = <<>> /\ stream \o pending[n] = Frames[seq]
  BY <1>3 DEF FrameInv
<1>5. PICK pc \in {"sent", "flushed"} : wpc' = [wpc EXCEPT ![n] = pc]
  BY <1>1
<1>6. pending'[n] = <<>> /\ wpc'[n] = pc /\ outcome'[n] = "error"
  BY <1>1, <1>5 DEF IInv, StreamInv, TypeOK
<1>7. FrameInv'
  BY <1>1, <1>2, <1>3, <1>4, <1>5, <1>6 DEF FrameInv
<1>8. /\ drained <= Len(stream') /\ Len(stream') - drained <= PipeSize /\ Len(buffer') <= BufSize
      /\ gone' \in {"none", "closed", "left"}
      /\ outcome' \in [Numbers -> {"none", "ok", "error"}]
  BY <1>1 DEF IInv, TypeOK
<1> QED
  BY <1>1, <1>3, <1>5, <1>7, <1>8, WriterKeeps, EmptySeq

LEMMA FlushStep == ASSUME IInv, NEW n \in Numbers, Flush(n) PROVE IInv'
<1>1. /\ wpc[n] = "wrote" /\ UNCHANGED <<mains, outcome, stream, drained, gone, seq, replies>>
      /\ pending' = [pending EXCEPT ![n] = buffer] /\ buffer' = <<>>
      /\ wpc' = [wpc EXCEPT ![n] = "flushing"]
  BY DEF Flush, mains, pipe
<1>2. \A k \in 0..MaxRequests : Frames'[k] = Frames[k]
  BY <1>1, FramesSame DEF IInv
<1>3. /\ n = seq /\ seq # 0 /\ main # "decode" /\ seq \in 0..MaxRequests
      /\ stream \in Seq(Unit) /\ buffer \in Seq(Unit) /\ stream \o buffer = Frames[seq]
  BY <1>1, WriterFacts DEF FrameInv
<1>4. pending'[n] = buffer /\ wpc'[n] = "flushing"
  BY <1>1 DEF IInv, StreamInv, TypeOK
<1>5. FrameInv'
  BY <1>1, <1>2, <1>3, <1>4 DEF FrameInv
<1>6. buffer' \in Seq(Unit) /\ Len(buffer') <= BufSize
  BY <1>1, EmptySeq, ServeLoopAssumption
<1>7. /\ drained <= Len(stream') /\ Len(stream') - drained <= PipeSize
      /\ gone' \in {"none", "closed", "left"}
      /\ outcome' \in [Numbers -> {"none", "ok", "error"}]
  BY <1>1 DEF IInv, TypeOK
<1> QED
  BY <1>1, <1>3, <1>5, <1>6, <1>7, WriterKeeps

\* Steps that only move the goroutine on.
LEMMA ReturnStep ==
  ASSUME IInv, NEW n \in Numbers, WriteReturns(n) \/ FlushReturns(n) \/ Report(n) PROVE IInv'
<1>1. /\ UNCHANGED <<mains, pending, buffer, stream, drained, gone, seq, replies>>
      /\ wpc[n] \notin {"none", "sent"} /\ pending[n] = <<>>
  BY WriterFacts DEF WriteReturns, FlushReturns, Report, mains, pipe
<1>2. \A k \in 0..MaxRequests : Frames'[k] = Frames[k]
  BY <1>1, FramesSame DEF IInv
<1>3. /\ n = seq /\ FrameInv /\ seq # 0 /\ main # "decode" /\ seq \in 0..MaxRequests
      /\ stream \in Seq(Unit) /\ buffer \in Seq(Unit)
  BY <1>1, WriterFacts
<1>4. stream \o <<>> = stream /\ <<>> \in Seq(Unit)
  BY <1>3, ConcatEmptySeq, EmptySeq
<1>5. \E pc \in {"wrote", "flushed", "sent"} :
         wpc' = [wpc EXCEPT ![n] = pc] /\ FrameInv' /\ outcome' \in [Numbers -> {"none", "ok", "error"}]
  <2>1. CASE WriteReturns(n)
    <3>1. /\ wpc[n] = "writing" /\ wpc' = [wpc EXCEPT ![n] = "wrote"] /\ UNCHANGED outcome
          /\ wpc'[n] = "wrote"
      BY <2>1 DEF WriteReturns, IInv, TypeOK
    <3>2. buffer = <<>> /\ stream = Frames[seq]
      BY <1>1, <1>3, <1>4, <3>1 DEF FrameInv
    <3>3. FrameInv'
      BY <1>1, <1>2, <1>3, <1>4, <3>1, <3>2 DEF FrameInv
    <3> QED
      BY <3>1, <3>3 DEF IInv, TypeOK
  <2>2. CASE FlushReturns(n)
    <3>1. /\ wpc[n] = "flushing" /\ wpc' = [wpc EXCEPT ![n] = "flushed"]
          /\ outcome' = [outcome EXCEPT ![n] = "ok"] /\ wpc'[n] = "flushed"
      BY <2>2 DEF FlushReturns, IInv, TypeOK
    <3>2. buffer = <<>> /\ stream = Frames[seq]
      BY <1>1, <1>3, <1>4, <3>1 DEF FrameInv
    <3>3. FrameInv'
      BY <1>1, <1>2, <1>3, <1>4, <3>1, <3>2 DEF FrameInv
    <3> QED
      BY <3>1, <3>3 DEF IInv, TypeOK
  <2>3. CASE Report(n)
    <3>1. /\ wpc[n] = "flushed" /\ wpc' = [wpc EXCEPT ![n] = "sent"] /\ UNCHANGED outcome
          /\ wpc'[n] = "sent"
      BY <2>3 DEF Report, IInv, TypeOK
    <3>2. FrameInv'
      BY <1>1, <1>2, <1>3, <3>1 DEF FrameInv
    <3> QED
      BY <3>1, <3>2 DEF IInv, TypeOK
  <2> QED
    BY <2>1, <2>2, <2>3
<1>6. pending' = [pending EXCEPT ![n] = <<>>]
  BY <1>1 DEF IInv, StreamInv
<1>7. /\ drained <= Len(stream') /\ Len(stream') - drained <= PipeSize /\ Len(buffer') <= BufSize
      /\ gone' \in {"none", "closed", "left"}
  BY <1>1 DEF IInv, TypeOK
<1> QED
  BY <1>1, <1>3, <1>4, <1>5, <1>6, <1>7, WriterKeeps

\* Every step preserves the invariant.
LEMMA StepIInv == IInv /\ [Next]_vars => IInv'
<1> SUFFICES ASSUME IInv, [Next]_vars PROVE IInv'
  OBVIOUS
<1>1. CASE UNCHANGED vars
  <2>1. UNCHANGED <<main, seq, replies, held, timer, blocked, wpc, outcome, pending, buffer,
                    stream, drained, gone>>
    BY <1>1 DEF vars, mains, pipe
  <2>2. TypeOK'
    BY <2>1 DEF IInv, TypeOK
  <2>3. drained' \in Nat
    BY <2>1 DEF IInv, StreamInv
  <2>4. StreamInv'
    BY <2>1, <2>3, QuietStep
  <2> QED
    BY <2>2, <2>4 DEF IInv
<1>2. ASSUME NEW r \in Request, Serve(r) PROVE IInv'
  BY <1>2, ServeStep
<1>3. ASSUME EndOfInput \/ Send \/ Fire \/ PrintError \/ Exit PROVE IInv'
  BY <1>3, MainStep DEF Send
<1>4. ASSUME NEW n \in Numbers, Writer(n) PROVE IInv'
  BY <1>4, WriteStep, OutputStep, OutputFailsStep, FlushStep, ReturnStep DEF Writer
<1>5. ASSUME Drain \/ Leave PROVE IInv'
  BY <1>5, ClientStep
<1> QED
  BY <1>1, <1>2, <1>3, <1>4, <1>5 DEF Next

\* The invariant holds in every reachable state.
THEOREM Invariance == Spec => []IInv
BY InitIInv, StepIInv, PTL DEF Spec

-----------------------------------------------------------------------------
(* What follows from the invariant. *)

\* transport.go and serve(): the types, a running timer while main waits, and one
\* live goroutine at most.
THEOREM TypeCorrect == Spec => []TypeOK
BY Invariance, PTL DEF IInv

\* What a sequence begins with is a prefix of it.
LEMMA PrefixOfConcat ==
  ASSUME NEW s \in Seq(Unit), NEW rest \in Seq(Unit)
  PROVE  IsPrefix(s, s \o rest)
<1>1. Len(s) \in Nat /\ Len(rest) \in Nat /\ Len(s \o rest) = Len(s) + Len(rest)
  BY LenProperties, ConcatProperties
<1>2. SubSeq(s, 1, Len(s)) = SubSeq(s \o rest, 1, Len(s))
  <2>1. CASE Len(s) = 0
    BY <2>1, SubSeqEmpty
  <2>2. CASE Len(s) # 0
    <3>1. 1 \in 1..Len(s) /\ Len(s) \in 1..Len(s)
      BY <1>1, <2>2
    <3> QED
      BY <3>1, SubSeqOfConcat1
  <2> QED
    BY <2>1, <2>2
<1> QED
  BY <1>1, <1>2 DEF IsPrefix

\* Main and its goroutines share one bufio.Writer without a lock
\* (transport.go:29-47): the client reads the frames in the order of the
\* requests, unmixed, none twice and none left out, the last one possibly cut.
THEOREM StreamInOrder == Spec => []StreamIsFramesInOrder
<1>1. IInv => StreamIsFramesInOrder
  <2> SUFFICES ASSUME IInv PROVE StreamIsFramesInOrder
    OBVIOUS
  <2>1. stream \in Seq(Unit) /\ buffer \in Seq(Unit) /\ <<>> \in Seq(Unit)
    BY EmptySeq DEF IInv, StreamInv
  <2>2. stream \o <<>> = stream
    BY <2>1, ConcatEmptySeq
  <2>3. \E rest \in Seq(Unit) : Frames[seq] = stream \o rest
    <3>1. CASE seq = 0
      <4>1. Frames[0] = <<>>
        BY ServeLoopAssumption, FramesDef DEF FramesEquation
      <4> QED
        BY <2>1, <2>2, <3>1, <4>1 DEF IInv, StreamInv
    <3>2. CASE seq # 0
      <4>0. seq \in Numbers /\ FrameInv
        <5>1. seq \in 0..MaxRequests /\ MaxRequests \in Nat
          BY ServeLoopAssumption DEF IInv, TypeOK
        <5> QED
          BY <3>2, <5>1 DEF IInv, StreamInv, Numbers
      <4>1. /\ seq \in Numbers /\ FrameInv /\ pending[seq] \in Seq(Unit)
            /\ wpc[seq] \in {"none", "write", "writing", "wrote", "flushing", "flushed", "sent"}
        <5>1. wpc \in [Numbers -> {"none", "write", "writing", "wrote", "flushing", "flushed", "sent"}]
              /\ pending \in [Numbers -> Seq(Unit)]
          BY DEF IInv, TypeOK, StreamInv
        <5> QED
          BY <4>0, <5>1
      <4>2. CASE wpc[seq] \in {"none", "flushed", "sent"}
        BY <2>1, <2>2, <4>1, <4>2 DEF FrameInv
      <4>3. CASE wpc[seq] \in {"writing", "flushing", "wrote"}
        BY <2>1, <4>1, <4>3 DEF FrameInv
      <4>4. CASE wpc[seq] = "write"
        BY <4>1, <4>4, WriterFacts DEF FrameInv
      <4> QED
        BY <4>1, <4>2, <4>3, <4>4
    <3> QED
      BY <3>1, <3>2
  <2> QED
    BY <2>1, <2>3, PrefixOfConcat DEF StreamIsFramesInOrder
<1> QED
  BY <1>1, Invariance, PTL

\* transport.go:49-66: when main decodes the next request, the pipe has every reply
\* to its last unit, however the timer and the client behaved.
THEOREM FullAnswers == Spec => []AnsweredInFull
<1>1. IInv => AnsweredInFull
  <2> SUFFICES ASSUME IInv, main = "decode" PROVE stream = Frames[seq]
    BY DEF AnsweredInFull
  <2>1. CASE seq = 0
    BY <2>1, ServeLoopAssumption, FramesDef DEF FramesEquation, IInv, StreamInv
  <2>2. CASE seq # 0
    BY <2>2 DEF IInv, StreamInv, FrameInv
  <2> QED
    BY <2>1, <2>2
<1> QED
  BY <1>1, Invariance, PTL

\* mcp.go, previewEdits and sendMCPResponse: as long as the envelope and every id
\* fit the reserve, a preview in the table was answered with its result, so one
\* that was refused for its size is not in the table.
THEOREM RejectedPreview ==
  ASSUME \A id \in IdSizes : Envelope + id <= Reserve
  PROVE  Spec => []RejectedPreviewKeepsNothing
<1>1. TypeOK /\ HeldInv /\ [Next]_vars => HeldInv'
  <2> SUFFICES ASSUME TypeOK, HeldInv, [Next]_vars PROVE HeldInv'
    OBVIOUS
  <2>1. CASE UNCHANGED <<held, replies>>
    BY <2>1 DEF HeldInv
  <2>2. ASSUME NEW r \in Request, Serve(r) PROVE HeldInv'
    <3>1. /\ replies \in Seq(Reply) /\ Len(replies) = seq /\ held \subseteq 1..seq /\ seq \in Nat
          /\ Answer(r) \in Reply
      BY ServeLoopAssumption, AnswerType DEF TypeOK
    <3>2. PICK m : m = seq + 1
      OBVIOUS
    <3>3. replies'[m] = Answer(r) /\ \A n \in 1..seq : replies'[n] = replies[n]
      BY <2>2, <3>1, <3>2, AppendProperties DEF Serve
    <3>4. held' = IF r.kind = "preview" /\ r.id # 0 /\ PreviewFits(r.body)
                   THEN held \union {m} ELSE held
      BY <2>2, <3>2 DEF Serve
    <3>5. ASSUME r.kind = "preview", r.id # 0, PreviewFits(r.body) PROVE Answer(r).kind = "result"
      <4>1. /\ r.id \in Nat /\ r.body \in Nat /\ Envelope \in Nat /\ Reserve \in Nat /\ Limit \in Nat
            /\ Envelope + r.id <= Reserve
        BY ServeLoopAssumption DEF Request
      <4>2. Envelope + r.id + r.body <= Limit
        BY <3>5, <4>1 DEF PreviewFits
      <4>3. Sized("result", r.id, r.body).kind = "result"
        BY <4>1, <4>2 DEF Sized
      <4> QED
        BY <3>5, <4>3 DEF Answer
    <3> QED
      BY <3>1, <3>3, <3>4, <3>5 DEF HeldInv
  <2>3. CASE Next /\ ~(\E r \in Request : Serve(r))
    <3>1. UNCHANGED <<held, replies>>
      BY <2>3 DEF Next, EndOfInput, Send, TakeOutcome, TakeTimeout, CloseOutput, PrintError, Exit, Fire, Writer,
                  Write, Output, OutputFails, WriteReturns, Flush, FlushReturns, Report, Drain, Leave,
                  mains
    <3> QED
      BY <2>1, <3>1
  <2> QED
    BY <2>1, <2>2, <2>3 DEF vars, mains
<1>2. HeldInv => RejectedPreviewKeepsNothing
  BY DEF HeldInv, RejectedPreviewKeepsNothing
<1> QED
  BY <1>1, <1>2, InitIInv, TypeCorrect, PTL DEF Spec
=============================================================================
