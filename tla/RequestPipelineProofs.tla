----------------------- MODULE RequestPipelineProofs -----------------------
(***************************************************************************)
(* Proofs about RequestPipeline, for every set of requests, middlewares,   *)
(* endpoints and routes, and every bound.                                  *)
(*                                                                         *)
(* What the steps of a request need of one another is one predicate on its *)
(* context, the chain and the table, Sound. Every step of a request takes  *)
(* a sound context to a sound one, and the application changes chain and   *)
(* table only while all requests are idle.                                 *)
(***************************************************************************)
EXTENDS RequestPipeline, FiniteSetTheorems, SequenceTheorems, TLAPS

-----------------------------------------------------------------------------
(* The inductive invariant. *)

Typed ==
  /\ phase \in {"stopped", "serving"}
  /\ runs \in 0..MaxRuns
  /\ uses \in 0..MaxUses
  /\ chain \in Seq(Middlewares)
  /\ added \subseteq Endpoints
  /\ table \subseteq Endpoints
  /\ req \in [Requests -> Contexts]

Entered(c, ch) == {k \in 1..c.pos : ch[k] = "endpoints"}

InBody(c, m) ==
  c.state = "running" /\ ~c.calling /\ c.stack # <<>> /\ Last(c.stack).mw = m

ToAct(c) == InBody(c, "endpoints") /\ Last(c.stack).nexts = 0

(* Nothing of the user's has been entered without the accessor. *)
Before(c) ==
  \/ c.pos = 0 /\ c.stack = <<>> /\ c.calling
  \/ /\ c.pos = 1 /\ Len(c.stack) = 1 /\ ~c.calling
     /\ c.stack[1].mw = "setup" /\ c.stack[1].nexts = 0

OwnData(c, t) ==
  /\ c.data.params \in {"unread", NoEndpoint, c.data.endpoint}
  /\ c.data.endpoint # NoEndpoint =>
       c.data.endpoint \in t /\ RouteOf[c.data.endpoint] = c.route

Sound(c, ch, t) ==
  /\ c.state = "idle" => c.pos = 0 /\ c.stack = <<>> /\ c.actions = 0 /\ c.data = NoData
  /\ c.state = "running" =>
       /\ c.pos \in 0..Len(ch)
       /\ c.stack = <<>> => c.calling /\ c.pos = 0
       /\ \A k \in 1..Len(c.stack) : k < Len(c.stack) \/ c.calling => c.stack[k].nexts >= 1
       /\ c.accessor \/ Before(c)
       /\ c.actions <= Cardinality(Entered(c, ch))
       /\ ToAct(c) => c.actions + 1 <= Cardinality(Entered(c, ch))
  /\ OwnData(c, t)

AppOK ==
  /\ \A d, e \in table : RouteOf[d] = RouteOf[e] => d = e
  /\ phase = "serving" => chain # <<>> /\ chain[1] = "setup"
  /\ phase = "stopped" => \A r \in Requests : req[r].state = "idle"

IInv == Typed /\ AppOK /\ \A r \in Requests : Sound(req[r], chain, table)

-----------------------------------------------------------------------------
(* Sequences. *)

(* The first k items of a sequence. *)
LEMMA Prefix ==
  ASSUME NEW S, NEW s \in Seq(S), NEW k \in 0..Len(s)
  PROVE  /\ SubSeq(s, 1, k) \in Seq(S)
         /\ Len(SubSeq(s, 1, k)) = k
         /\ \A j \in 1..k : SubSeq(s, 1, k)[j] = s[j]
<1>1. \A j \in 1..k : s[j] \in S
  OBVIOUS
<1>2. 1 \in Int /\ k \in Int /\ k >= 0
  OBVIOUS
<1>3. /\ SubSeq(s, 1, k) \in Seq(S)
      /\ Len(SubSeq(s, 1, k)) = IF 1 <= k THEN k - 1 + 1 ELSE 0
      /\ \A j \in 1..(k - 1 + 1) : SubSeq(s, 1, k)[j] = s[1 + j - 1]
  BY <1>1, <1>2, SubSeqProperties
<1>4. \A j \in 1..k : 1 + j - 1 = j
  BY <1>2
<1>5. QED
  BY <1>2, <1>3, <1>4

(* The last item of a sequence, and the sequence without it. *)
LEMMA LastFront ==
  ASSUME NEW S, NEW s \in Seq(S), s # <<>>
  PROVE  /\ Len(s) \in Nat /\ Len(s) >= 1
         /\ Last(s) = s[Len(s)] /\ Last(s) \in S
         /\ Front(s) \in Seq(S)
         /\ Len(Front(s)) = Len(s) - 1
         /\ \A k \in 1..(Len(s) - 1) : Front(s)[k] = s[k]
<1>1. Len(s) \in Nat /\ Len(s) >= 1 /\ s[Len(s)] \in S
  OBVIOUS
<1>2. Len(s) - 1 \in 0..Len(s)
  BY <1>1
<1>3. QED
  BY <1>1, <1>2, Prefix DEF Last, Front

LEMMA AppendParts ==
  ASSUME NEW S, NEW s \in Seq(S), NEW e \in S
  PROVE  /\ Append(s, e) \in Seq(S) /\ Len(Append(s, e)) = Len(s) + 1
         /\ \A k \in 1..Len(s) : Append(s, e)[k] = s[k]
         /\ Append(s, e)[Len(Append(s, e))] = e /\ Append(s, e) # <<>>
  OBVIOUS

LEMMA OnTop ==
  ASSUME NEW S, NEW s \in Seq(S), s # <<>>
  PROVE  Last(s) = s[Len(s)] /\ Len(s) \in 1..Len(s)
  BY DEF Last

-----------------------------------------------------------------------------
(* Contexts. *)

LEMMA Fresh ==
  /\ Idle \in Contexts
  /\ Idle.state = "idle" /\ Idle.pos = 0 /\ Idle.stack = <<>> /\ Idle.actions = 0 /\ Idle.data = NoData
  /\ Failed \in Contexts
  /\ Failed.state = "idle" /\ Failed.pos = 0 /\ Failed.stack = <<>> /\ Failed.actions = 0 /\ Failed.data = NoData
<1>1. (CHOOSE x \in Routes : TRUE) \in Routes
  BY KindsAssumption
<1>2. <<>> \in Seq(Frames)
  OBVIOUS
<1>3. NoData \in RoutingData
  BY DEF NoData, RoutingData, Matches
<1>4. QED
  BY <1>1, <1>2, <1>3 DEF Idle, Failed, Contexts

LEMMA FreshSound ==
  ASSUME NEW c \in Contexts, c.state = "idle", c.pos = 0, c.stack = <<>>, c.actions = 0,
         c.data = NoData, NEW ch, NEW t
  PROVE  Sound(c, ch, t)
  BY KindsAssumption DEF Sound, OwnData, NoData

LEMMA StartSound ==
  ASSUME NEW r \in Requests, NEW x \in Routes, NEW ch \in Seq(Middlewares), NEW t
  PROVE  Context(r, x) \in Contexts /\ Sound(Context(r, x), ch, t)
<1> DEFINE c == Context(r, x)
<1>1. c \in Contexts
  BY Fresh DEF Context, Contexts
<1>2. /\ c.state = "running" /\ c.stack = <<>> /\ c.calling /\ c.pos = 0
      /\ c.actions = 0 /\ c.data = NoData
  BY DEF Context, Idle
<1>3. Entered(c, ch) = {}
  BY <1>2 DEF Entered
<1>4. OwnData(c, t)
  BY <1>2 DEF OwnData, NoData
<1>5. Before(c) /\ ~ToAct(c) /\ c.pos \in 0..Len(ch) /\ Len(c.stack) = 0
  BY <1>2 DEF Before, ToAct, InBody
<1>6. QED
  BY <1>1, <1>2, <1>3, <1>4, <1>5, FS_EmptySet DEF Sound

-----------------------------------------------------------------------------
(* The runner's next(). *)

LEMMA EnteredFinite ==
  ASSUME NEW c, c.pos \in Nat, NEW ch
  PROVE  IsFiniteSet(Entered(c, ch)) /\ Cardinality(Entered(c, ch)) \in Nat
<1>1. IsFiniteSet(1..c.pos)
  BY FS_Interval
<1>2. Entered(c, ch) \subseteq 1..c.pos
  BY DEF Entered
<1>3. QED
  BY <1>1, <1>2, FS_Subset, FS_CardinalityType

LEMMA EnterSound ==
  ASSUME NEW ch \in Seq(Middlewares), ch # <<>>, ch[1] = "setup", NEW t,
         NEW c \in Contexts, Sound(c, ch, t),
         c.state = "running", c.calling, c.pos < Len(ch),
         NEW d, d = [c EXCEPT !.pos = @ + 1, !.calling = FALSE,
                              !.stack = Append(@, [mw |-> ch[c.pos + 1], nexts |-> 0])]
  PROVE  d \in Contexts /\ Sound(d, ch, t)
<1> DEFINE f == [mw |-> ch[c.pos + 1], nexts |-> 0]
<1>1. /\ c.pos \in Nat /\ c.stack \in Seq(Frames) /\ c.actions \in Nat
      /\ c.accessor \in BOOLEAN
  BY DEF Contexts
<1>2. f \in Frames
  BY <1>1 DEF Frames
<1>3. /\ d.pos = c.pos + 1 /\ ~d.calling /\ d.stack = Append(c.stack, f)
      /\ d.state = "running" /\ d.accessor = c.accessor /\ d.actions = c.actions
      /\ d.data = c.data /\ d.route = c.route
  BY DEF Contexts
<1>4. d \in Contexts
  <2>1. Append(c.stack, f) \in Seq(Frames) /\ c.pos + 1 \in Nat
    BY <1>1, <1>2
  <2>2. d = [c EXCEPT !.pos = c.pos + 1, !.calling = FALSE, !.stack = Append(c.stack, f)]
    OBVIOUS
  <2> HIDE DEF f
  <2>3. QED
    BY <2>1, <2>2 DEF Contexts
<1>5. /\ d.stack \in Seq(Frames) /\ Len(d.stack) = Len(c.stack) + 1
      /\ \A k \in 1..Len(c.stack) : d.stack[k] = c.stack[k]
      /\ d.stack[Len(d.stack)] = f /\ d.stack # <<>>
  <2> HIDE DEF f
  <2>1. QED
    BY <1>1, <1>2, <1>3, AppendParts
<1>6. \A k \in 1..Len(d.stack) :
        k < Len(d.stack) \/ d.calling => d.stack[k].nexts >= 1
  BY <1>1, <1>3, <1>5 DEF Sound
<1>7. d.accessor \/ Before(d)
  <2>1. CASE c.accessor
    BY <2>1, <1>3
  <2>2. CASE ~c.accessor
    <3>1. c.pos = 0 /\ c.stack = <<>>
      BY <2>2 DEF Sound, Before
    <3>2. d.pos = 1 /\ Len(d.stack) = 1 /\ d.stack[1] = f /\ f.mw = "setup" /\ f.nexts = 0
      BY <3>1, <1>3, <1>5
    <3>3. QED
      BY <3>2, <1>3 DEF Before
  <2>3. QED
    BY <2>1, <2>2
<1>8. /\ Cardinality(Entered(c, ch)) \in Nat /\ Cardinality(Entered(d, ch)) \in Nat
      /\ Cardinality(Entered(c, ch)) <= Cardinality(Entered(d, ch))
      /\ ch[c.pos + 1] = "endpoints" =>
           Cardinality(Entered(d, ch)) = Cardinality(Entered(c, ch)) + 1
  <2>1. /\ IsFiniteSet(Entered(c, ch)) /\ Cardinality(Entered(c, ch)) \in Nat
        /\ IsFiniteSet(Entered(d, ch)) /\ Cardinality(Entered(d, ch)) \in Nat
    <3>1. d.pos \in Nat
      BY <1>1, <1>3
    <3>2. QED
      BY <1>1, <3>1, EnteredFinite
  <2>2. Entered(c, ch) \subseteq Entered(d, ch)
    BY <1>1, <1>3 DEF Entered
  <2>3. ASSUME ch[c.pos + 1] = "endpoints"
        PROVE  Entered(d, ch) = Entered(c, ch) \union {c.pos + 1}
               /\ c.pos + 1 \notin Entered(c, ch)
    BY <2>3, <1>1, <1>3 DEF Entered
  <2>4. Cardinality(Entered(c, ch)) <= Cardinality(Entered(d, ch))
    BY <2>1, <2>2, FS_Subset
  <2>5. ASSUME ch[c.pos + 1] = "endpoints"
        PROVE  Cardinality(Entered(d, ch)) = Cardinality(Entered(c, ch)) + 1
    BY <2>1, <2>3, <2>5, FS_AddElement
  <2>6. QED
    BY <2>1, <2>4, <2>5
<1>9. ToAct(d) => ch[c.pos + 1] = "endpoints"
  <2>1. Last(d.stack) = f
    BY <1>5, OnTop
  <2>2. QED
    BY <2>1 DEF ToAct, InBody
<1>10. c.actions <= Cardinality(Entered(c, ch)) /\ c.pos \in 0..Len(ch) /\ OwnData(c, t)
  BY DEF Sound
<1>11. OwnData(d, t)
  BY <1>3, <1>10 DEF OwnData
<1>12. d.pos \in 0..Len(ch)
  BY <1>3, <1>10, <1>1
<1>13. d.actions <= Cardinality(Entered(d, ch))
       /\ (ToAct(d) => d.actions + 1 <= Cardinality(Entered(d, ch)))
  BY <1>1, <1>3, <1>8, <1>9, <1>10
<1>14. QED
  BY <1>3, <1>4, <1>5, <1>6, <1>7, <1>11, <1>12, <1>13 DEF Sound

LEMMA NextAtEndSound ==
  ASSUME NEW ch \in Seq(Middlewares), ch # <<>>, NEW t,
         NEW c \in Contexts, Sound(c, ch, t),
         c.state = "running", c.calling, c.pos = Len(ch),
         NEW d, d = [c EXCEPT !.calling = FALSE]
  PROVE  d \in Contexts /\ Sound(d, ch, t)
<1>1. c.stack \in Seq(Frames) /\ c.actions \in Nat /\ c.pos \in 0..Len(ch)
  BY DEF Contexts, Sound
<1>2. c.stack # <<>> /\ c.accessor
  BY <1>1 DEF Sound, Before
<1>3. /\ d.pos = c.pos /\ ~d.calling /\ d.stack = c.stack /\ d.state = "running"
      /\ d.accessor = c.accessor /\ d.actions = c.actions /\ d.data = c.data
      /\ d.route = c.route /\ d \in Contexts
  BY DEF Contexts
<1>4. Last(d.stack).nexts >= 1
  <2>1. Last(d.stack) = c.stack[Len(c.stack)] /\ Len(c.stack) \in 1..Len(c.stack)
    BY <1>1, <1>2, <1>3, OnTop
  <2>2. QED
    BY <2>1 DEF Sound
<1>5. ~ToAct(d)
  BY <1>4 DEF ToAct
<1>6. Entered(d, ch) = Entered(c, ch)
  BY <1>3 DEF Entered
<1>7. OwnData(d, t)
  BY <1>3 DEF OwnData, Sound
<1>8. QED
  BY <1>1, <1>2, <1>3, <1>5, <1>6, <1>7 DEF Sound

(* Steps inside a middleware. *)

LEMMA InBodyParts ==
  ASSUME NEW ch \in Seq(Middlewares), NEW t, NEW c \in Contexts, Sound(c, ch, t),
         NEW m, InBody(c, m)
  PROVE  /\ c.stack \in Seq(Frames) /\ c.stack # <<>> /\ Len(c.stack) >= 1
         /\ c.stack[Len(c.stack)].mw = m /\ Last(c.stack) = c.stack[Len(c.stack)]
         /\ c.stack[Len(c.stack)] \in Frames
         /\ c.state = "running" /\ ~c.calling
         /\ m # "setup" => c.accessor
<1>1. c.stack \in Seq(Frames) /\ c.stack # <<>> /\ c.state = "running" /\ ~c.calling
  BY DEF InBody, Contexts
<1>2. /\ Len(c.stack) >= 1 /\ Last(c.stack) = c.stack[Len(c.stack)]
      /\ c.stack[Len(c.stack)] \in Frames /\ c.stack[Len(c.stack)].mw = m
  BY <1>1, LastFront DEF InBody
<1>3. QED
  BY <1>1, <1>2 DEF Sound, Before

(* Setting the accessor or the routing data. *)
LEMMA SetAccessorSound ==
  ASSUME NEW ch, NEW t, NEW c \in Contexts, Sound(c, ch, t),
         NEW d, d = [c EXCEPT !.accessor = TRUE]
  PROVE  d \in Contexts /\ Sound(d, ch, t)
<1>1. /\ d \in Contexts /\ d.accessor
      /\ d.state = c.state /\ d.stack = c.stack /\ d.actions = c.actions /\ d.pos = c.pos
      /\ d.calling = c.calling /\ d.data = c.data /\ d.route = c.route
  BY DEF Contexts
<1>2. Entered(d, ch) = Entered(c, ch) /\ (ToAct(d) <=> ToAct(c))
  BY <1>1 DEF Entered, ToAct, InBody
<1>3. OwnData(d, t)
  BY <1>1 DEF OwnData, Sound
<1>4. QED
  BY <1>1, <1>2, <1>3 DEF Sound

LEMMA SetDataSound ==
  ASSUME NEW ch, NEW t, NEW c \in Contexts, Sound(c, ch, t), c.state = "running",
         NEW x \in RoutingData, NEW d, d = [c EXCEPT !.data = x], OwnData(d, t)
  PROVE  d \in Contexts /\ Sound(d, ch, t)
<1>1. /\ d \in Contexts /\ d.accessor = c.accessor
      /\ d.state = c.state /\ d.stack = c.stack /\ d.actions = c.actions /\ d.pos = c.pos
      /\ d.calling = c.calling /\ d.route = c.route
  BY DEF Contexts
<1>2. Entered(d, ch) = Entered(c, ch) /\ (ToAct(d) <=> ToAct(c)) /\ (Before(d) <=> Before(c))
  BY <1>1 DEF Entered, ToAct, InBody, Before
<1>3. QED
  BY <1>1, <1>2 DEF Sound

(* The middleware on top calls next(). *)
LEMMA CallNextSound ==
  ASSUME NEW ch \in Seq(Middlewares), NEW t, NEW c \in Contexts, Sound(c, ch, t),
         NEW m, InBody(c, m), c.accessor
  PROVE  CallNext(c) \in Contexts /\ Sound(CallNext(c), ch, t)
<1> DEFINE d == CallNext(c)
           n == Len(c.stack)
           f == [c.stack[n] EXCEPT !.nexts = @ + 1]
<1>1. /\ c.stack \in Seq(Frames) /\ c.stack # <<>> /\ n \in 1..Len(c.stack)
      /\ c.stack[n] \in Frames /\ c.state = "running" /\ ~c.calling
  BY InBodyParts
<1>2. f \in Frames /\ f.nexts >= 1
  <2>1. \A g \in Frames :
          [g EXCEPT !.nexts = @ + 1] \in Frames /\ [g EXCEPT !.nexts = @ + 1].nexts >= 1
    BY DEF Frames
  <2>2. QED
    BY <1>1, <2>1
<1>3. d = [c EXCEPT !.calling = TRUE, !.stack = [c.stack EXCEPT ![n] = f]]
  BY <1>1 DEF CallNext, Contexts
<1>4. /\ [c.stack EXCEPT ![n] = f] \in Seq(Frames)
      /\ Len([c.stack EXCEPT ![n] = f]) = n
      /\ [c.stack EXCEPT ![n] = f][n] = f
      /\ \A k \in 1..n : k # n => [c.stack EXCEPT ![n] = f][k] = c.stack[k]
  BY <1>1, <1>2
<1> HIDE DEF d, f
<1>5. /\ d \in Contexts /\ d.stack = [c.stack EXCEPT ![n] = f] /\ d.calling
      /\ d.state = "running" /\ d.pos = c.pos /\ d.accessor /\ d.actions = c.actions
      /\ d.data = c.data /\ d.route = c.route
  BY <1>1, <1>3, <1>4 DEF Contexts
<1>6. \A k \in 1..n : d.stack[k].nexts >= 1
  BY <1>1, <1>2, <1>4, <1>5 DEF Sound
<1>7. ~ToAct(d) /\ Entered(d, ch) = Entered(c, ch)
  BY <1>5 DEF ToAct, InBody, Entered
<1>8. OwnData(d, t)
  BY <1>5 DEF OwnData, Sound
<1>9. Len(d.stack) = n /\ d.stack # <<>>
  BY <1>1, <1>4, <1>5
<1>10. QED
  BY <1>1, <1>5, <1>6, <1>7, <1>8, <1>9 DEF Sound, d

(* The middleware on top returns. *)
LEMMA LeftSound ==
  ASSUME NEW ch \in Seq(Middlewares), NEW t, NEW c \in Contexts, Sound(c, ch, t),
         NEW m, InBody(c, m), c.accessor
  PROVE  Left(c) \in Contexts /\ Sound(Left(c), ch, t)
<1>1. /\ c.stack \in Seq(Frames) /\ c.stack # <<>>
      /\ Len(c.stack) \in Nat /\ Len(c.stack) >= 1
      /\ c.state = "running" /\ ~c.calling
  <2>1. c.stack \in Seq(Frames) /\ c.stack # <<>> /\ c.state = "running" /\ ~c.calling
    BY InBodyParts
  <2>2. QED
    BY <2>1, LastFront
<1>2. CASE Len(c.stack) = 1
  <2> DEFINE d == [Idle EXCEPT !.answer = c.answer]
  <2>1. c.answer \in {"empty", "error"} \union Endpoints
    BY DEF Contexts
  <2>2. d \in Contexts
    BY <2>1, Fresh DEF Contexts
  <2>3. d.state = "idle" /\ d.pos = 0 /\ d.stack = <<>> /\ d.actions = 0 /\ d.data = NoData
    BY Fresh DEF Contexts
  <2>4. Left(c) = d
    BY <1>2 DEF Left
  <2> HIDE DEF d
  <2>5. QED
    BY <2>2, <2>3, <2>4, FreshSound
<1>3. CASE Len(c.stack) # 1
  <2> DEFINE n == Len(c.stack)
             s == Front(c.stack)
             d == [c EXCEPT !.stack = s]
  <2>1. n \in Nat /\ n >= 2
    <3>1. \A x \in Nat : x >= 1 /\ x # 1 => x >= 2
      OBVIOUS
    <3>2. QED
      BY <1>1, <1>3, <3>1
  <2>2. s \in Seq(Frames) /\ Len(s) = n - 1 /\ \A k \in 1..(n - 1) : s[k] = c.stack[k]
    BY <1>1, LastFront
  <2> HIDE DEF s
  <2>3. /\ d \in Contexts /\ d.stack = s /\ d.state = "running" /\ ~d.calling
        /\ d.pos = c.pos /\ d.accessor /\ d.actions = c.actions
        /\ d.data = c.data /\ d.route = c.route
    BY <1>1, <2>2 DEF Contexts
  <2>4. s # <<>> /\ \A k \in 1..Len(s) : s[k].nexts >= 1
    <3>1. Len(s) >= 1 /\ \A k \in 1..Len(s) : k \in 1..n /\ k < n
      <4>1. Len(s) = n - 1
        BY <2>2
      <4>2. QED
        BY <2>1, <4>1
    <3>2. QED
      BY <1>1, <2>2, <3>1 DEF Sound
  <2>5. Last(s).nexts >= 1
    <3>1. Last(s) = s[Len(s)] /\ Len(s) \in 1..Len(s)
      BY <2>2, <2>4, OnTop
    <3>2. QED
      BY <2>4, <3>1
  <2>6. ~ToAct(d) /\ Entered(d, ch) = Entered(c, ch)
    BY <2>3, <2>5 DEF ToAct, Entered
  <2>7. OwnData(d, t)
    BY <2>3 DEF OwnData, Sound
  <2>8. Left(c) = d
    BY <1>3 DEF Left, s
  <2> HIDE DEF d
  <2>9. Sound(d, ch, t)
    <3>1. d.pos \in 0..Len(ch) /\ d.actions <= Cardinality(Entered(d, ch))
      BY <1>1, <2>3, <2>6 DEF Sound
    <3>2. QED
      BY <2>3, <2>4, <2>6, <2>7, <3>1 DEF Sound
  <2>10. QED
    BY <2>3, <2>8, <2>9
<1>4. QED
  BY <1>2, <1>3

(* An exception: the rest of the stack has no endpoints middleware on top. *)
LEMMA ThrownSound ==
  ASSUME NEW ch \in Seq(Middlewares), NEW t, NEW c \in Contexts, Sound(c, ch, t),
         c.state = "running", ~c.calling, c.accessor, NEW d \in Thrown(c)
  PROVE  d \in Contexts /\ Sound(d, ch, t)
<1>1. CASE d = Failed
  BY <1>1, Fresh, FreshSound
<1>2. CASE \E k \in 1..(Len(c.stack) - 1) :
             c.stack[k].mw \in Users /\ d = [c EXCEPT !.stack = SubSeq(@, 1, k)]
  <2>1. PICK k \in 1..(Len(c.stack) - 1) :
          c.stack[k].mw \in Users /\ d = [c EXCEPT !.stack = SubSeq(@, 1, k)]
    BY <1>2
  <2> DEFINE s == SubSeq(c.stack, 1, k)
  <2>2. c.stack \in Seq(Frames) /\ Len(c.stack) \in Nat
    BY DEF Contexts
  <2>3. s \in Seq(Frames) /\ Len(s) = k /\ \A j \in 1..k : s[j] = c.stack[j]
    <3>1. k \in 0..Len(c.stack)
      BY <2>2
    <3>2. QED
      BY <2>2, <3>1, Prefix
  <2> HIDE DEF s
  <2>4. /\ d \in Contexts /\ d.stack = s /\ d.state = "running" /\ ~d.calling
        /\ d.pos = c.pos /\ d.accessor /\ d.actions = c.actions
        /\ d.data = c.data /\ d.route = c.route
    BY <2>1, <2>3 DEF Contexts, s
  <2>5. s # <<>> /\ \A j \in 1..Len(s) : s[j].nexts >= 1
    <3>1. k >= 1 /\ \A j \in 1..k : j \in 1..Len(c.stack) /\ j < Len(c.stack)
      BY <2>2
    <3>2. \A j \in 1..k : c.stack[j].nexts >= 1
      BY <3>1 DEF Sound
    <3>3. QED
      BY <2>3, <3>1, <3>2
  <2>6. Last(s).nexts >= 1
    <3>1. Last(s) = s[Len(s)] /\ Len(s) \in 1..Len(s)
      BY <2>3, <2>5, OnTop
    <3>2. QED
      BY <2>5, <3>1
  <2>7. ~ToAct(d) /\ Entered(d, ch) = Entered(c, ch)
    BY <2>4, <2>6 DEF ToAct, Entered
  <2>8. OwnData(d, t)
    BY <2>4 DEF OwnData, Sound
  <2>9. QED
    BY <2>4, <2>5, <2>7, <2>8 DEF Sound
<1>3. QED
  BY <1>1, <1>2 DEF Thrown

(* The action has run. *)
LEMMA ReadingOwn ==
  ASSUME NEW t, NEW c \in Contexts, OwnData(c, t)
  PROVE  /\ Reading(c.data) \in RoutingData
         /\ OwnData([c EXCEPT !.data = Reading(@)], t)
<1>1. c.data \in RoutingData
  BY DEF Contexts
<1>2. /\ Reading(c.data) \in RoutingData
      /\ Reading(c.data).endpoint = c.data.endpoint
      /\ Reading(c.data).params \in {c.data.params, c.data.endpoint}
  BY <1>1 DEF Reading, RoutingData
<1>3. /\ [c EXCEPT !.data = Reading(@)].data = Reading(c.data)
      /\ [c EXCEPT !.data = Reading(@)].route = c.route
  BY DEF Contexts
<1>4. QED
  BY <1>2, <1>3 DEF OwnData

LEMMA ActedSound ==
  ASSUME NEW ch \in Seq(Middlewares), NEW t, NEW c \in Contexts, Sound(c, ch, t), ToAct(c)
  PROVE  /\ Acted(c) \in Contexts /\ Sound(Acted(c), ch, t)
         /\ Acted(c).state = "running" /\ ~Acted(c).calling /\ Acted(c).accessor
<1> DEFINE n == Len(c.stack)
           f == [c.stack[n] EXCEPT !.nexts = 1]
           s == [c.stack EXCEPT ![n] = f]
           x == Reading(c.data)
           d == [c EXCEPT !.data = x, !.actions = @ + 1, !.stack = s]
<1>1. /\ c.stack \in Seq(Frames) /\ c.stack # <<>> /\ c.stack[n] \in Frames
      /\ c.state = "running" /\ ~c.calling /\ c.accessor
  BY InBodyParts DEF ToAct
<1>2. n \in 1..Len(c.stack) /\ n \in Nat
  BY <1>1, OnTop
<1>3. f \in Frames /\ f.nexts = 1
  BY <1>1 DEF Frames
<1>4. /\ s \in Seq(Frames) /\ Len(s) = n /\ s[n] = f /\ s # <<>>
      /\ \A k \in 1..n : k # n => s[k] = c.stack[k]
  BY <1>1, <1>2, <1>3
<1>5. x \in RoutingData /\ OwnData([c EXCEPT !.data = x], t)
  BY ReadingOwn DEF Sound
<1>6. Acted(c) = d
  BY DEF Acted, Contexts
<1>7. c.actions \in Nat /\ c.actions + 1 \in Nat
  BY DEF Contexts
<1> HIDE DEF n, f, s, x
<1>8. /\ d \in Contexts /\ d.stack = s /\ d.state = "running" /\ ~d.calling
      /\ d.pos = c.pos /\ d.accessor /\ d.actions = c.actions + 1
      /\ d.data = x /\ d.route = c.route
  BY <1>1, <1>4, <1>5, <1>7 DEF Contexts
<1>9. \A k \in 1..Len(s) : s[k].nexts >= 1
  BY <1>1, <1>3, <1>4 DEF Sound, n
<1>10. ~ToAct(d) /\ Entered(d, ch) = Entered(c, ch)
  <2>1. Last(s) = f
    BY <1>4, OnTop
  <2>2. QED
    BY <1>3, <1>8, <2>1 DEF ToAct, Entered
<1>11. OwnData(d, t)
  BY <1>5, <1>8 DEF OwnData, Contexts
<1>12. d.pos \in 0..Len(ch) /\ d.actions <= Cardinality(Entered(d, ch))
  BY <1>1, <1>8, <1>10 DEF Sound
<1> HIDE DEF d
<1>13. Sound(d, ch, t)
  BY <1>4, <1>8, <1>9, <1>10, <1>11, <1>12 DEF Sound
<1>14. QED
  BY <1>6, <1>8, <1>13

(* The result is put into the response. *)
LEMMA SetAnswerSound ==
  ASSUME NEW ch, NEW t, NEW c \in Contexts, Sound(c, ch, t), NEW e \in Endpoints,
         NEW d, d = [c EXCEPT !.answer = e]
  PROVE  d \in Contexts /\ Sound(d, ch, t)
<1>1. /\ d \in Contexts /\ d.accessor = c.accessor /\ d.data = c.data
      /\ d.state = c.state /\ d.stack = c.stack /\ d.actions = c.actions /\ d.pos = c.pos
      /\ d.calling = c.calling /\ d.route = c.route
  BY DEF Contexts
<1>2. Entered(d, ch) = Entered(c, ch) /\ (ToAct(d) <=> ToAct(c)) /\ (Before(d) <=> Before(c))
  BY <1>1 DEF Entered, ToAct, InBody, Before
<1>3. OwnData(d, t)
  BY <1>1 DEF OwnData, Sound
<1>4. QED
  BY <1>1, <1>2, <1>3 DEF Sound

-----------------------------------------------------------------------------
(* The steps. *)

(* The state of a request that keeps chain and table. *)
LEMMA RequestStep ==
  ASSUME IInv, UNCHANGED app, NEW r \in Requests, NEW d \in Contexts, phase = "serving",
         Sound(d, chain, table), req' = [req EXCEPT ![r] = d]
  PROVE  IInv'
<1>1. req \in [Requests -> Contexts]
  BY DEF IInv, Typed
<1>2. req' \in [Requests -> Contexts] /\ \A q \in Requests : req'[q] \in {req[q], d}
  BY <1>1
<1>3. Typed'
  BY <1>2 DEF IInv, Typed, app
<1>4. AppOK'
  BY DEF IInv, AppOK, app
<1>5. \A q \in Requests : Sound(req'[q], chain, table)
  BY <1>2 DEF IInv
<1>6. QED
  BY <1>3, <1>4, <1>5 DEF IInv, app

LEMMA Serving ==
  ASSUME IInv, NEW r \in Requests, req[r].state = "running"
  PROVE  /\ phase = "serving" /\ chain # <<>> /\ chain[1] = "setup"
         /\ chain \in Seq(Middlewares) /\ req[r] \in Contexts /\ Sound(req[r], chain, table)
<1>1. phase = "serving"
  BY DEF IInv, AppOK, Typed
<1>2. QED
  BY <1>1 DEF IInv, AppOK, Typed

(* In(r, m), said of the context. *)
LEMMA InIsInBody ==
  ASSUME IInv, NEW r \in Requests, NEW m, In(r, m)
  PROVE  /\ req[r].state = "running" /\ ~req[r].calling /\ InBody(req[r], m)
         /\ Top(r) = Last(req[r].stack)
         /\ m # "setup" => req[r].accessor
<1>1. req[r].state = "running" /\ ~req[r].calling /\ InBody(req[r], m)
      /\ Top(r) = Last(req[r].stack)
  BY DEF In, Running, Top, InBody
<1>2. QED
  BY <1>1, Serving, InBodyParts

LEMMA ThrowStep ==
  ASSUME IInv, NEW r \in Requests, NEW c \in Contexts, Sound(c, chain, table),
         phase = "serving", c.state = "running", ~c.calling, c.accessor, Throw(r, c)
  PROVE  IInv'
<1>1. chain \in Seq(Middlewares)
  BY DEF IInv, Typed
<1>2. PICK d \in Thrown(c) : req' = [req EXCEPT ![r] = d]
  BY DEF Throw
<1>3. d \in Contexts /\ Sound(d, chain, table)
  BY <1>1, ThrownSound
<1>4. QED
  BY <1>2, <1>3, RequestStep DEF Throw

LEMMA LeaveStep ==
  ASSUME IInv, NEW r \in Requests, NEW m, In(r, m), req[r].accessor, Leave(r)
  PROVE  IInv'
<1>1. InBody(req[r], m) /\ req[r].accessor /\ req[r].state = "running"
  BY InIsInBody
<1>2. /\ phase = "serving" /\ chain \in Seq(Middlewares)
      /\ req[r] \in Contexts /\ Sound(req[r], chain, table)
  BY <1>1, Serving
<1>3. Left(req[r]) \in Contexts /\ Sound(Left(req[r]), chain, table)
  BY <1>1, <1>2, LeftSound
<1>4. req' = [req EXCEPT ![r] = Left(req[r])] /\ UNCHANGED app
  BY DEF Leave
<1>5. QED
  BY <1>2, <1>3, <1>4, RequestStep

LEMMA RunnerStep ==
  ASSUME IInv, NEW r \in Requests, NextAtEnd(r) \/ Enter(r) \/ Unwind(r)
  PROVE  IInv'
<1> DEFINE c == req[r]
<1>1. CASE NextAtEnd(r)
  <2>1. /\ phase = "serving" /\ chain # <<>> /\ chain \in Seq(Middlewares)
        /\ c \in Contexts /\ Sound(c, chain, table)
        /\ c.state = "running" /\ c.calling /\ c.pos = Len(chain)
    BY <1>1, Serving DEF NextAtEnd, Running
  <2> DEFINE d == [c EXCEPT !.calling = FALSE]
  <2>2. d \in Contexts /\ Sound(d, chain, table)
    BY <2>1, NextAtEndSound
  <2>3. req' = [req EXCEPT ![r] = d] /\ UNCHANGED app
    BY <1>1 DEF NextAtEnd
  <2> HIDE DEF d
  <2>4. QED
    BY <2>1, <2>2, <2>3, RequestStep
<1>2. CASE Enter(r)
  <2>1. /\ phase = "serving" /\ chain # <<>> /\ chain[1] = "setup"
        /\ chain \in Seq(Middlewares) /\ c \in Contexts /\ Sound(c, chain, table)
        /\ c.state = "running" /\ c.calling /\ c.pos < Len(chain)
    BY <1>2, Serving DEF Enter, Running
  <2> DEFINE d == [c EXCEPT !.pos = @ + 1, !.calling = FALSE,
                            !.stack = Append(@, [mw |-> chain[c.pos + 1], nexts |-> 0])]
  <2>2. d \in Contexts /\ Sound(d, chain, table)
    BY <2>1, EnterSound
  <2>3. req' = [req EXCEPT ![r] = d] /\ UNCHANGED app
    <3>1. req \in [Requests -> Contexts]
      BY DEF IInv, Typed
    <3>2. QED
      BY <1>2, <2>1, <3>1 DEF Enter, Contexts
  <2> HIDE DEF d
  <2>4. QED
    BY <2>1, <2>2, <2>3, RequestStep
<1>3. CASE Unwind(r)
  <2>1. PICK m \in Builtin : In(r, m) /\ Top(r).nexts > 0 /\ Leave(r)
    BY <1>3 DEF Unwind
  <2>2. /\ InBody(c, m) /\ Top(r) = Last(c.stack) /\ c.state = "running"
        /\ c \in Contexts /\ Sound(c, chain, table)
    BY <2>1, InIsInBody, Serving
  <2>3. c.accessor
    <3>1. c.stack \in Seq(Frames) /\ c.stack # <<>>
      BY <2>2 DEF Contexts, InBody
    <3>2. Last(c.stack) = c.stack[Len(c.stack)] /\ Last(c.stack) \in Frames
      BY <3>1, LastFront
    <3>3. Last(c.stack).nexts # 0
      BY <2>1, <2>2, <3>2 DEF Frames
    <3>4. ~Before(c)
      BY <3>1, <3>2, <3>3 DEF Before
    <3>5. QED
      BY <2>2, <3>4 DEF Sound
  <2>4. QED
    BY <2>1, <2>3, LeaveStep
<1>4. QED
  BY <1>1, <1>2, <1>3

LEMMA MatchType ==
  ASSUME IInv, NEW x \in Routes
  PROVE  /\ Match(x) \in Matches
         /\ Match(x) # NoEndpoint => Match(x) \in table /\ RouteOf[Match(x)] = x
  BY DEF IInv, Typed, Match, Matches

LEMMA MatchFinds ==
  ASSUME IInv, NEW x \in Routes, NEW e \in table, RouteOf[e] = x
  PROVE  Match(x) # NoEndpoint
<1>1. Match(x) \in table /\ table \subseteq Endpoints
  BY DEF IInv, Typed, Match
<1>2. QED
  BY <1>1, KindsAssumption

(* The middleware on top calls next(), with the context as c. *)
LEMMA CallNextStep ==
  ASSUME IInv, NEW r \in Requests, NEW m, NEW c \in Contexts, InBody(c, m), c.accessor,
         Sound(c, chain, table), phase = "serving",
         req' = [req EXCEPT ![r] = CallNext(c)], UNCHANGED app
  PROVE  IInv'
<1>1. chain \in Seq(Middlewares)
  BY DEF IInv, Typed
<1>2. CallNext(c) \in Contexts /\ Sound(CallNext(c), chain, table)
  BY <1>1, CallNextSound
<1>3. QED
  BY <1>2, RequestStep

LEMMA FrameworkStep ==
  ASSUME IInv, NEW r \in Requests,
         \/ Setup(r) \/ SetupThrows(r)
         \/ Route(r) \/ RunAction(r) \/ ActionThrows(r) \/ NoAction(r)
  PROVE  IInv'
<1> DEFINE c == req[r]
<1>1. CASE Setup(r)
  <2>1. /\ InBody(c, "setup") /\ phase = "serving" /\ c \in Contexts
        /\ Sound(c, chain, table)
    BY <1>1, InIsInBody, Serving DEF Setup
  <2> DEFINE d == [c EXCEPT !.accessor = TRUE]
  <2>2. d \in Contexts /\ Sound(d, chain, table)
    BY <2>1, SetAccessorSound
  <2>3. InBody(d, "setup") /\ d.accessor
    BY <2>1 DEF InBody, Contexts
  <2>4. req' = [req EXCEPT ![r] = CallNext(d)] /\ UNCHANGED app
    BY <1>1 DEF Setup
  <2> HIDE DEF d
  <2>5. QED
    BY <2>1, <2>2, <2>3, <2>4, CallNextStep
<1>2. CASE Route(r)
  <2>1. /\ InBody(c, "router") /\ phase = "serving" /\ c \in Contexts
        /\ Sound(c, chain, table) /\ c.accessor /\ c.state = "running" /\ ~c.calling
    BY <1>2, InIsInBody, Serving DEF Route
  <2>2. CASE c.data.set
    <3> DEFINE x == [c.data EXCEPT !.endpoint = Match(c.route)]
               d == [c EXCEPT !.data = x]
    <3>1. c.route \in Routes /\ c.data \in RoutingData
      BY <2>1 DEF Contexts
    <3>2. x \in RoutingData /\ x.endpoint = Match(c.route) /\ x.params = c.data.params
      BY <3>1, MatchType DEF RoutingData
    <3>3. d.data = x /\ d.route = c.route /\ d.accessor
      BY <2>1 DEF Contexts
    <3>4. OwnData(d, table)
      <4>1. /\ Match(c.route) # NoEndpoint =>
                 Match(c.route) \in table /\ RouteOf[Match(c.route)] = c.route
            /\ c.data.endpoint # NoEndpoint =>
                 /\ c.data.endpoint \in table /\ RouteOf[c.data.endpoint] = c.route
                 /\ Match(c.route) # NoEndpoint
        BY <2>1, <3>1, MatchType, MatchFinds DEF Sound, OwnData
      <4>2. c.data.endpoint # NoEndpoint => Match(c.route) = c.data.endpoint
        BY <4>1 DEF IInv, AppOK
      <4>3. c.data.params \in {"unread", NoEndpoint, Match(c.route)}
        BY <2>1, <4>2 DEF Sound, OwnData
      <4>4. QED
        BY <3>2, <3>3, <4>1, <4>3 DEF OwnData
    <3>5. d \in Contexts /\ Sound(d, chain, table)
      BY <2>1, <3>2, <3>4, SetDataSound
    <3>6. InBody(d, "router")
      BY <2>1 DEF InBody, Contexts
    <3>7. req' = [req EXCEPT ![r] = CallNext(d)] /\ UNCHANGED app
      BY <1>2, <2>2 DEF Route
    <3> HIDE DEF d
    <3>8. QED
      BY <2>1, <3>3, <3>5, <3>6, <3>7, CallNextStep
  <2>3. CASE ~c.data.set
    <3>1. Throw(r, c)
      BY <1>2, <2>3 DEF Route
    <3>2. QED
      BY <2>1, <3>1, ThrowStep
  <2>4. QED
    BY <2>2, <2>3
<1>3. CASE RunAction(r)
  <2>1. /\ ToAct(c) /\ phase = "serving" /\ c \in Contexts /\ Sound(c, chain, table)
        /\ chain \in Seq(Middlewares)
    BY <1>3, InIsInBody, Serving DEF RunAction, AtEndpoints, ToAct
  <2>2. Acted(c) \in Contexts /\ Sound(Acted(c), chain, table)
    BY <2>1, ActedSound
  <2> DEFINE d == [Acted(c) EXCEPT !.answer = c.data.endpoint]
  <2>3. c.data.endpoint \in Endpoints
    BY <1>3, <2>1 DEF RunAction, Contexts, RoutingData, Matches
  <2>4. d \in Contexts /\ Sound(d, chain, table)
    BY <2>2, <2>3, SetAnswerSound
  <2>5. req' = [req EXCEPT ![r] = d] /\ UNCHANGED app
    BY <1>3 DEF RunAction
  <2> HIDE DEF d
  <2>6. QED
    BY <2>1, <2>4, <2>5, RequestStep
<1>4. CASE ActionThrows(r)
  <2>1. /\ ToAct(c) /\ phase = "serving" /\ c \in Contexts /\ Sound(c, chain, table)
        /\ chain \in Seq(Middlewares)
    BY <1>4, InIsInBody, Serving DEF ActionThrows, AtEndpoints, ToAct
  <2>2. /\ Acted(c) \in Contexts /\ Sound(Acted(c), chain, table)
        /\ Acted(c).state = "running" /\ ~Acted(c).calling /\ Acted(c).accessor
    BY <2>1, ActedSound
  <2>3. Throw(r, Acted(c))
    BY <1>4 DEF ActionThrows
  <2>4. QED
    BY <2>1, <2>2, <2>3, ThrowStep
<1>5. CASE NoAction(r)
  <2>1. /\ InBody(c, "endpoints") /\ phase = "serving" /\ c \in Contexts
        /\ Sound(c, chain, table) /\ c.accessor /\ c.state = "running" /\ ~c.calling
    BY <1>5, InIsInBody, Serving DEF NoAction, AtEndpoints
  <2>2. CASE c.data.set
    <3>1. req' = [req EXCEPT ![r] = CallNext(c)] /\ UNCHANGED app
      BY <1>5, <2>2 DEF NoAction
    <3>2. QED
      BY <2>1, <3>1, CallNextStep
  <2>3. CASE ~c.data.set
    <3>1. Throw(r, c)
      BY <1>5, <2>3 DEF NoAction
    <3>2. QED
      BY <2>1, <3>1, ThrowStep
  <2>4. QED
    BY <2>2, <2>3
<1>6. CASE SetupThrows(r)
  <2>1. /\ InBody(c, "setup") /\ phase = "serving" /\ c \in Contexts
        /\ Sound(c, chain, table) /\ c.state = "running" /\ ~c.calling
    BY <1>6, InIsInBody, Serving DEF SetupThrows
  <2>2. Throw(r, c)
    BY <1>6 DEF SetupThrows
  <2>3. CASE c.accessor
    BY <2>1, <2>2, <2>3, ThrowStep
  <2>4. CASE ~c.accessor
    <3>1. Len(c.stack) = 1
      BY <2>1, <2>4 DEF Sound, Before
    <3>2. Thrown(c) = {Failed}
      BY <3>1 DEF Thrown
    <3>3. req' = [req EXCEPT ![r] = Failed] /\ UNCHANGED app
      BY <2>2, <3>2 DEF Throw
    <3>4. Failed \in Contexts /\ Sound(Failed, chain, table)
      BY Fresh, FreshSound
    <3>5. QED
      BY <2>1, <3>3, <3>4, RequestStep
  <2>5. QED
    BY <2>3, <2>4
<1>7. QED
  BY <1>1, <1>2, <1>3, <1>4, <1>5, <1>6

LEMMA UserStep ==
  ASSUME IInv, NEW r \in Requests, User(r)
  PROVE  IInv'
<1> DEFINE c == req[r]
<1>1. PICK m \in Users : In(r, m)
  BY DEF User, SetData, ReadParams, UserNext, UserThrow, UserLeave, InUser
<1>2. /\ InBody(c, m) /\ c.accessor /\ c.state = "running" /\ ~c.calling
      /\ phase = "serving" /\ c \in Contexts /\ Sound(c, chain, table)
  <2>1. m # "setup"
    BY KindsAssumption DEF Builtin
  <2>2. QED
    BY <1>1, <2>1, InIsInBody, Serving
<1>3. CASE SetData(r)
  <2> DEFINE d == [c EXCEPT !.data = FreshData]
  <2>1. FreshData \in RoutingData
        /\ FreshData.endpoint = NoEndpoint /\ FreshData.params = "unread"
    BY DEF FreshData, NoData, RoutingData, Matches
  <2>2. d.data = FreshData
    BY <1>2 DEF Contexts
  <2>3. OwnData(d, table)
    BY <2>1, <2>2 DEF OwnData
  <2>4. d \in Contexts /\ Sound(d, chain, table)
    BY <1>2, <2>1, <2>3, SetDataSound
  <2>5. req' = [req EXCEPT ![r] = d] /\ UNCHANGED app
    BY <1>3 DEF SetData
  <2> HIDE DEF d
  <2>6. QED
    BY <1>2, <2>4, <2>5, RequestStep
<1>4. CASE ReadParams(r)
  <2>1. CASE c.data.set
    <3> DEFINE d == [c EXCEPT !.data = Reading(@)]
    <3>1. Reading(c.data) \in RoutingData /\ OwnData(d, table)
      BY <1>2, ReadingOwn DEF Sound
    <3>2. d \in Contexts /\ Sound(d, chain, table)
      BY <1>2, <3>1, SetDataSound
    <3>3. req' = [req EXCEPT ![r] = d] /\ UNCHANGED app
      BY <1>4, <2>1 DEF ReadParams
    <3> HIDE DEF d
    <3>4. QED
      BY <1>2, <3>2, <3>3, RequestStep
  <2>2. CASE ~c.data.set
    <3>1. Throw(r, c)
      BY <1>4, <2>2 DEF ReadParams
    <3>2. QED
      BY <1>2, <3>1, ThrowStep
  <2>3. QED
    BY <2>1, <2>2
<1>5. CASE UserNext(r)
  <2>1. req' = [req EXCEPT ![r] = CallNext(c)] /\ UNCHANGED app
    BY <1>5 DEF UserNext
  <2>2. QED
    BY <1>2, <2>1, CallNextStep
<1>6. CASE UserThrow(r)
  BY <1>2, <1>6, ThrowStep DEF UserThrow
<1>7. CASE UserLeave(r)
  BY <1>1, <1>2, <1>7, LeaveStep DEF UserLeave
<1>8. QED
  BY <1>3, <1>4, <1>5, <1>6, <1>7 DEF User

(* A request begins, or is answered before it does. *)
LEMMA BeginStep ==
  ASSUME IInv, NEW r \in Requests, (\E x \in Routes : Start(r, x)) \/ Reject(r)
  PROVE  IInv'
<1>1. CASE \E x \in Routes : Start(r, x)
  <2>1. PICK x \in Routes : Start(r, x)
    BY <1>1
  <2>2. phase = "serving" /\ UNCHANGED app /\ req' = [req EXCEPT ![r] = Context(r, x)]
    BY <2>1 DEF Start
  <2>3. Context(r, x) \in Contexts /\ Sound(Context(r, x), chain, table)
    BY StartSound DEF IInv, Typed
  <2>4. QED
    BY <2>2, <2>3, RequestStep
<1>2. CASE Reject(r)
  <2>1. phase = "serving" /\ UNCHANGED app /\ req' = [req EXCEPT ![r] = Failed]
    BY <1>2 DEF Reject, Failed
  <2>2. Failed \in Contexts /\ Sound(Failed, chain, table)
    BY Fresh, FreshSound
  <2>3. QED
    BY <2>1, <2>2, RequestStep
<1>3. QED
  BY <1>1, <1>2

-----------------------------------------------------------------------------
(* The application. *)

LEMMA CompleteType ==
  ASSUME NEW c \in Seq(Middlewares)
  PROVE  /\ Complete(c) \in Seq(Middlewares)
         /\ Complete(c) # <<>> /\ Complete(c)[1] = "setup"
<1>1. {"setup", "router", "endpoints"} \subseteq Middlewares
  BY DEF Middlewares, Builtin
<1>2. WithRouter(c) \in Seq(Middlewares)
  BY <1>1 DEF WithRouter
<1>3. WithEndpoints(WithRouter(c)) \in Seq(Middlewares)
  BY <1>1, <1>2 DEF WithEndpoints
<1>4. QED
  BY <1>1, <1>3 DEF Complete

(* While all requests are idle, any chain and any table will do. *)
LEMMA IdleSound ==
  ASSUME IInv, phase = "stopped", UNCHANGED req, NEW r \in Requests
  PROVE  req'[r].state = "idle" /\ Sound(req[r], chain, table)'
<1>1. req[r].state = "idle" /\ req[r].data = NoData /\ req[r].actions = 0
      /\ req[r].pos = 0 /\ req[r].stack = <<>> /\ req'[r] = req[r] /\ req[r] \in Contexts
  BY DEF IInv, AppOK, Sound, Typed
<1>2. Sound(req[r], chain', table')
  BY <1>1, FreshSound
<1>3. QED
  BY <1>1, <1>2

LEMMA OwnerStep ==
  ASSUME IInv, Owner
  PROVE  IInv'
<1> USE DEF IInv, AppOK
<1>1. ASSUME NEW m \in Users \union {"router", "endpoints"}, Use(m)
      PROVE  IInv'
  <2>1. m \in Middlewares
    BY DEF Middlewares, Builtin
  <2>2. uses + 1 \in 0..MaxUses
    BY <1>1, KindsAssumption DEF Typed, Use
  <2>3. Append(chain, m) \in Seq(Middlewares)
    BY <2>1 DEF Typed
  <2>4. Typed'
    BY <1>1, <2>2, <2>3 DEF Typed, Use
  <2>5. QED
    BY <1>1, <2>4, IdleSound DEF Use
<1>2. ASSUME NEW e \in Endpoints, Map(e)
      PROVE  IInv'
  <2>1. Typed'
    BY <1>2 DEF Typed, Map
  <2>2. QED
    BY <1>2, <2>1, IdleSound DEF Map
<1>3. runs < MaxRuns /\ runs \in 0..MaxRuns => runs + 1 \in 0..MaxRuns
  BY KindsAssumption
<1>4. CASE CompileThrows
  <2>1. Typed'
    BY <1>3, <1>4 DEF Typed, CompileThrows, Ready
  <2>2. QED
    BY <1>4, <2>1, IdleSound DEF CompileThrows, Ready
<1>5. CASE PrebuildThrows
  <2>1. Typed'
    BY <1>3, <1>5 DEF Typed, PrebuildThrows, Compile, Ready
  <2>2. QED
    BY <1>5, <2>1, IdleSound DEF PrebuildThrows, Compile, Compiles, Ready
<1>6. CASE StartThrows
  <2>1. Typed'
    BY <1>3, <1>6, CompleteType DEF Typed, StartThrows, Compile, Ready
  <2>2. QED
    BY <1>6, <2>1, IdleSound DEF StartThrows, Compile, Compiles, Ready
<1>7. CASE Serve
  <2>1. Typed' /\ chain' # <<>> /\ chain'[1] = "setup"
    BY <1>3, <1>7, CompleteType DEF Typed, Serve, Compile, Ready
  <2>2. QED
    BY <1>7, <2>1, IdleSound DEF Serve, Compile, Compiles, Ready
<1>8. CASE Stop
  <2>1. Typed'
    BY <1>8 DEF Typed, Stop
  <2>2. QED
    BY <1>8, <2>1 DEF Stop
<1>9. QED
  BY <1>1, <1>2, <1>4, <1>5, <1>6, <1>7, <1>8 DEF Owner

-----------------------------------------------------------------------------
(* The inductive invariant and what follows from it. *)

THEOREM Invariant == Spec => []IInv
<1>1. Init => IInv
  <2> SUFFICES ASSUME Init PROVE IInv
    OBVIOUS
  <2>1. Typed
    BY Fresh, KindsAssumption DEF Init, Typed
  <2>2. AppOK
    BY Fresh DEF Init, AppOK
  <2>3. \A r \in Requests : Sound(req[r], chain, table)
    BY Fresh, FreshSound DEF Init
  <2>4. QED
    BY <2>1, <2>2, <2>3 DEF IInv
<1>2. IInv /\ [Next]_vars => IInv'
  <2> SUFFICES ASSUME IInv, [Next]_vars PROVE IInv'
    OBVIOUS
  <2>1. CASE Owner
    BY <2>1, OwnerStep
  <2>2. ASSUME NEW r \in Requests, NEW x \in Routes, Start(r, x)
        PROVE  IInv'
    BY <2>2, BeginStep
  <2>3. ASSUME NEW r \in Requests, Reject(r)
        PROVE  IInv'
    BY <2>3, BeginStep
  <2>4. ASSUME NEW r \in Requests, Framework(r)
        PROVE  IInv'
    BY <2>4, RunnerStep, FrameworkStep DEF Framework
  <2>5. ASSUME NEW r \in Requests, User(r)
        PROVE  IInv'
    BY <2>5, UserStep
  <2>6. CASE UNCHANGED vars
    BY <2>6 DEF vars, IInv, Typed, AppOK
  <2>7. QED
    BY <2>1, <2>2, <2>3, <2>4, <2>5, <2>6 DEF Next
<1>3. QED
  BY <1>1, <1>2, PTL DEF Spec

(* All variables have their types, and no runner passes the end of the     *)
(* chain, however often next() is called at its end.                       *)
THEOREM TypeCorrect == Spec => []TypeOK
<1>1. ASSUME IInv, NEW r \in Requests
      PROVE  req[r].pos <= Len(chain)
  <2>1. req[r] \in Contexts /\ Sound(req[r], chain, table) /\ Len(chain) \in Nat
    BY <1>1 DEF IInv, Typed
  <2>2. CASE req[r].state = "idle"
    BY <2>1, <2>2 DEF Sound
  <2>3. CASE req[r].state = "running"
    BY <2>1, <2>3 DEF Sound
  <2>4. QED
    BY <2>1, <2>2, <2>3 DEF Contexts
<1>2. IInv => TypeOK
  BY <1>1 DEF IInv, Typed, TypeOK
<1>3. QED
  BY <1>2, Invariant, PTL

(* No code of the user's runs before the accessor is set. *)
THEOREM AccessorFirst == Spec => []AccessorReady
<1>1. IInv => AccessorReady
  <2> SUFFICES ASSUME IInv, NEW r \in Requests, ~req[r].accessor
               PROVE  \A k \in DOMAIN req[r].stack : req[r].stack[k].mw = "setup"
    BY DEF AccessorReady
  <2>1. req[r] \in Contexts /\ Sound(req[r], chain, table)
    BY DEF IInv, Typed
  <2>2. req[r].stack \in Seq(Frames) /\ req[r].state \in {"idle", "running"}
    BY <2>1 DEF Contexts
  <2>3. CASE req[r].state = "idle"
    BY <2>1, <2>3 DEF Sound
  <2>4. CASE req[r].state = "running"
    BY <2>1, <2>2, <2>4 DEF Sound, Before
  <2>5. QED
    BY <2>2, <2>3, <2>4
<1>2. QED
  BY <1>1, Invariant, PTL

(* The number of endpoints middlewares, and how many of them have had the  *)
(* chance to act.                                                          *)
LEMMA EndingsCount ==
  ASSUME IInv
  PROVE  /\ IsFiniteSet(Endings) /\ Cardinality(Endings) \in Nat
         /\ \A r \in Requests : req[r].state = "running" =>
              /\ Cardinality(Entered(req[r], chain)) \in Nat
              /\ Cardinality(Entered(req[r], chain)) <= Cardinality(Endings)
<1>1. chain \in Seq(Middlewares)
  BY DEF IInv, Typed
<1>2. IsFiniteSet(Endings) /\ Cardinality(Endings) \in Nat
  <2>1. 1 \in Int /\ Len(chain) \in Int
    BY <1>1
  <2>2. IsFiniteSet(1..Len(chain))
    BY <2>1, FS_Interval
  <2>3. Endings \subseteq 1..Len(chain)
    BY <1>1 DEF Endings
  <2>4. QED
    BY <2>2, <2>3, FS_Subset, FS_CardinalityType
<1>3. ASSUME NEW r \in Requests, req[r].state = "running"
      PROVE  /\ Cardinality(Entered(req[r], chain)) \in Nat
             /\ Cardinality(Entered(req[r], chain)) <= Cardinality(Endings)
  <2> DEFINE c == req[r]
  <2>1. c.pos \in 0..Len(chain)
    BY <1>3 DEF IInv, Sound
  <2>2. Entered(c, chain) \subseteq Endings
    BY <1>1, <2>1 DEF Entered, Endings
  <2>3. QED
    BY <1>2, <2>2, FS_Subset, FS_CardinalityType
<1>4. QED
  BY <1>2, <1>3

(* One action for each endpoints middleware at most. *)
THEOREM ActionsBounded == Spec => []OneActionEach
<1>1. IInv => OneActionEach
  <2> SUFFICES ASSUME IInv, NEW r \in Requests
               PROVE  req[r].actions <= Cardinality(Endings)
    BY DEF OneActionEach
  <2> DEFINE c == req[r]
  <2>1. Sound(c, chain, table) /\ c.actions \in Nat /\ c.state \in {"idle", "running"}
    BY DEF IInv, Typed, Contexts
  <2>2. CASE c.state = "idle"
    BY <2>1, <2>2, EndingsCount DEF Sound
  <2>3. CASE c.state = "running"
    BY <2>1, <2>3, EndingsCount DEF Sound
  <2>4. QED
    BY <2>1, <2>2, <2>3
<1>2. QED
  BY <1>1, Invariant, PTL

(* No request points into a router that compile() has cleared. *)
THEOREM EndpointsLive == Spec => []NoDanglingEndpoint
<1>1. IInv => NoDanglingEndpoint
  BY DEF IInv, NoDanglingEndpoint, Sound, OwnData
<1>2. QED
  BY <1>1, Invariant, PTL

(* Route parameters are those of the request's own route. *)
THEOREM ParametersOwn == Spec => []ParamsAreOwn
<1>1. IInv => ParamsAreOwn
  BY DEF IInv, ParamsAreOwn, Sound, OwnData
<1>2. QED
  BY <1>1, Invariant, PTL

-----------------------------------------------------------------------------
(* The refinement of Dispatch. Of a request's step the promise speaks of   *)
(* the route, the number of actions, the answer and whether it goes on.    *)

Same(c, d) ==
  /\ d.state = "running" /\ d.route = c.route
  /\ d.actions = c.actions /\ d.answer = c.answer

Acts(c, d) ==
  /\ ToAct(c) /\ c.data.endpoint # NoEndpoint
  /\ d.state = "running" /\ d.route = c.route
  /\ d.actions = c.actions + 1 /\ d.answer \in {c.answer, c.data.endpoint}

Ends(c, d) == d.state = "idle" /\ d.answer \in {c.answer, "error"}

(* An answer is that of an action that ran, of the request's own route. *)
AnswerOK(c, t) ==
  c.state = "running" =>
    \/ c.answer = "empty"
    \/ c.answer \in t /\ RouteOf[c.answer] = c.route /\ c.actions > 0

AnswersOK == \A r \in Requests : AnswerOK(req[r], table)

LEMMA FailedParts == Failed.state = "idle" /\ Failed.answer = "error"
BY DEF Failed, Idle

LEMMA CallNextSame ==
  ASSUME NEW c \in Contexts, c.state = "running"
  PROVE  Same(c, CallNext(c))
BY DEF Same, CallNext, Contexts

LEMMA LeftEffect ==
  ASSUME NEW c \in Contexts, c.state = "running"
  PROVE  Same(c, Left(c)) \/ Ends(c, Left(c))
<1>1. CASE Len(c.stack) = 1
  BY <1>1 DEF Left, Ends, Idle
<1>2. CASE Len(c.stack) # 1
  BY <1>2 DEF Left, Same, Contexts
<1>3. QED
  BY <1>1, <1>2

LEMMA ThrownEffect ==
  ASSUME NEW c \in Contexts, c.state = "running", NEW d \in Thrown(c)
  PROVE  Same(c, d) \/ (d.state = "idle" /\ d.answer = "error")
<1>1. CASE d = Failed
  BY <1>1, FailedParts
<1>2. CASE \E k \in 1..(Len(c.stack) - 1) : d = [c EXCEPT !.stack = SubSeq(@, 1, k)]
  BY <1>2 DEF Same, Contexts
<1>3. QED
  BY <1>1, <1>2 DEF Thrown

LEMMA ActedEffect ==
  ASSUME NEW c \in Contexts, c.state = "running"
  PROVE  /\ Acted(c).state = "running" /\ Acted(c).route = c.route
         /\ Acted(c).actions = c.actions + 1 /\ Acted(c).answer = c.answer
BY DEF Acted, Contexts

(* What a step of a request does. *)
LEMMA Effect ==
  ASSUME IInv, NEW r \in Requests, Framework(r) \/ User(r)
  PROVE  /\ req[r].state = "running" /\ UNCHANGED app
         /\ \E d : /\ req' = [req EXCEPT ![r] = d]
                   /\ Same(req[r], d) \/ Acts(req[r], d) \/ Ends(req[r], d)
<1> DEFINE c == req[r]
           Goal == /\ UNCHANGED app
                   /\ \E d : /\ req' = [req EXCEPT ![r] = d]
                             /\ Same(c, d) \/ Acts(c, d) \/ Ends(c, d)
<1>1. c.state = "running"
  BY DEF Framework, User, NextAtEnd, Enter, Unwind, Setup, SetupThrows, Route, RunAction, ActionThrows,
         NoAction, AtEndpoints, SetData, ReadParams, UserNext, UserThrow, UserLeave, InUser,
         In, Running
<1> SUFFICES Goal
  BY <1>1
<1>2. c \in Contexts /\ req \in [Requests -> Contexts]
  BY DEF IInv, Typed
<1>3. ASSUME NEW d, Same(c, d), UNCHANGED app, req' = [req EXCEPT ![r] = d]
      PROVE  Goal
  BY <1>3
<1>4. ASSUME NEW e \in Contexts, e.state = "running", Same(c, e), UNCHANGED app,
             req' = [req EXCEPT ![r] = CallNext(e)]
      PROVE  Goal
  <2>1. Same(e, CallNext(e))
    BY <1>4, CallNextSame
  <2>2. Same(c, CallNext(e))
    BY <1>4, <2>1 DEF Same
  <2>3. QED
    BY <1>4, <2>2
<1>5. ASSUME Leave(r)
      PROVE  Goal
  BY <1>1, <1>2, <1>5, LeftEffect DEF Leave
<1>6. ASSUME Throw(r, c)
      PROVE  Goal
  <2>1. PICK d \in Thrown(c) : req' = [req EXCEPT ![r] = d]
    BY <1>6 DEF Throw
  <2>2. Same(c, d) \/ Ends(c, d)
    BY <1>1, <1>2, ThrownEffect DEF Ends
  <2>3. QED
    BY <1>6, <2>1, <2>2 DEF Throw
<1>7. CASE NextAtEnd(r)
  <2>1. Same(c, [c EXCEPT !.calling = FALSE])
    BY <1>1, <1>2 DEF Same, Contexts
  <2>2. req' = [req EXCEPT ![r] = [c EXCEPT !.calling = FALSE]] /\ UNCHANGED app
    BY <1>7 DEF NextAtEnd
  <2>3. QED
    BY <1>3, <2>1, <2>2
<1>8. CASE Enter(r)
  <2> DEFINE d == [c EXCEPT !.pos = @ + 1, !.calling = FALSE,
                            !.stack = Append(@, [mw |-> chain[c.pos + 1], nexts |-> 0])]
  <2>1. Same(c, d)
    BY <1>1, <1>2 DEF Same, Contexts
  <2>2. req' = [req EXCEPT ![r] = d] /\ UNCHANGED app
    BY <1>2, <1>8 DEF Enter, Contexts
  <2> HIDE DEF d
  <2>3. QED
    BY <1>3, <2>1, <2>2
<1>9. CASE Unwind(r)
  BY <1>5, <1>9 DEF Unwind
<1>10. CASE Setup(r)
  <2> DEFINE e == [c EXCEPT !.accessor = TRUE]
  <2>1. e \in Contexts /\ e.state = "running" /\ Same(c, e)
    BY <1>1, <1>2 DEF Same, Contexts
  <2>2. req' = [req EXCEPT ![r] = CallNext(e)] /\ UNCHANGED app
    BY <1>10 DEF Setup
  <2> HIDE DEF e
  <2>3. QED
    BY <1>4, <2>1, <2>2
<1>11. CASE Route(r)
  <2> DEFINE x == [c.data EXCEPT !.endpoint = Match(c.route)]
             e == [c EXCEPT !.data = x]
  <2>1. CASE c.data.set
    <3>1. c.route \in Routes /\ c.data \in RoutingData
      BY <1>2 DEF Contexts
    <3>2. x \in RoutingData
      BY <3>1, MatchType DEF RoutingData
    <3> HIDE DEF x
    <3>3. e \in Contexts /\ e.state = "running" /\ Same(c, e)
      BY <1>1, <1>2, <3>2 DEF Same, Contexts
    <3>4. req' = [req EXCEPT ![r] = CallNext(e)] /\ UNCHANGED app
      BY <1>11, <2>1 DEF Route, x
    <3> HIDE DEF e
    <3>5. QED
      BY <1>4, <3>3, <3>4
  <2>2. CASE ~c.data.set
    BY <1>6, <1>11, <2>2 DEF Route
  <2>3. QED
    BY <2>1, <2>2
<1>12. CASE RunAction(r)
  <2> DEFINE e == Acted(c)
             d == [e EXCEPT !.answer = c.data.endpoint]
  <2>1. ToAct(c) /\ c.data.endpoint # NoEndpoint
    BY <1>12, InIsInBody DEF RunAction, AtEndpoints, ToAct
  <2>2. e \in Contexts
    BY <2>1, Serving, ActedSound, <1>1
  <2>3. e.state = "running" /\ e.route = c.route /\ e.actions = c.actions + 1
    BY <1>1, <1>2, ActedEffect
  <2>4. req' = [req EXCEPT ![r] = d] /\ UNCHANGED app
    BY <1>12 DEF RunAction
  <2> HIDE DEF e
  <2>5. d.state = e.state /\ d.route = e.route /\ d.actions = e.actions
        /\ d.answer = c.data.endpoint
    BY <2>2 DEF Contexts
  <2> HIDE DEF d
  <2>6. Acts(c, d)
    BY <2>1, <2>3, <2>5 DEF Acts
  <2>7. QED
    BY <2>4, <2>6
<1>13. CASE ActionThrows(r)
  <2> DEFINE e == Acted(c)
  <2>1. ToAct(c) /\ c.data.endpoint # NoEndpoint /\ Throw(r, e)
    BY <1>13, InIsInBody DEF ActionThrows, AtEndpoints, ToAct
  <2>2. e \in Contexts
    BY <2>1, Serving, ActedSound, <1>1
  <2>3. e.state = "running" /\ e.route = c.route /\ e.actions = c.actions + 1
        /\ e.answer = c.answer
    BY <1>1, <1>2, ActedEffect
  <2> HIDE DEF e
  <2>4. PICK d \in Thrown(e) : req' = [req EXCEPT ![r] = d]
    BY <2>1 DEF Throw
  <2>5. Same(e, d) \/ (d.state = "idle" /\ d.answer = "error")
    BY <2>2, <2>3, ThrownEffect
  <2>6. Acts(c, d) \/ Ends(c, d)
    BY <2>1, <2>3, <2>5 DEF Same, Acts, Ends
  <2>7. QED
    BY <2>1, <2>4, <2>6 DEF Throw
<1>14. CASE NoAction(r)
  <2>1. Same(c, c)
    BY <1>1 DEF Same
  <2>2. QED
    BY <1>1, <1>2, <1>4, <1>6, <1>14, <2>1 DEF NoAction
<1>15. CASE SetData(r)
  <2> DEFINE d == [c EXCEPT !.data = FreshData]
  <2>1. Same(c, d)
    BY <1>1, <1>2 DEF Same, Contexts
  <2>2. req' = [req EXCEPT ![r] = d] /\ UNCHANGED app
    BY <1>15 DEF SetData
  <2> HIDE DEF d
  <2>3. QED
    BY <1>3, <2>1, <2>2
<1>16. CASE ReadParams(r)
  <2> DEFINE d == [c EXCEPT !.data = Reading(@)]
  <2>1. CASE c.data.set
    <3>1. Same(c, d)
      BY <1>1, <1>2 DEF Same, Contexts
    <3>2. req' = [req EXCEPT ![r] = d] /\ UNCHANGED app
      BY <1>16, <2>1 DEF ReadParams
    <3> HIDE DEF d
    <3>3. QED
      BY <1>3, <3>1, <3>2
  <2>2. CASE ~c.data.set
    BY <1>6, <1>16, <2>2 DEF ReadParams
  <2>3. QED
    BY <2>1, <2>2
<1>17. CASE UserNext(r)
  <2>1. Same(c, c)
    BY <1>1 DEF Same
  <2>2. QED
    BY <1>1, <1>2, <1>4, <1>17, <2>1 DEF UserNext
<1>18. CASE UserThrow(r)
  BY <1>6, <1>18 DEF UserThrow
<1>19. CASE UserLeave(r)
  BY <1>5, <1>19 DEF UserLeave
<1>20. CASE SetupThrows(r)
  BY <1>6, <1>20 DEF SetupThrows
<1>21. QED
  BY <1>7, <1>8, <1>9, <1>10, <1>11, <1>12, <1>13, <1>14, <1>15, <1>16, <1>17, <1>18, <1>19,
     <1>20
     DEF Framework, User
LEMMA AnswersStep ==
  ASSUME IInv, AnswersOK, [Next]_vars
  PROVE  AnswersOK'
<1>1. req \in [Requests -> Contexts]
  BY DEF IInv, Typed
<1>2. ASSUME NEW r \in Requests, NEW d, UNCHANGED app, req' = [req EXCEPT ![r] = d],
             AnswerOK(d, table)
      PROVE  AnswersOK'
  <2>1. \A q \in Requests : AnswerOK(req'[q], table)
    BY <1>1, <1>2 DEF AnswersOK
  <2>2. QED
    BY <1>2, <2>1 DEF AnswersOK, AnswerOK, app
<1>3. CASE Owner
  <2>1. req' = req
    BY <1>3 DEF Owner, Use, Map, CompileThrows, PrebuildThrows, StartThrows, Serve, Stop
  <2>2. CASE phase = "stopped"
    <3>1. \A r \in Requests : req[r].state = "idle"
      BY <2>2 DEF IInv, AppOK
    <3>2. QED
      BY <2>1, <3>1 DEF AnswersOK, AnswerOK
  <2>3. CASE phase # "stopped"
    <3>1. table' = table
      BY <1>3, <2>3
         DEF Owner, Use, Map, CompileThrows, PrebuildThrows, StartThrows, Serve, Stop, Compile, Ready
    <3>2. QED
      BY <2>1, <3>1 DEF AnswersOK, AnswerOK
  <2>4. QED
    BY <2>2, <2>3
<1>4. ASSUME NEW r \in Requests, NEW x \in Routes, Start(r, x)
      PROVE  AnswersOK'
  <2>1. AnswerOK(Context(r, x), table)
    BY DEF AnswerOK, Context, Idle
  <2>2. QED
    BY <1>2, <1>4, <2>1 DEF Start
<1>5. ASSUME NEW r \in Requests, Reject(r)
      PROVE  AnswersOK'
  <2>1. AnswerOK(Failed, table)
    BY FailedParts DEF AnswerOK
  <2>2. QED
    BY <1>2, <1>5, <2>1 DEF Reject
<1>6. ASSUME NEW r \in Requests, Framework(r) \/ User(r)
      PROVE  AnswersOK'
  <2> DEFINE c == req[r]
  <2>1. c.state = "running" /\ UNCHANGED app
    BY <1>6, Effect
  <2>2. PICK d : req' = [req EXCEPT ![r] = d] /\ (Same(c, d) \/ Acts(c, d) \/ Ends(c, d))
    BY <1>6, Effect
  <2>3. AnswerOK(c, table) /\ OwnData(c, table) /\ c.actions \in Nat
    BY <1>1 DEF AnswersOK, IInv, Sound, Contexts
  <2>4. AnswerOK(d, table)
    <3>1. CASE Same(c, d)
      BY <2>1, <2>3, <3>1 DEF AnswerOK, Same
    <3>2. CASE Acts(c, d)
      BY <2>1, <2>3, <3>2 DEF AnswerOK, Acts, OwnData
    <3>3. CASE Ends(c, d)
      BY <3>3 DEF AnswerOK, Ends
    <3>4. QED
      BY <2>2, <3>1, <3>2, <3>3
  <2>5. QED
    BY <1>2, <2>1, <2>2, <2>4
<1>7. CASE UNCHANGED vars
  BY <1>7 DEF AnswersOK, AnswerOK, vars
<1>8. QED
  BY <1>3, <1>4, <1>5, <1>6, <1>7 DEF Next

(* What the promise sees of a step of one request. *)
LEMMA WorkIs ==
  /\ DOMAIN Work = {q \in Requests : req[q].state = "running"}
  /\ \A q \in DOMAIN Work : Work[q] = [route |-> req[q].route, acts |-> req[q].actions]
  /\ DOMAIN Reply = Requests
  /\ \A q \in Requests : Reply[q] = IF req[q].state = "running" THEN "empty" ELSE req[q].answer
BY DEF Work, Reply, Running

LEMMA SeenUnchanged ==
  ASSUME UNCHANGED app
  PROVE  /\ (phase = "serving")' = (phase = "serving") /\ table' = table
         /\ Cardinality(Endings)' = Cardinality(Endings)
<1>1. Endings' = Endings
  BY DEF app, Endings
<1>2. QED
  BY <1>1 DEF app

LEMMA RefineSame ==
  ASSUME IInv, UNCHANGED app, NEW r \in Requests, req[r].state = "running", NEW d,
         req' = [req EXCEPT ![r] = d], Same(req[r], d)
  PROVE  UNCHANGED Promise!vars
<1>1. req \in [Requests -> Contexts]
  BY DEF IInv, Typed
<1>2. /\ \A q \in Requests : req'[q].state = "running" <=> req[q].state = "running"
      /\ \A q \in Requests : req'[q].route = req[q].route
      /\ \A q \in Requests : req'[q].actions = req[q].actions
      /\ \A q \in Requests : req'[q].answer = req[q].answer
  BY <1>1 DEF Same
<1>3. Work' = Work
  BY <1>2 DEF Work, Running
<1>4. Reply' = Reply
  BY <1>2 DEF Reply, Running
<1>5. QED
  BY <1>3, <1>4, SeenUnchanged DEF Promise!vars

LEMMA RefineActs ==
  ASSUME IInv, UNCHANGED app, NEW r \in Requests, req[r].state = "running", NEW d,
         req' = [req EXCEPT ![r] = d], Acts(req[r], d)
  PROVE  Promise!Act(r)
<1> DEFINE c == req[r]
<1>1. req \in [Requests -> Contexts] /\ c \in Contexts
  BY DEF IInv, Typed
<1>2. r \in DOMAIN Work /\ Work[r] = [route |-> c.route, acts |-> c.actions]
  BY WorkIs
<1>3. Promise!Answering(Work[r].route) # {}
  <2>1. c.data.endpoint \in table /\ RouteOf[c.data.endpoint] = c.route
    BY DEF IInv, Sound, OwnData, Acts
  <2>2. QED
    BY <1>2, <2>1 DEF Promise!Answering
<1>4. Work[r].acts < Cardinality(Endings)
  <2>1. c.actions \in Nat /\ c.actions + 1 <= Cardinality(Entered(c, chain))
    BY <1>1 DEF IInv, Sound, Acts, Contexts
  <2>2. QED
    BY <1>2, <2>1, EndingsCount
<1>5. /\ \A q \in Requests : req'[q].state = "running" <=> req[q].state = "running"
      /\ \A q \in Requests : req'[q].route = req[q].route
      /\ \A q \in Requests : q # r => req'[q] = req[q]
      /\ req'[r].actions = c.actions + 1
  BY <1>1 DEF Acts
<1>6. Work' = [Work EXCEPT ![r].acts = @ + 1]
  <2> DEFINE D == {q \in Requests : req[q].state = "running"}
  <2>1. Work' = [q \in D |-> [route |-> req[q].route,
                              acts |-> IF q = r THEN c.actions + 1 ELSE req[q].actions]]
    BY <1>5 DEF Work, Running
  <2>2. Work = [q \in D |-> [route |-> req[q].route, acts |-> req[q].actions]]
    BY DEF Work, Running
  <2> HIDE DEF D
  <2>3. QED
    BY <2>1, <2>2
<1>7. Reply' = Reply
  BY <1>5 DEF Reply, Running
<1>8. QED
  BY <1>2, <1>3, <1>4, <1>6, <1>7, SeenUnchanged DEF Promise!Act

LEMMA RefineEnds ==
  ASSUME IInv, AnswersOK, UNCHANGED app, NEW r \in Requests, req[r].state = "running", NEW d,
         req' = [req EXCEPT ![r] = d], Ends(req[r], d)
  PROVE  Promise!End(r)
<1> DEFINE c == req[r]
<1>1. req \in [Requests -> Contexts] /\ c \in Contexts
  BY DEF IInv, Typed
<1>2. r \in DOMAIN Work /\ Work[r] = [route |-> c.route, acts |-> c.actions]
  BY WorkIs
<1>3. c.answer = "empty" \/ (c.answer \in table /\ RouteOf[c.answer] = c.route /\ c.actions > 0)
  BY DEF AnswersOK, AnswerOK
<1>4. d.answer \in Promise!Replies(r)
  <2>1. d.answer \in {c.answer, "error"}
    BY DEF Ends
  <2>2. CASE d.answer \in {"empty", "error"}
    BY <2>2 DEF Promise!Replies
  <2>3. CASE d.answer \in table /\ RouteOf[d.answer] = c.route /\ c.actions > 0
    <3>1. d.answer \in Promise!Answering(Work[r].route) /\ Work[r].acts > 0
      BY <1>2, <2>3 DEF Promise!Answering
    <3>2. QED
      BY <3>1 DEF Promise!Replies
  <2>4. QED
    BY <1>3, <2>1, <2>2, <2>3
<1>5. /\ \A q \in Requests : q # r => req'[q] = req[q]
      /\ req'[r] = d /\ req'[r].state # "running"
  BY <1>1 DEF Ends
<1>6. Work' = [q \in DOMAIN Work \ {r} |-> Work[q]]
  <2> DEFINE D == {q \in Requests : req[q].state = "running"} \ {r}
             E == {q \in Requests : req'[q].state = "running"}
  <2>1. E = D
    BY <1>5
  <2>2. Work' = [q \in E |-> [route |-> req'[q].route, acts |-> req'[q].actions]]
    BY DEF Work, Running
  <2>3. DOMAIN Work \ {r} = D /\
        \A q \in D : Work[q] = [route |-> req[q].route, acts |-> req[q].actions]
    BY WorkIs
  <2>4. \A q \in D : req'[q] = req[q]
    BY <1>5
  <2> HIDE DEF D, E
  <2>5. QED
    BY <2>1, <2>2, <2>3, <2>4
<1>7. Reply' = [Reply EXCEPT ![r] = d.answer]
  <2>1. Reply' = [q \in Requests |-> IF req'[q].state = "running" THEN "empty" ELSE req'[q].answer]
    BY DEF Reply, Running
  <2>2. Reply = [q \in Requests |-> IF req[q].state = "running" THEN "empty" ELSE req[q].answer]
    BY DEF Reply, Running
  <2>3. QED
    BY <1>5, <2>1, <2>2
<1>8. QED
  BY <1>2, <1>4, <1>6, <1>7, SeenUnchanged DEF Promise!End

LEMMA RefineBegin ==
  ASSUME IInv, NEW r \in Requests, NEW x \in Routes, Start(r, x)
  PROVE  Promise!Begin(r, x)
<1> DEFINE d == Context(r, x)
<1>1. req \in [Requests -> Contexts]
  BY DEF IInv, Typed
<1>2. /\ phase = "serving" /\ req[r].state = "idle" /\ UNCHANGED app
      /\ req' = [req EXCEPT ![r] = d]
  BY DEF Start
<1>3. d.state = "running" /\ d.route = x /\ d.actions = 0
  BY DEF Context, Idle
<1> HIDE DEF d
<1>4. /\ \A q \in Requests : q # r => req'[q] = req[q]
      /\ req'[r] = d
  BY <1>1, <1>2
<1>5. r \notin DOMAIN Work
  BY <1>2, WorkIs
<1>6. Work' = [q \in DOMAIN Work \union {r} |->
                 IF q = r THEN [route |-> x, acts |-> 0] ELSE Work[q]]
  <2> DEFINE D == {q \in Requests : req[q].state = "running"} \union {r}
             E == {q \in Requests : req'[q].state = "running"}
  <2>1. E = D
    BY <1>3, <1>4
  <2>2. Work' = [q \in E |-> [route |-> req'[q].route, acts |-> req'[q].actions]]
    BY DEF Work, Running
  <2>3. DOMAIN Work \union {r} = D
    BY WorkIs
  <2>4. \A q \in D : q # r =>
          req'[q] = req[q] /\ Work[q] = [route |-> req[q].route, acts |-> req[q].actions]
    BY <1>4, WorkIs
  <2> HIDE DEF D, E
  <2>5. QED
    BY <1>3, <1>4, <2>1, <2>2, <2>3, <2>4
<1>7. Reply' = [Reply EXCEPT ![r] = "empty"]
  <2>1. Reply' = [q \in Requests |-> IF req'[q].state = "running" THEN "empty" ELSE req'[q].answer]
    BY DEF Reply, Running
  <2>2. Reply = [q \in Requests |-> IF req[q].state = "running" THEN "empty" ELSE req[q].answer]
    BY DEF Reply, Running
  <2>3. QED
    BY <1>3, <1>4, <2>1, <2>2
<1>8. QED
  BY <1>2, <1>5, <1>6, <1>7, SeenUnchanged DEF Promise!Begin

LEMMA RefineReject ==
  ASSUME IInv, NEW r \in Requests, Reject(r)
  PROVE  Promise!Reject(r)
<1>1. req \in [Requests -> Contexts]
  BY DEF IInv, Typed
<1>2. /\ phase = "serving" /\ req[r].state = "idle" /\ UNCHANGED app
      /\ req' = [req EXCEPT ![r] = Failed]
  BY DEF Reject
<1>3. /\ \A q \in Requests : q # r => req'[q] = req[q]
      /\ req'[r].state = "idle" /\ req'[r].answer = "error"
  BY <1>1, <1>2, FailedParts
<1>4. r \notin DOMAIN Work
  BY <1>2, WorkIs
<1>5. Work' = Work
  <2> DEFINE D == {q \in Requests : req[q].state = "running"}
             E == {q \in Requests : req'[q].state = "running"}
  <2>1. E = D /\ \A q \in D : req'[q] = req[q]
    BY <1>2, <1>3
  <2>2. Work' = [q \in E |-> [route |-> req'[q].route, acts |-> req'[q].actions]]
    BY DEF Work, Running
  <2>3. Work = [q \in D |-> [route |-> req[q].route, acts |-> req[q].actions]]
    BY DEF Work, Running
  <2> HIDE DEF D, E
  <2>4. QED
    BY <2>1, <2>2, <2>3
<1>6. Reply' = [Reply EXCEPT ![r] = "error"]
  <2>1. Reply' = [q \in Requests |-> IF req'[q].state = "running" THEN "empty" ELSE req'[q].answer]
    BY DEF Reply, Running
  <2>2. Reply = [q \in Requests |-> IF req[q].state = "running" THEN "empty" ELSE req[q].answer]
    BY DEF Reply, Running
  <2>3. QED
    BY <1>3, <2>1, <2>2
<1>7. QED
  BY <1>2, <1>4, <1>5, <1>6, SeenUnchanged DEF Promise!Reject

(* The owner's steps set the application up, or are not seen. *)
LEMMA RefineOwner ==
  ASSUME IInv, IInv', Owner
  PROVE  [Promise!Next]_(Promise!vars)
<1>1. req' = req
  BY DEF Owner, Use, Map, CompileThrows, PrebuildThrows, StartThrows, Serve, Stop
<1>2. Work' = Work /\ Reply' = Reply
  BY <1>1 DEF Work, Reply, Running
<1>3. Cardinality(Endings)' \in Nat
  <2>1. \A S : IsFiniteSet(S) => Cardinality(S) \in Nat
    BY FS_CardinalityType
  <2>2. IsFiniteSet(Endings')
    <3>1. chain' \in Seq(Middlewares)
      BY DEF IInv, Typed
    <3>2. 1 \in Int /\ Len(chain') \in Int
      BY <3>1
    <3>3. IsFiniteSet(1..Len(chain'))
      BY <3>2, FS_Interval
    <3>4. Endings' \subseteq 1..Len(chain')
      BY <3>1 DEF Endings
    <3>5. QED
      BY <3>3, <3>4, FS_Subset
  <2>3. QED
    BY <2>1, <2>2
<1>4. table' \in SUBSET Endpoints /\ \A d, e \in table' : RouteOf[d] = RouteOf[e] => d = e
  BY DEF IInv, Typed, AppOK
<1>5. CASE phase = "stopped" /\ phase' = phase
  <2>1. Promise!Configure
    BY <1>2, <1>3, <1>4, <1>5 DEF Promise!Configure, Promise!SetUp
  <2>2. QED
    BY <2>1 DEF Promise!Next
<1>6. CASE Serve
  <2>1. Promise!Open
    BY <1>2, <1>3, <1>4, <1>6 DEF Serve, Compile, Ready, Promise!Open, Promise!SetUp
  <2>2. QED
    BY <2>1 DEF Promise!Next
<1>7. CASE Stop
  <2>1. {q \in Requests : req[q].state = "running"} = {}
    BY <1>7 DEF Stop
  <2>2. Work = <<>>
    BY <2>1 DEF Work, Running
  <2>3. UNCHANGED <<chain, table>> /\ phase = "serving" /\ phase' = "stopped"
    BY <1>7 DEF Stop
  <2>4. Cardinality(Endings)' = Cardinality(Endings)
    BY <2>3 DEF Endings
  <2>5. Promise!Close
    BY <1>2, <2>2, <2>3, <2>4 DEF Promise!Close
  <2>6. QED
    BY <2>5 DEF Promise!Next
<1>8. QED
  BY <1>5, <1>6, <1>7
     DEF Owner, Use, Map, CompileThrows, PrebuildThrows, StartThrows, Compile, Ready

(* The application handles its requests as Dispatch promises, for every    *)
(* chain of middlewares, every set of endpoints and any number of requests *)
(* at the same time.                                                       *)
THEOREM KeepsPromise == Spec => Dispatched
<1>1. Init => AnswersOK
  BY Fresh DEF Init, AnswersOK, AnswerOK
<1>2. IInv /\ AnswersOK /\ [Next]_vars => AnswersOK'
  BY AnswersStep
<1>3. Init => Promise!Init
  <2> SUFFICES ASSUME Init PROVE Promise!Init
    OBVIOUS
  <2>1. \A r \in Requests : req[r] = Idle
    BY DEF Init
  <2>2. {q \in Requests : req[q].state = "running"} = {}
    BY <2>1, Fresh
  <2>3. Work = <<>>
    BY <2>2 DEF Work, Running
  <2>4. Reply = [r \in Requests |-> "empty"]
    <3>1. Idle.state = "idle" /\ Idle.answer = "empty"
      BY DEF Idle
    <3>2. QED
      BY <2>1, <3>1 DEF Reply, Running
  <2>5. Cardinality(Endings) = 0
    <3>1. DOMAIN chain = {}
      BY DEF Init
    <3>2. Endings = {}
      BY <3>1 DEF Endings
    <3>3. QED
      BY <3>2, FS_EmptySet
  <2>6. QED
    BY <2>3, <2>4, <2>5 DEF Init, Promise!Init
<1>4. IInv /\ IInv' /\ AnswersOK /\ [Next]_vars => [Promise!Next]_(Promise!vars)
  <2> SUFFICES ASSUME IInv, IInv', AnswersOK, [Next]_vars
               PROVE  [Promise!Next]_(Promise!vars)
    OBVIOUS
  <2>1. CASE Owner
    BY <2>1, RefineOwner
  <2>2. ASSUME NEW r \in Requests, NEW x \in Routes, Start(r, x)
        PROVE  Promise!Next
    BY <2>2, RefineBegin DEF Promise!Next
  <2>3. ASSUME NEW r \in Requests, Reject(r)
        PROVE  Promise!Next
    BY <2>3, RefineReject DEF Promise!Next
  <2>4. ASSUME NEW r \in Requests, Framework(r) \/ User(r)
        PROVE  [Promise!Next]_(Promise!vars)
    <3>1. req[r].state = "running" /\ UNCHANGED app
      BY <2>4, Effect
    <3>2. PICK d : /\ req' = [req EXCEPT ![r] = d]
                   /\ Same(req[r], d) \/ Acts(req[r], d) \/ Ends(req[r], d)
      BY <2>4, Effect
    <3>3. UNCHANGED Promise!vars \/ Promise!Act(r) \/ Promise!End(r)
      BY <3>1, <3>2, RefineSame, RefineActs, RefineEnds
    <3>4. QED
      BY <3>3 DEF Promise!Next
  <2>5. CASE UNCHANGED vars
    <3>1. UNCHANGED app /\ req' = req
      BY <2>5 DEF vars, app
    <3>2. QED
      BY <3>1, SeenUnchanged DEF Promise!vars, Work, Reply, Running
  <2>6. QED
    BY <2>1, <2>2, <2>3, <2>4, <2>5 DEF Next
<1>5. QED
  BY <1>1, <1>2, <1>3, <1>4, Invariant, PTL DEF Spec, Dispatched, Promise!Spec

=============================================================================
