------------------------- MODULE LocalHandoffProofs -------------------------
(***************************************************************************)
(* Proofs about LocalHandoff, for every interleaving of the two threads and  *)
(* any number of looks, shots, events and transforms: types, the order of the  *)
(* first messages, no look forgotten, and that the queue of shots and the      *)
(* queue of events are each a Mailbox.                                        *)
(***************************************************************************)
EXTENDS LocalHandoff, SequenceLemmas

Other == {Appearance(l) : l \in Look} \cup {Transform(n) : n \in Nat}
         \cup {Combat(n) : n \in Nat}

\* Nothing was said before the hello, and the hello is not said again.
HelloOpens == \A i \in DOMAIN wire : (wire[i] = Hello) <=> (i = 1)
WireOpensWithHello ==
    /\ wire \in Seq({Hello} \cup Other)
    /\ ~helloSent => wire = <<>>
    /\ helloSent => Len(wire) > 0
    /\ HelloOpens

\* The worker holds nothing it could send.
NothingTaken == held = NoLook /\ batch = <<>>

\* Until the socket is up the game has pushed nothing, as it asks IsConnected first;
\* from then on the worker comes to the hello before anything else it sends.
HelloIsNext ==
    /\ conn = "connecting" =>
         /\ ~helloSent /\ game = "idle"
         /\ appearance = NoLook /\ ~xformValid /\ outCombat = <<>> /\ NothingTaken
    /\ conn = "connected" /\ ~helloSent => worker \in {"poll", "hello"} /\ NothingTaken

IInv == HandoffTypeOK /\ WireOpensWithHello /\ HelloIsNext

-----------------------------------------------------------------------------
(* What a wire with one more message says.                                   *)

IsSaid(f, msgs, t, n) ==
    f = [i \in 0..n |-> IF i = 0 THEN <<>> ELSE Noted(f[i - 1], msgs[i], t)]

LEMMA SaidExists ==
    ASSUME NEW msgs, NEW t, NEW n \in Nat
    PROVE  \E f : IsSaid(f, msgs, t, n)
  <1> DEFINE S == {m \in Nat : \E f : IsSaid(f, msgs, t, m)}
  <1>1. 0 \in S
    <2> DEFINE f == [i \in 0..0 |-> <<>>]
    <2>1. IsSaid(f, msgs, t, 0)
      BY DEF IsSaid
    <2> QED
      BY <2>1
  <1>2. ASSUME NEW m \in S PROVE m + 1 \in S
    <2>1. PICK f : IsSaid(f, msgs, t, m)
      OBVIOUS
    <2> DEFINE g == [i \in 0..(m + 1) |->
                        IF i = 0 THEN <<>> ELSE Noted(f[i - 1], msgs[i], t)]
    <2>2. ASSUME NEW i \in 0..m PROVE g[i] = f[i]
      <3>1. f[i] = IF i = 0 THEN <<>> ELSE Noted(f[i - 1], msgs[i], t)
        BY <2>1, Zenon DEF IsSaid
      <3>2. i \in 0..(m + 1)
        OBVIOUS
      <3>3. g[i] = IF i = 0 THEN <<>> ELSE Noted(f[i - 1], msgs[i], t)
        BY <3>2, Zenon
      <3> QED
        BY <3>1, <3>3, Zenon
    <2>3. \A i \in 0..(m + 1) : i # 0 => i - 1 \in 0..m
      OBVIOUS
    <2>4. IsSaid(g, msgs, t, m + 1)
      BY <2>2, <2>3 DEF IsSaid
    <2> QED
      BY <2>4
  <1> HIDE DEF S
  <1>3. S = Nat
    BY <1>1, <1>2, Induction DEF S
  <1> QED
    BY <1>3 DEF S

LEMMA SaidRun ==
    ASSUME NEW msgs, NEW t, Len(msgs) \in Nat
    PROVE  \E f : IsSaid(f, msgs, t, Len(msgs)) /\ Said(msgs, t) = f[Len(msgs)]
  <1> DEFINE f == CHOOSE f : IsSaid(f, msgs, t, Len(msgs))
  <1>1. IsSaid(f, msgs, t, Len(msgs))
    BY SaidExists
  <1>2. Said(msgs, t) = f[Len(msgs)]
    BY Zenon DEF Said, IsSaid
  <1> QED
    BY <1>1, <1>2

LEMMA SaidAppend ==
    ASSUME NEW M, NEW msgs \in Seq(M), NEW m \in M, NEW t
    PROVE  Said(Append(msgs, m), t) = Noted(Said(msgs, t), m, t)
  <1> DEFINE n == Len(msgs)
             more == Append(msgs, m)
  <1>1. /\ n \in Nat /\ Len(more) = n + 1 /\ Len(more) \in Nat /\ more[n + 1] = m
        /\ \A i \in 1..n : more[i] = msgs[i]
    OBVIOUS
  <1> HIDE DEF more
  <1>2. PICK f : IsSaid(f, msgs, t, n) /\ Said(msgs, t) = f[n]
    BY <1>1, SaidRun
  <1>3. PICK g : IsSaid(g, more, t, n + 1) /\ Said(more, t) = g[n + 1]
    BY <1>1, SaidRun
  <1> HIDE DEF n
  <1> DEFINE S == {i \in Nat : i \in 0..n => g[i] = f[i]}
  <1>4. 0 \in S
    <2>1. 0 \in 0..n /\ 0 \in 0..(n + 1)
      BY <1>1
    <2>2. f[0] = <<>> /\ g[0] = <<>>
      BY <1>2, <1>3, <2>1, Zenon DEF IsSaid
    <2> QED
      BY <2>2
  <1>5. ASSUME NEW i \in 0..n, i \in S, i < n PROVE i + 1 \in S
    <2>1. /\ i + 1 \in 0..n /\ i + 1 \in 0..(n + 1) /\ i + 1 \in 1..n /\ i + 1 # 0
          /\ (i + 1) - 1 = i /\ g[i] = f[i]
      BY <1>1, <1>5
    <2>2. /\ f[i + 1] = Noted(f[(i + 1) - 1], msgs[i + 1], t)
          /\ g[i + 1] = Noted(g[(i + 1) - 1], more[i + 1], t)
      BY <1>2, <1>3, <2>1, Zenon DEF IsSaid
    <2> QED
      BY <1>1, <2>1, <2>2
  <1>6. \A i \in 0..n : i \in S
    <2> HIDE DEF S
    <2> QED
      BY <1>1, <1>4, <1>5, InductionUpTo
  <1>7. g[n] = f[n]
    BY <1>1, <1>6
  <1>8. g[n + 1] = Noted(g[(n + 1) - 1], more[n + 1], t)
    <2>1. n + 1 \in 0..(n + 1) /\ n + 1 # 0
      BY <1>1
    <2> QED
      BY <1>3, <2>1, Zenon DEF IsSaid
  <1>9. (n + 1) - 1 = n
    BY <1>1
  <1>10. Said(more, t) = Noted(Said(msgs, t), m, t)
    BY <1>1, <1>2, <1>3, <1>7, <1>8, <1>9, Zenon
  <1> QED
    BY <1>10 DEF more

LEMMA SaidNothing == \A t : Said(<<>>, t) = <<>>
  <1> SUFFICES ASSUME NEW t PROVE Said(<<>>, t) = <<>>
    OBVIOUS
  <1> DEFINE none == <<>>
  <1>1. Len(none) = 0 /\ Len(none) \in Nat
    OBVIOUS
  <1>2. PICK f : IsSaid(f, none, t, Len(none)) /\ Said(none, t) = f[Len(none)]
    <2> HIDE DEF none
    <2> QED
      BY <1>1, SaidRun
  <1>3. f[0] = <<>>
    <2>1. 0 \in 0..0
      OBVIOUS
    <2> QED
      BY <1>1, <1>2, <2>1 DEF IsSaid
  <1> QED
    BY <1>1, <1>2, <1>3

-----------------------------------------------------------------------------
\* Only the hello is a hello.
LEMMA OthersAreNoHello ==
    /\ \A m \in Other : m # Hello
    /\ \A l \in Look : Appearance(l) \in Other
    /\ \A n \in Nat : Transform(n) \in Other /\ Combat(n) \in Other
  <1>1. \A m \in Other : m # Hello
    <2> SUFFICES ASSUME NEW m \in Other PROVE m.type # Hello.type
      OBVIOUS
    <2>1. CASE m \in {Appearance(l) : l \in Look}
      BY <2>1 DEF Hello, Appearance
    <2>2. CASE m \in {Transform(n) : n \in Nat}
      BY <2>2 DEF Hello, Transform
    <2>3. CASE m \in {Combat(n) : n \in Nat}
      BY <2>3 DEF Hello, Combat
    <2> QED
      BY <2>1, <2>2, <2>3 DEF Other
  <1> QED
    BY <1>1 DEF Other

\* What the threads do to a queue leaves it a queue.
LEMMA QueueFacts ==
    /\ <<>> \in Seq(Nat)
    /\ \A q \in Seq(Nat), n \in Nat : Append(q, n) \in Seq(Nat)
    /\ \A q \in Seq(Nat) : q # <<>> => Tail(q) \in Seq(Nat) /\ Head(q) \in Nat
  OBVIOUS

\* Any other message may follow the hello.
LEMMA OthersFollow ==
    ASSUME WireOpensWithHello, NEW m \in Other, helloSent, helloSent' = helloSent,
           wire' = Append(wire, m)
    PROVE  WireOpensWithHello'
  <1>1. wire' \in Seq({Hello} \cup Other) /\ Len(wire') = Len(wire) + 1
    BY DEF WireOpensWithHello
  <1>2. \A i \in DOMAIN wire' : IF i \in DOMAIN wire THEN wire'[i] = wire[i]
                                ELSE i = Len(wire) + 1 /\ wire'[i] = m
    BY DEF WireOpensWithHello
  <1>3. HelloOpens'
    BY <1>1, <1>2, OthersAreNoHello DEF WireOpensWithHello, HelloOpens
  <1> QED
    BY <1>1, <1>3 DEF WireOpensWithHello

\* A step that says nothing leaves the wire as it is.
LEMMA SilenceKeepsWire ==
    ASSUME WireOpensWithHello, UNCHANGED <<wire, helloSent>> PROVE WireOpensWithHello'
  BY DEF WireOpensWithHello, HelloOpens

\* Without a hello there is no socket to say anything on, or nothing to say.
LEMMA WhoSpeaksSaidHello ==
    ASSUME IInv, HasSocket, worker \notin {"poll", "hello"},
           held # NoLook \/ batch # <<>> \/ xformValid
    PROVE  helloSent
  BY DEF IInv, HandoffTypeOK, HelloIsNext, HasSocket, NothingTaken

-----------------------------------------------------------------------------
LEMMA InitIInv == Init => IInv
  <1> SUFFICES ASSUME Init PROVE IInv
    OBVIOUS
  <1>1. HandoffTypeOK
    <2>1. MaxTick \in Nat /\ MaxChanges \in Nat
      BY BoundsAssumption
    <2>2. worker \in DOMAIN After
      BY DEF Init, After
    <2>3. /\ conn \in {"connecting", "connected", "lost"}
          /\ game \in {"idle", "captureTransform", "captureLook", "drain", "dispatch",
                       "pushFire", "pushHit"}
      BY DEF Init
    <2>4. helloSent \in BOOLEAN /\ xformValid \in BOOLEAN /\ dirty \in BOOLEAN
      BY DEF Init
    <2>5. localTick \in 0..MaxTick /\ changes \in 0..MaxChanges /\ fired \in Nat
          /\ received \in Nat
      BY <2>1 DEF Init
    <2>6. appearance \in Look \cup {NoLook} /\ held \in Look \cup {NoLook}
      BY DEF Init
    <2>7. outCombat \in Seq(Nat) /\ batch \in Seq(Nat) /\ events \in Seq(Nat)
          /\ scratch \in Seq(Nat) /\ handled \in Seq(Nat)
      BY QueueFacts DEF Init
    <2>8. hits \subseteq 1..fired
      BY DEF Init
    <2> QED
      BY <2>2, <2>3, <2>4, <2>5, <2>6, <2>7, <2>8, Zenon DEF HandoffTypeOK
  <1>2. WireOpensWithHello /\ HelloIsNext
    BY DEF Init, WireOpensWithHello, HelloOpens, HelloIsNext, NothingTaken
  <1> QED
    BY <1>1, <1>2 DEF IInv

\* What the worker does without sending.
LEMMA QuietWorkerKeepsIInv ==
    ASSUME IInv,
           RunCallbacks \/ QueueEvent \/ PollMessages \/ TakeLook \/ NoLookToSend
             \/ TakeCombat \/ NoCombatToSend
    PROVE  IInv'
  <1> USE DEF IInv, HandoffTypeOK, HelloIsNext, NothingTaken, Pump, After, moveVars,
              lookVars, combatVars, eventVars
  <1>0. UNCHANGED <<wire, helloSent>>
    BY DEF RunCallbacks, QueueEvent, PollMessages, TakeLook, NoLookToSend, TakeCombat,
           NoCombatToSend
  <1>1. WireOpensWithHello'
    BY <1>0, SilenceKeepsWire
  <1>2. CASE RunCallbacks
    <2>1. conn' \in {"connecting", "connected", "lost"}
          /\ (conn = "connected" => conn' # "connecting")
          /\ (conn = "lost" => conn' = "lost")
      BY <1>2 DEF RunCallbacks
    <2> QED
      BY <1>1, <1>2, <2>1 DEF RunCallbacks
  <1>3. CASE QueueEvent
    BY <1>1, <1>3 DEF QueueEvent, IsConnected
  <1>4. CASE PollMessages
    BY <1>1, <1>4 DEF PollMessages
  <1>5. CASE TakeLook
    BY <1>1, <1>5 DEF TakeLook
  <1>6. CASE NoLookToSend
    BY <1>1, <1>6 DEF NoLookToSend
  <1>7. CASE TakeCombat
    BY <1>1, <1>7 DEF TakeCombat
  <1>8. CASE NoCombatToSend
    BY <1>1, <1>8 DEF NoCombatToSend
  <1> QED
    BY <1>2, <1>3, <1>4, <1>5, <1>6, <1>7, <1>8

\* The hello itself.
LEMMA SendLocalHelloKeepsIInv == ASSUME IInv, SendLocalHello PROVE IInv'
  <1> USE DEF IInv, HandoffTypeOK, HelloIsNext, NothingTaken, Pump, After, moveVars,
              lookVars, combatVars, eventVars, SendLocalHello, IsConnected
  <1>1. CASE IsConnected /\ ~helloSent
    <2>0. wire = <<>> /\ wire' = Append(wire, Hello) /\ helloSent'
      BY <1>1 DEF WireOpensWithHello
    <2>1. wire' \in Seq({Hello} \cup Other) /\ Len(wire') = 1 /\ wire'[1] = Hello
      <3>1. wire \in Seq({Hello} \cup Other) /\ Len(wire) = 0
        BY <2>0 DEF WireOpensWithHello
      <3> QED
        BY ONLY <2>0, <3>1
    <2>2. WireOpensWithHello'
      BY <2>0, <2>1 DEF WireOpensWithHello, HelloOpens
    <2> QED
      BY <1>1, <2>0, <2>2
  <1>2. CASE ~(IsConnected /\ ~helloSent)
    <2>1. UNCHANGED <<wire, helloSent>>
      BY <1>2
    <2>2. WireOpensWithHello'
      BY <2>1, SilenceKeepsWire
    <2> QED
      BY <1>2, <2>1, <2>2
  <1> QED
    BY <1>1, <1>2

\* What the worker sends after the hello.
LEMMA SpeakingWorkerKeepsIInv ==
    ASSUME IInv, SendLook \/ SendLocalTransform \/ SendCombat PROVE IInv'
  <1> USE DEF IInv, HandoffTypeOK, HelloIsNext, NothingTaken, Pump, After, moveVars,
              lookVars, combatVars, eventVars, HasSocket
  <1>1. CASE SendLook
    <2>1. WireOpensWithHello'
      <3>1. CASE HasSocket
        <4>1. helloSent /\ held \in Look
          BY <1>1, <3>1, WhoSpeaksSaidHello DEF SendLook
        <4>2. Appearance(held) \in Other
          BY <4>1, OthersAreNoHello
        <4>3. wire' = Append(wire, Appearance(held)) /\ helloSent' = helloSent
          BY <1>1, <3>1 DEF SendLook
        <4> QED
          BY <4>1, <4>2, <4>3, OthersFollow
      <3>2. CASE ~HasSocket
        BY <1>1, <3>2, SilenceKeepsWire DEF SendLook
      <3> QED
        BY <3>1, <3>2
    <2> QED
      BY <1>1, <2>1 DEF SendLook
  <1>2. CASE SendLocalTransform
    <2> DEFINE sends == xformValid /\ localTick < MaxTick
    <2>1. localTick' \in 0..MaxTick /\ localTick' \in Nat
      BY <1>2, BoundsAssumption DEF SendLocalTransform
    <2>2. WireOpensWithHello'
      <3>1. CASE sends /\ HasSocket
        <4>1. helloSent /\ Transform(localTick') \in Other
          BY <1>2, <2>1, <3>1, WhoSpeaksSaidHello, OthersAreNoHello DEF SendLocalTransform
        <4>2. wire' = Append(wire, Transform(localTick')) /\ helloSent' = helloSent
          BY <1>2, <3>1 DEF SendLocalTransform
        <4> QED
          BY <4>1, <4>2, OthersFollow
      <3>2. CASE ~(sends /\ HasSocket)
        BY <1>2, <3>2, SilenceKeepsWire DEF SendLocalTransform
      <3> QED
        BY <3>1, <3>2
    <2> QED
      BY <1>2, <2>1, <2>2 DEF SendLocalTransform
  <1>3. CASE SendCombat
    <2>1. batch' \in Seq(Nat) /\ Head(batch) \in Nat
      BY <1>3 DEF SendCombat
    <2>2. WireOpensWithHello'
      <3>1. CASE HasSocket
        <4>1. helloSent /\ Combat(Head(batch)) \in Other
          BY <1>3, <2>1, <3>1, WhoSpeaksSaidHello, OthersAreNoHello DEF SendCombat
        <4>2. wire' = Append(wire, Combat(Head(batch))) /\ helloSent' = helloSent
          BY <1>3, <3>1 DEF SendCombat
        <4> QED
          BY <4>1, <4>2, OthersFollow
      <3>2. CASE ~HasSocket
        BY <1>3, <3>2, SilenceKeepsWire DEF SendCombat
      <3> QED
        BY <3>1, <3>2
    <2> QED
      BY <1>3, <2>1, <2>2 DEF SendCombat
  <1> QED
    BY <1>1, <1>2, <1>3

\* The game thread, which says nothing by itself.
LEMMA GameKeepsIInv == ASSUME IInv, Frame \/ Shoot PROVE IInv'
  <1> USE DEF IInv, HandoffTypeOK, HelloIsNext, NothingTaken, After, moveVars, lookVars,
              combatVars, eventVars
  <1>0. UNCHANGED <<wire, helloSent, conn, worker, held, batch>>
    BY DEF Frame, Shoot, OnNetUpdate, CaptureLocalTransform, CaptureLocalAppearance,
           PushLocalAppearance, DrainEvents, Dispatch, ReportShot, PushLocalFire,
           PushLocalHit, PushCombat
  <1>1. WireOpensWithHello'
    BY <1>0, SilenceKeepsWire
  <1>2. CASE OnNetUpdate
    BY <1>0, <1>1, <1>2 DEF OnNetUpdate, IsConnected
  <1>3. CASE CaptureLocalTransform
    <2>1. xformValid' \in BOOLEAN
      BY <1>3, Zenon DEF CaptureLocalTransform
    <2>2. conn # "connecting"
      BY <1>3 DEF CaptureLocalTransform
    <2> QED
      BY <1>0, <1>1, <1>3, <2>1, <2>2 DEF CaptureLocalTransform
  <1>4. CASE CaptureLocalAppearance
    <2>1. \/ UNCHANGED <<appearance, dirty, changes>>
          \/ /\ appearance' \in Look /\ dirty' = TRUE
             /\ changes' = changes + 1 /\ changes < MaxChanges
      BY <1>4 DEF CaptureLocalAppearance, PushLocalAppearance
    <2>2. appearance' \in Look \cup {NoLook} /\ dirty' \in BOOLEAN
      BY <2>1
    <2>3. changes' \in 0..MaxChanges
      BY <2>1, BoundsAssumption
    <2> QED
      BY <1>0, <1>1, <1>4, <2>2, <2>3 DEF CaptureLocalAppearance
  <1>5. CASE DrainEvents
    BY <1>0, <1>1, <1>5 DEF DrainEvents
  <1>6. CASE Dispatch
    <2>1. scratch' \in Seq(Nat) /\ handled' \in Seq(Nat) /\ game' \in {"idle", "dispatch"}
      BY <1>6, QueueFacts DEF Dispatch
    <2>2. conn # "connecting"
      BY <1>6 DEF Dispatch
    <2> QED
      BY <1>0, <1>1, <1>6, <2>1, <2>2 DEF Dispatch
  <1>7. CASE ReportShot
    BY <1>0, <1>1, <1>7 DEF ReportShot, IsConnected
  <1>8. CASE PushLocalFire \/ PushLocalHit
    <2>0. fired' = fired + 1 /\ outCombat' = Append(outCombat, fired')
      BY <1>8 DEF PushLocalFire, PushLocalHit, PushCombat
    <2>1. fired' \in Nat /\ outCombat' \in Seq(Nat)
      <3>1. fired \in Nat /\ outCombat \in Seq(Nat)
        OBVIOUS
      <3> QED
        BY ONLY <2>0, <3>1
    <2>2. game' \in {"idle", "pushHit"} /\ conn # "connecting"
      BY <1>8 DEF PushLocalFire, PushLocalHit
    <2>3. hits' \subseteq 1..fired'
      <3>1. hits' = hits \/ hits' = hits \cup {fired'}
        BY <1>8 DEF PushLocalFire, PushLocalHit
      <3>2. hits \subseteq 1..fired /\ fired \in Nat
        OBVIOUS
      <3>3. \A h \in hits' : h \in 1..fired \/ h = fired'
        BY ONLY <3>1, <3>2, Zenon
      <3>4. \A h : h \in 1..fired \/ h = fired' => h \in 1..fired'
        BY ONLY <2>0, <3>2
      <3> QED
        BY ONLY <3>3, <3>4
    <2> QED
      BY <1>0, <1>1, <1>8, <2>1, <2>2, <2>3 DEF PushLocalFire, PushLocalHit, PushCombat
  <1> QED
    BY <1>2, <1>3, <1>4, <1>5, <1>6, <1>7, <1>8 DEF Frame, Shoot

LEMMA StutterKeepsIInv == ASSUME IInv, UNCHANGED vars PROVE IInv'
  <1>1. WireOpensWithHello'
    BY SilenceKeepsWire DEF IInv, vars
  <1> QED
    BY <1>1 DEF IInv, HandoffTypeOK, HelloIsNext, NothingTaken, vars, moveVars, lookVars,
                combatVars, eventVars

\* Every reachable state satisfies the inductive invariant.
LEMMA HandoffInvariance == Spec => []IInv
  <1>1. IInv /\ [Next]_vars => IInv'
    BY QuietWorkerKeepsIInv, SendLocalHelloKeepsIInv, SpeakingWorkerKeepsIInv,
       GameKeepsIInv, StutterKeepsIInv DEF Next, Worker
  <1> QED
    BY <1>1, InitIInv, PTL DEF Spec

-----------------------------------------------------------------------------
(* The theorems.                                                             *)

\* Both threads' variables and the queues between them keep their types.
THEOREM HandoffTypeCorrect == Spec => []HandoffTypeOK
  <1>1. IInv => HandoffTypeOK
    BY DEF IInv
  <1> QED
    BY <1>1, HandoffInvariance, PTL

\* The hello is handed over before all else and once, whatever the game thread pushes
\* while the connection comes up (SendLocalHello, the pump's order); so of what is sent
\* reliably it is what the host hears first.
THEOREM HelloOpensTheWire == Spec => []HelloComesFirst
  <1>1. IInv => HelloComesFirst
    <2> SUFFICES ASSUME IInv PROVE HelloComesFirst
      OBVIOUS
    <2>1. /\ wire \in Seq({Hello} \cup Other)
          /\ \A i \in DOMAIN wire : (wire[i] = Hello) <=> (i = 1)
      BY DEF IInv, WireOpensWithHello, HelloOpens
    <2>2. \A i \in DOMAIN wire : i \in Nat /\ 1 <= i /\ 1 \in DOMAIN wire
      BY <2>1
    <2>3. wire # <<>> => Head(wire) = Hello
      BY <2>1
    <2>4. IsReliable(Hello)
      BY DEF IsReliable, Hello
    <2>5. ASSUME NEW i \in DOMAIN wire, IsReliable(wire[i])
          PROVE  wire[i] = Hello <=> \A j \in MayBeHeardBefore(i) : ~IsReliable(wire[j])
      <3>1. CASE i = 1
        BY <2>1, <2>2, <2>5, <3>1 DEF MayBeHeardBefore
      <3>2. CASE i # 1
        <4>1. 1 \in MayBeHeardBefore(i) /\ wire[1] = Hello
          BY <2>1, <2>2, <3>2 DEF MayBeHeardBefore
        <4> QED
          BY <2>1, <2>4, <3>2, <4>1
      <3> QED
        BY <3>1, <3>2
    <2> QED
      BY <2>3, <2>5 DEF HelloComesFirst
  <1> QED
    BY <1>1, HandoffInvariance, PTL

-----------------------------------------------------------------------------
(* The look.                                                                 *)

\* The look in the worker's hands is the latest, or that one is marked; with empty
\* hands and no mark, the latest was the last one sent.
LooksFollow ==
    /\ LooksSent \in Seq(Look)
    /\ held # NoLook => dirty \/ held = appearance
    /\ CleanLookIsSent

\* What the worker sends of a type makes what was said of it longer, by one.
LEMMA WireGrows ==
    ASSUME IInv, NEW m \in {Hello} \cup Other, wire' = Append(wire, m), NEW t
    PROVE  Said(wire', t) = Noted(Said(wire, t), m, t)
  <1> PICK w : w = wire
    OBVIOUS
  <1>1. w \in Seq({Hello} \cup Other)
    BY DEF IInv, WireOpensWithHello
  <1>2. Said(Append(w, m), t) = Noted(Said(w, t), m, t)
    BY <1>1, SaidAppend
  <1> QED
    BY <1>2

\* Only SendLook sends a look.
LEMMA NoLookSaid ==
    ASSUME IInv, [Next]_vars, ~SendLook
    PROVE  LooksSent' = LooksSent
  <1>1. CASE UNCHANGED wire
    BY <1>1 DEF LooksSent
  <1>2. ASSUME wire' # wire
        PROVE  \E m \in {Hello} \cup Other :
                 wire' = Append(wire, m) /\ m.type # "Appearance"
    <2>1. SendLocalHello \/ SendLocalTransform \/ SendCombat
      BY <1>2 DEF vars, Next, Worker, Frame, Shoot, RunCallbacks, QueueEvent, PollMessages,
                  TakeLook, NoLookToSend, TakeCombat, NoCombatToSend, OnNetUpdate,
                  CaptureLocalTransform, CaptureLocalAppearance, DrainEvents, Dispatch,
                  ReportShot, PushLocalFire, PushLocalHit, PushCombat
    <2>2. CASE SendLocalHello
      <3>1. wire' = Append(wire, Hello)
        BY <1>2, <2>2 DEF SendLocalHello
      <3> QED
        BY <3>1 DEF Hello
    <2>3. CASE SendLocalTransform
      <3>1. wire' = Append(wire, Transform(localTick')) /\ localTick' \in Nat
        BY <1>2, <2>3, BoundsAssumption DEF SendLocalTransform, IInv, HandoffTypeOK
      <3>2. Transform(localTick') \in Other
        BY <3>1, OthersAreNoHello
      <3>3. Transform(localTick').type # "Appearance"
        BY DEF Transform
      <3> QED
        BY <3>1, <3>2, <3>3
    <2>4. CASE SendCombat
      <3>1. wire' = Append(wire, Combat(Head(batch))) /\ batch # <<>>
        BY <1>2, <2>4 DEF SendCombat
      <3>4. Head(batch) \in Nat
        BY <3>1, QueueFacts DEF IInv, HandoffTypeOK
      <3>2. Combat(Head(batch)) \in Other
        BY <3>4, OthersAreNoHello
      <3>3. Combat(Head(batch)).type # "Appearance"
        BY DEF Combat
      <3> QED
        BY <3>1, <3>2, <3>3
    <2> QED
      BY <2>1, <2>2, <2>3, <2>4
  <1>3. CASE wire' # wire
    <2> PICK m \in {Hello} \cup Other : wire' = Append(wire, m) /\ m.type # "Appearance"
      BY <1>2, <1>3
    <2>1. Said(wire', "Appearance") = Noted(Said(wire, "Appearance"), m, "Appearance")
      BY WireGrows
    <2> QED
      BY <2>1 DEF LooksSent, Noted
  <1> QED
    BY <1>1, <1>3

LEMMA LooksInit == Init => LooksFollow
  <1> SUFFICES ASSUME Init PROVE LooksFollow
    OBVIOUS
  <1>1. wire = <<>> /\ held = NoLook /\ appearance = NoLook
    BY DEF Init
  <1>2. LooksSent = <<>>
    BY <1>1, SaidNothing DEF LooksSent
  <1>3. LooksSent \in Seq(Look)
    BY <1>2
  <1> QED
    BY <1>1, <1>3 DEF LooksFollow, CleanLookIsSent

LEMMA LooksStep == ASSUME IInv, LooksFollow, [Next]_vars PROVE LooksFollow'
  <1>1. CASE SendLook
    <2>1. held \in Look /\ held # NoLook /\ held' = NoLook /\ appearance' = appearance
      BY <1>1 DEF SendLook, IInv, HandoffTypeOK
    <2>2. CASE HasSocket
      <3>1. wire' = Append(wire, Appearance(held)) /\ (dirty' <=> dirty)
        BY <1>1, <2>2 DEF SendLook
      <3>2. Appearance(held) \in {Hello} \cup Other
        BY <2>1, OthersAreNoHello
      <3>3. LooksSent' = Noted(LooksSent, Appearance(held), "Appearance")
        BY <3>1, <3>2, WireGrows DEF LooksSent
      <3>4. Noted(LooksSent, Appearance(held), "Appearance") = Append(LooksSent, held)
        BY DEF Noted, Appearance
      <3>5. LooksSent \in Seq(Look)
        BY DEF LooksFollow
      <3>6. LooksSent' = Append(LooksSent, held)
        BY <3>3, <3>4
      <3>7. LooksSent' \in Seq(Look) /\ LastLook' = held
        <4> PICK s : s = LooksSent
          OBVIOUS
        <4> PICK l : l = held
          OBVIOUS
        <4>1. Append(s, l) \in Seq(Look) /\ Append(s, l) # <<>> /\ Last(Append(s, l)) = l
          BY <2>1, <3>5 DEF Last
        <4> QED
          BY <3>6, <4>1 DEF LastLook
      <3> QED
        BY <2>1, <3>1, <3>7 DEF LooksFollow, CleanLookIsSent
    <2>3. CASE ~HasSocket
      <3>1. wire' = wire /\ dirty'
        BY <1>1, <2>3 DEF SendLook
      <3>2. LooksSent' = LooksSent
        BY <3>1 DEF LooksSent
      <3> QED
        BY <2>1, <3>1, <3>2 DEF LooksFollow, CleanLookIsSent
    <2> QED
      BY <2>2, <2>3
  <1>2. CASE ~SendLook
    <2>1. LooksSent' = LooksSent /\ LastLook' = LastLook
      BY <1>2, NoLookSaid DEF LastLook
    <2>2. CASE TakeLook
      BY <2>1, <2>2 DEF TakeLook, LooksFollow, CleanLookIsSent
    <2>3. CASE CaptureLocalAppearance
      <3>1. UNCHANGED <<appearance, dirty>> \/ dirty' = TRUE
        BY <2>3 DEF CaptureLocalAppearance, PushLocalAppearance
      <3>2. held' = held
        BY <2>3 DEF CaptureLocalAppearance
      <3> QED
        BY <2>1, <3>1, <3>2 DEF LooksFollow, CleanLookIsSent
    <2>4. CASE UNCHANGED <<appearance, dirty, held>>
      BY <2>1, <2>4 DEF LooksFollow, CleanLookIsSent
    <2> QED
      BY <1>2, <2>2, <2>3, <2>4
      DEF vars, lookVars, Next, Worker, Frame, Shoot, RunCallbacks, QueueEvent,
          PollMessages, SendLocalHello, NoLookToSend, SendLocalTransform, TakeCombat,
          SendCombat, NoCombatToSend, OnNetUpdate, CaptureLocalTransform, DrainEvents,
          Dispatch, ReportShot, PushLocalFire, PushLocalHit, PushCombat
  <1> QED
    BY <1>1, <1>2

\* A look that is neither marked nor in the worker's hands is the last one the host
\* heard, however pushes and the two halves of the sending fall.
THEOREM NoLookIsForgotten == Spec => []CleanLookIsSent
  <1>1. IInv /\ LooksFollow /\ [Next]_vars => LooksFollow'
    BY LooksStep
  <1>2. LooksFollow => CleanLookIsSent
    BY DEF LooksFollow
  <1> QED
    BY <1>1, <1>2, LooksInit, HandoffInvariance, PTL DEF Spec

-----------------------------------------------------------------------------
(* The two queues are mailboxes.                                             *)

\* Between two frames the game has dispatched all it drained.
ScratchIsDispatched == game # "dispatch" => scratch = <<>>

LEMMA ScratchStep == ScratchIsDispatched /\ [Next]_vars => ScratchIsDispatched'
  BY DEF ScratchIsDispatched, vars, moveVars, lookVars, combatVars, eventVars, Next, Worker,
         Frame, Shoot, Pump, RunCallbacks, QueueEvent, PollMessages, SendLocalHello,
         TakeLook, SendLook, NoLookToSend, SendLocalTransform, TakeCombat, SendCombat,
         NoCombatToSend, OnNetUpdate, CaptureLocalTransform, CaptureLocalAppearance,
         DrainEvents, Dispatch,
         ReportShot, PushLocalFire, PushLocalHit, PushCombat

\* What is posted, taken out and put aside, of two queues laid end to end.
LEMMA TwoQueues ==
    ASSUME NEW a \in Seq(Nat), NEW b \in Seq(Nat), NEW n \in Nat
    PROVE  /\ a \o Append(b, n) = Append(a \o b, n)
           /\ a # <<>> => /\ a \o b # <<>>
                          /\ Tail(a) \o b = Tail(a \o b) /\ Head(a \o b) = Head(a)
           /\ <<>> \o b = b /\ b \o <<>> = b
  <1>1. a \o Append(b, n) = Append(a \o b, n)
    OBVIOUS
  <1>2. <<>> \o b = b /\ b \o <<>> = b
    OBVIOUS
  <1>3. CASE a # <<>>
    <2>1. a \o b # <<>> /\ Head(a \o b) = Head(a)
      BY <1>3
    <2>2. Tail(a) \o b = Tail(a \o b)
      BY <1>3
    <2> QED
      BY <2>1, <2>2, <1>1, <1>2
  <1> QED
    BY <1>1, <1>2, <1>3

\* Events queued are posted, events dispatched are taken, and draining moves the
\* queue over whole, because there is nothing left of the one before.
THEOREM EventsReachTheGame == Spec => EventsImplementMailbox
  <1>1. Init => Inbox!Init
    BY DEF Init, Inbox!Init
  <1>2. ASSUME IInv, ScratchIsDispatched, [Next]_vars
        PROVE  [Inbox!Next]_<<received, scratch \o events, handled, FALSE>>
    <2>1. scratch \in Seq(Nat) /\ events \in Seq(Nat) /\ received \in Nat
      BY <1>2 DEF IInv, HandoffTypeOK
    <2>2. CASE QueueEvent
      <3>1. /\ received' = received + 1 /\ received' \in Nat
            /\ events' = Append(events, received') /\ UNCHANGED <<scratch, handled>>
        BY <2>1, <2>2 DEF QueueEvent
      <3>2. scratch' \o events' = Append(scratch \o events, received')
        BY <2>1, <3>1, TwoQueues
      <3> QED
        BY <3>1, <3>2 DEF Inbox!Next, Inbox!Post
    <2>3. CASE DrainEvents
      <3>1. /\ scratch = <<>> /\ scratch' = events /\ events' = <<>>
            /\ UNCHANGED <<received, handled>>
        BY <1>2, <2>3 DEF DrainEvents, ScratchIsDispatched
      <3>2. scratch' \o events' = scratch \o events
        BY <2>1, <3>1, TwoQueues
      <3> QED
        BY <3>1, <3>2
    <2>4. CASE Dispatch
      <3>1. CASE scratch = <<>>
        BY <2>4, <3>1 DEF Dispatch
      <3>2. CASE scratch # <<>>
        <4>1. /\ scratch' = Tail(scratch) /\ handled' = Append(handled, Head(scratch))
              /\ UNCHANGED <<events, received>>
          BY <2>4, <3>2 DEF Dispatch
        <4>2. /\ scratch \o events # <<>> /\ Head(scratch \o events) = Head(scratch)
              /\ scratch' \o events' = Tail(scratch \o events)
          BY <2>1, <3>2, <4>1, TwoQueues
        <4> QED
          BY <4>1, <4>2 DEF Inbox!Next, Inbox!Take
      <3> QED
        BY <3>1, <3>2
    <2>5. CASE UNCHANGED <<received, scratch, events, handled>>
      BY <2>5
    <2> QED
      BY <1>2, <2>2, <2>3, <2>4, <2>5
      DEF vars, eventVars, Next, Worker, Frame, Shoot, RunCallbacks, PollMessages,
          SendLocalHello, TakeLook, SendLook, NoLookToSend, SendLocalTransform,
          TakeCombat, SendCombat,
          NoCombatToSend, OnNetUpdate, CaptureLocalTransform, CaptureLocalAppearance,
          ReportShot, PushLocalFire, PushLocalHit, PushCombat
  <1>3. Init => ScratchIsDispatched
    BY DEF Init, ScratchIsDispatched
  <1> QED
    BY <1>1, <1>2, <1>3, ScratchStep, HandoffInvariance, PTL
    DEF Spec, EventsImplementMailbox, Inbox!Spec

\* Only SendCombat sends a shot.
LEMMA NoShotSaid ==
    ASSUME IInv, [Next]_vars, ~SendCombat
    PROVE  ShotsSent' = ShotsSent
  <1>1. CASE UNCHANGED wire
    BY <1>1 DEF ShotsSent
  <1>2. ASSUME wire' # wire
        PROVE  \E m \in {Hello} \cup Other : wire' = Append(wire, m) /\ m.type # "Combat"
    <2>1. SendLocalHello \/ SendLocalTransform \/ SendLook
      BY <1>2 DEF vars, Next, Worker, Frame, Shoot, RunCallbacks, QueueEvent, PollMessages,
                  TakeLook, NoLookToSend, TakeCombat, NoCombatToSend, OnNetUpdate,
                  CaptureLocalTransform, CaptureLocalAppearance, DrainEvents, Dispatch,
                  ReportShot, PushLocalFire, PushLocalHit, PushCombat
    <2>2. CASE SendLocalHello
      <3>1. wire' = Append(wire, Hello)
        BY <1>2, <2>2 DEF SendLocalHello
      <3> QED
        BY <3>1 DEF Hello
    <2>3. CASE SendLocalTransform
      <3>1. wire' = Append(wire, Transform(localTick')) /\ localTick' \in Nat
        BY <1>2, <2>3, BoundsAssumption DEF SendLocalTransform, IInv, HandoffTypeOK
      <3>2. Transform(localTick') \in Other
        BY <3>1, OthersAreNoHello
      <3>3. Transform(localTick').type # "Combat"
        BY DEF Transform
      <3> QED
        BY <3>1, <3>2, <3>3
    <2>4. CASE SendLook
      <3>1. wire' = Append(wire, Appearance(held)) /\ held \in Look
        BY <1>2, <2>4 DEF SendLook, IInv, HandoffTypeOK
      <3>2. Appearance(held) \in Other
        BY <3>1, OthersAreNoHello
      <3>3. Appearance(held).type # "Combat"
        BY DEF Appearance
      <3> QED
        BY <3>1, <3>2, <3>3
    <2> QED
      BY <2>1, <2>2, <2>3, <2>4
  <1>3. CASE wire' # wire
    <2> PICK m \in {Hello} \cup Other : wire' = Append(wire, m) /\ m.type # "Combat"
      BY <1>2, <1>3
    <2>1. Said(wire', "Combat") = Noted(Said(wire, "Combat"), m, "Combat")
      BY WireGrows
    <2> QED
      BY <2>1 DEF ShotsSent, Noted
  <1> QED
    BY <1>1, <1>3

\* Shots pushed are posted, and a batch sent one by one is taken from in front of
\* what was pushed meanwhile; the rest is dropped in order once the host is lost.
THEOREM ShotsReachTheWire == Spec => ShotsImplementMailbox
  <1>1. Init => Shots!Init
    <2> SUFFICES ASSUME Init PROVE Shots!Init
      OBVIOUS
    <2>1. wire = <<>> /\ batch = <<>> /\ outCombat = <<>> /\ fired = 0 /\ HasSocket
      BY DEF Init, HasSocket
    <2>2. ShotsSent = <<>>
      BY <2>1, SaidNothing DEF ShotsSent
    <2>3. batch \o outCombat = <<>>
      BY <2>1
    <2> QED
      BY <2>1, <2>2, <2>3 DEF Shots!Init
  <1>2. ASSUME IInv, [Next]_vars
        PROVE  [Shots!Next]_<<fired, batch \o outCombat, ShotsSent, ~HasSocket>>
    <2>1. batch \in Seq(Nat) /\ outCombat \in Seq(Nat) /\ fired \in Nat
      BY <1>2 DEF IInv, HandoffTypeOK
    <2>2. CASE PushLocalFire \/ PushLocalHit
      <3>1. /\ fired' = fired + 1 /\ fired' \in Nat
            /\ outCombat' = Append(outCombat, fired') /\ UNCHANGED <<batch, conn, wire>>
        BY <2>1, <2>2 DEF PushLocalFire, PushLocalHit, PushCombat
      <3>2. batch' \o outCombat' = Append(batch \o outCombat, fired')
        BY <2>1, <3>1, TwoQueues
      <3>3. ShotsSent' = ShotsSent /\ (HasSocket' <=> HasSocket)
        BY <3>1 DEF ShotsSent, HasSocket
      <3> QED
        BY <3>1, <3>2, <3>3 DEF Shots!Next, Shots!Post
    <2>3. CASE TakeCombat
      <3>1. /\ batch = <<>> /\ batch' = outCombat /\ outCombat' = <<>>
            /\ UNCHANGED <<fired, conn, wire>>
        BY <2>3 DEF TakeCombat
      <3>2. batch' \o outCombat' = batch \o outCombat
        BY <2>1, <3>1, TwoQueues
      <3>3. ShotsSent' = ShotsSent /\ (HasSocket' <=> HasSocket)
        BY <3>1 DEF ShotsSent, HasSocket
      <3> QED
        BY <3>1, <3>2, <3>3
    <2>4. CASE SendCombat
      <3>1. /\ batch # <<>> /\ batch' = Tail(batch)
            /\ wire' = IF HasSocket THEN Append(wire, Combat(Head(batch))) ELSE wire
            /\ UNCHANGED <<fired, conn, outCombat>>
        BY <2>4 DEF SendCombat
      <3>2. /\ batch \o outCombat # <<>> /\ Head(batch \o outCombat) = Head(batch)
            /\ batch' \o outCombat' = Tail(batch \o outCombat)
        BY <2>1, <3>1, TwoQueues
      <3>3. HasSocket' <=> HasSocket
        BY <3>1 DEF HasSocket
      <3>4. CASE HasSocket
        <4>1. Head(batch) \in Nat
          BY <2>1, <3>1
        <4>2. Combat(Head(batch)) \in {Hello} \cup Other
          BY <4>1, OthersAreNoHello
        <4>3. ShotsSent' = Noted(ShotsSent, Combat(Head(batch)), "Combat")
          BY <1>2, <3>1, <3>4, <4>2, WireGrows DEF ShotsSent
        <4>4. ShotsSent' = Append(ShotsSent, Head(batch))
          BY <4>3 DEF Noted, Combat
        <4> QED
          BY <3>1, <3>2, <3>3, <4>4 DEF Shots!Next, Shots!Take
      <3>5. CASE ~HasSocket
        <4>1. ShotsSent' = ShotsSent
          BY <3>1, <3>5 DEF ShotsSent
        <4> QED
          BY <3>1, <3>2, <3>3, <3>5, <4>1 DEF Shots!Next, Shots!Drop
      <3> QED
        BY <3>4, <3>5
    <2>5. CASE ~SendCombat /\ UNCHANGED <<fired, batch, outCombat>>
      <3>1. ShotsSent' = ShotsSent /\ batch' \o outCombat' = batch \o outCombat
        BY <1>2, <2>5, NoShotSaid
      <3>2. HasSocket' => HasSocket
        BY <1>2 DEF HasSocket, IInv, HandoffTypeOK, vars, Next, Worker, Frame, Shoot,
                    RunCallbacks, QueueEvent, PollMessages, SendLocalHello, TakeLook,
                    SendLook, NoLookToSend, SendLocalTransform, TakeCombat, SendCombat,
                    NoCombatToSend, OnNetUpdate, CaptureLocalTransform,
                    CaptureLocalAppearance, DrainEvents,
                    Dispatch, ReportShot, PushLocalFire, PushLocalHit, PushCombat
      <3>3. CASE HasSocket' <=> HasSocket
        BY <2>5, <3>1, <3>3
      <3>4. CASE ~HasSocket' /\ HasSocket
        BY <2>5, <3>1, <3>4 DEF Shots!Next, Shots!Close
      <3> QED
        BY <3>2, <3>3, <3>4
    <2> QED
      BY <1>2, <2>2, <2>3, <2>4, <2>5
      DEF vars, combatVars, Next, Worker, Frame, Shoot, RunCallbacks, QueueEvent,
          PollMessages, SendLocalHello, TakeLook, SendLook, NoLookToSend,
          SendLocalTransform, SendCombat,
          NoCombatToSend, OnNetUpdate, CaptureLocalTransform, CaptureLocalAppearance,
          DrainEvents, Dispatch, ReportShot
  <1> QED
    BY <1>1, <1>2, HandoffInvariance, PTL DEF Spec, ShotsImplementMailbox, Shots!Spec
=============================================================================
