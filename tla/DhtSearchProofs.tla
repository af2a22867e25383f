-------------------------- MODULE DhtSearchProofs --------------------------
(***************************************************************************)
(* Proofs about the search for peers, for any number of addresses, nodes   *)
(* and replies.                                                            *)
(***************************************************************************)
EXTENDS DhtSearch, SequenceTheorems, TLAPS

SeqTypes ==
  /\ dhtNodeStack \in Seq(Names)
  /\ peersLeft \in Seq(Addresses)
  /\ nodesFound \in Seq(Nodes)
  /\ threadsMap \in [Addresses -> Nat]
  /\ sessions \in [Addresses -> Nat]
  /\ dhtNode \in {Bootstrap, Unnamed}

\* What the search holds of a reply, and of the stack, at each place.
PlaceInv ==
  /\ pc # "peers" => peersLeft = <<>> /\ nodesFound = <<>>
  /\ pc = "inner" => dhtNodeStack # <<>>

SearchInv == SeqTypes /\ PlaceInv /\ OneSessionPerAddress

-----------------------------------------------------------------------------

LEMMA FrontLast ==
  ASSUME NEW S, NEW s \in Seq(S), s # <<>>
  PROVE  /\ Front(s) \in Seq(S) /\ Len(Front(s)) = Len(s) - 1
         /\ \A k \in 1 .. Len(s) - 1 : Front(s)[k] = s[k]
         /\ Last(s) = s[Len(s)] /\ Len(s) \in 1 .. Len(s)
<1>1. Len(s) \in Nat \ {0}
  BY EmptySeq
<1>2. Front(s) = SubSeq(s, 1, Len(s) - 1) /\ Last(s) = s[Len(s)]
  BY DEF Front, Last
<1>3. \A k \in 1 .. Len(s) - 1 : s[k] \in S
  BY <1>1
<1>4. /\ 1 \in 1 .. Len(s) + 1 /\ Len(s) - 1 \in 0 .. Len(s)
      /\ Len(s) - 1 - 1 + 1 = Len(s) - 1
  BY <1>1
<1>5. /\ SubSeq(s, 1, Len(s) - 1) \in Seq(S)
      /\ Len(SubSeq(s, 1, Len(s) - 1)) = IF 1 <= Len(s) - 1 THEN Len(s) - 1 - 1 + 1 ELSE 0
      /\ \A i \in 1 .. Len(s) - 1 - 1 + 1 : SubSeq(s, 1, Len(s) - 1)[i] = s[1 + i - 1]
  BY <1>4, SubSeqProperties
<1>. QED  BY <1>1, <1>2, <1>4, <1>5

LEMMA Bounded == ASSUME NEW S, NEW n \in Nat, NEW s \in BoundedSeq(S, n) PROVE s \in Seq(S)
<1>1. PICK m \in 0 .. n : s \in [1 .. m -> S]
  BY DEF BoundedSeq, SeqOf
<1>. QED  BY <1>1, SeqDef

LEMMA SearchInit == Init => SearchInv
BY NodesAssumption, EmptySeq
   DEF Init, SearchInv, SeqTypes, PlaceInv, OneSessionPerAddress, Names

LEMMA SearchStep == SearchInv /\ [Next]_vars => SearchInv'
<1>. SUFFICES ASSUME SearchInv, [Next]_vars PROVE SearchInv'
  OBVIOUS
<1>. USE DEF SearchInv, OneSessionPerAddress
<1>1. CASE PushBootstrap
  <2>1. dhtNodeStack \in Seq(Names) /\ dhtNode \in Names
    BY DEF SeqTypes, Names
  <2>2. dhtNodeStack' \in Seq(Names) /\ dhtNodeStack' # <<>>
    BY <1>1, <2>1 DEF PushBootstrap
  <2>3. SeqTypes' /\ PlaceInv'
    BY <1>1, <2>2 DEF PushBootstrap, SeqTypes, PlaceInv, reply, registry, AfterMove
  <2>. QED  BY <1>1, <2>3 DEF PushBootstrap, registry
<1>2. CASE AskTop
  <2>1. dhtNodeStack \in Seq(Names) /\ dhtNodeStack # <<>>
    BY <1>2 DEF AskTop, SeqTypes, PlaceInv
  <2>2. dhtNodeStack' \in Seq(Names)
    BY <1>2, <2>1, FrontLast DEF AskTop
  <2>3. SeqTypes' /\ PlaceInv'
    BY <1>2, <2>2 DEF AskTop, SeqTypes, PlaceInv, reply, registry
  <2>. QED  BY <1>2, <2>3 DEF AskTop, registry
<1>3. CASE FindPeers
  <2>1. peersLeft' \in Seq(Addresses) /\ nodesFound' \in Seq(Nodes)
    BY <1>3, Bounded, BoundsAssumption, EmptySeq DEF FindPeers
  <2>2. SeqTypes' /\ PlaceInv'
    BY <1>3, <2>1 DEF FindPeers, SeqTypes, PlaceInv, registry
  <2>. QED  BY <1>3, <2>2 DEF FindPeers, registry
<1>4. CASE NextPeer
  <2>1. Head(peersLeft) \in Addresses /\ peersLeft' \in Seq(Addresses)
    BY <1>4, HeadTailProperties DEF NextPeer, SeqTypes
  <2>2. SeqTypes' /\ OneSessionPerAddress'
    <3>1. CASE HasNoSession(Head(peersLeft))
      <4>. DEFINE h == Head(peersLeft)
      <4>1. /\ threadsMap' = [threadsMap EXCEPT ![h] = @ + 1]
            /\ sessions' = [sessions EXCEPT ![h] = @ + 1]
            /\ UNCHANGED <<dhtNode, dhtNodeStack, nodesFound>>
        BY <1>4, <3>1 DEF NextPeer
      <4>2. threadsMap[h] = 0 /\ sessions[h] = 0 /\ h \in Addresses
        BY <2>1, <3>1 DEF HasNoSession
      <4>. HIDE DEF h
      <4>3. threadsMap \in [Addresses -> Nat] /\ sessions \in [Addresses -> Nat]
        BY DEF SeqTypes
      <4>4. /\ threadsMap' \in [Addresses -> Nat] /\ sessions' \in [Addresses -> Nat]
            /\ \A a \in Addresses : sessions'[a] <= 1 /\ threadsMap'[a] = sessions'[a]
        BY <4>1, <4>2, <4>3
      <4>. QED  BY <2>1, <4>1, <4>4 DEF SeqTypes
    <3>2. CASE ~ HasNoSession(Head(peersLeft))
      BY <1>4, <2>1, <3>2 DEF NextPeer, SeqTypes, registry
    <3>. QED  BY <3>1, <3>2
  <2>3. PlaceInv'
    BY <1>4 DEF NextPeer, PlaceInv
  <2>. QED  BY <2>2, <2>3
<1>5. CASE PushNodes
  <2>1. dhtNodeStack \in Seq(Names) /\ nodesFound \in Seq(Names)
    BY DEF SeqTypes, Names
  <2>2. dhtNodeStack' \in Seq(Names)
    BY <1>5, <2>1 DEF PushNodes
  <2>3. SeqTypes' /\ PlaceInv'
    BY <1>5, <2>2, EmptySeq DEF PushNodes, SeqTypes, PlaceInv, registry
  <2>. QED  BY <1>5, <2>3 DEF PushNodes, registry
<1>6. CASE InnerTest \/ OuterTest
  BY <1>6 DEF InnerTest, OuterTest, AsksOn, SearchesOn, SeqTypes, PlaceInv, reply,
     registry
<1>7. ASSUME NEW a \in Addresses, Completes(a) PROVE SearchInv'
  BY <1>7 DEF Completes, SeqTypes, PlaceInv, reply, registry
<1>8. ASSUME NEW a \in Addresses, Leaves(a) PROVE SearchInv'
  BY <1>8 DEF Leaves, Erased, SeqTypes, PlaceInv, reply
<1>9. CASE Stopped \/ UNCHANGED vars
  BY <1>9 DEF Stopped, vars, SeqTypes, PlaceInv, reply, registry
<1>. QED
  BY <1>1, <1>2, <1>3, <1>4, <1>5, <1>6, <1>7, <1>8, <1>9 DEF Next, DownloadCo

THEOREM SearchInvariant == Spec => []SearchInv
BY SearchInit, SearchStep, PTL DEF Spec

\* Type correctness: the search takes the top of its stack only while there is one.
THEOREM TypeCorrect == Spec => []TypeOK
<1>1. Init => TypeOK
  BY SearchInit DEF Init, TypeOK, SearchInv, SeqTypes, PlaceInv, Names
<1>2. SearchInv /\ SearchInv' /\ TypeOK /\ [Next]_vars => TypeOK'
  <2>. SUFFICES ASSUME SearchInv, SearchInv', TypeOK, [Next]_vars PROVE TypeOK'
    OBVIOUS
  <2>1. /\ SeqTypes' /\ PlaceInv'
    BY DEF SearchInv
  <2>2. asked' \in Names
    <3>1. CASE AskTop
      BY <3>1, FrontLast DEF AskTop, SearchInv, SeqTypes, PlaceInv
    <3>2. CASE ~ AskTop
      BY <3>2 DEF Next, DownloadCo, PushBootstrap, FindPeers, NextPeer, PushNodes, InnerTest,
         OuterTest, Completes, Leaves, Stopped, vars, reply, TypeOK
    <3>. QED  BY <3>1, <3>2
  <2>3. /\ pc' \in {"outer", "inner", "asking", "peers", "innerTest", "outerTest", "ended"}
        /\ downloaded' \in BOOLEAN
    BY DEF Next, DownloadCo, PushBootstrap, AskTop, FindPeers, NextPeer, PushNodes, InnerTest,
       OuterTest, Completes, Leaves, Stopped, vars, reply, registry, TypeOK
  <2>. QED  BY <2>1, <2>2, <2>3 DEF TypeOK, SeqTypes, PlaceInv
<1>. QED  BY <1>1, <1>2, SearchInvariant, PTL DEF Spec

\* However often replies repeat an address, it has one session at a time.
THEOREM OneSession == Spec => []OneSessionPerAddress
<1>1. SearchInv => OneSessionPerAddress
  BY DEF SearchInv
<1>. QED  BY <1>1, SearchInvariant, PTL

\* The search keeps the promises of Discovery.
THEOREM ImplementsDiscovery == Spec => DiscoverySpec
<1>1. Init => Found!Init
  BY DEF Init, Found!Init
<1>2. SearchInv /\ [Next]_vars => [Found!Next]_(Found!discoveryVars)
  <2>. SUFFICES ASSUME SearchInv, [Next]_vars
                PROVE  [Found!Next]_(Found!discoveryVars)
    OBVIOUS
  <2>. DEFINE Alive == {a \in Addresses : sessions[a] > 0}
  <2>0. /\ sessions \in [Addresses -> Nat] /\ peersLeft \in Seq(Addresses)
        /\ OneSessionPerAddress
    BY DEF SearchInv, SeqTypes
  <2>1. CASE NextPeer
    <3>1. Head(peersLeft) \in Addresses
      BY <2>0, <2>1, HeadTailProperties DEF NextPeer
    <3>2. CASE HasNoSession(Head(peersLeft))
      <4>1. Head(peersLeft) \notin Alive /\ Alive' = Alive \cup {Head(peersLeft)}
        BY <2>0, <2>1, <3>1, <3>2 DEF NextPeer, HasNoSession, OneSessionPerAddress
      <4>2. PICK h \in Addresses : h = Head(peersLeft)
        BY <3>1
      <4>3. Found!Start(h)
        BY <2>1, <4>1, <4>2 DEF NextPeer, Found!Start
      <4>. QED  BY <4>3 DEF Found!Next
    <3>3. CASE ~ HasNoSession(Head(peersLeft))
      BY <2>1, <3>3 DEF NextPeer, registry, Found!discoveryVars
    <3>. QED  BY <3>2, <3>3
  <2>2. ASSUME NEW a \in Addresses, Leaves(a) PROVE Found!Leave(a)
    <3>1. a \in Alive /\ Alive' = Alive \ {a}
      BY <2>0, <2>2 DEF Leaves, Erased, OneSessionPerAddress
    <3>. QED  BY <2>2, <3>1 DEF Leaves, Found!Leave
  <2>3. ASSUME NEW a \in Addresses, Completes(a) PROVE Found!Complete
    BY <2>3 DEF Completes, registry, Found!Complete
  <2>4. CASE OuterTest
    BY <2>4 DEF OuterTest, SearchesOn, registry, Found!discoveryVars, Found!Next, Found!End
  <2>5. CASE PushBootstrap \/ AskTop \/ FindPeers \/ PushNodes \/ InnerTest \/ Stopped
               \/ UNCHANGED vars
    BY <2>5 DEF PushBootstrap, AskTop, FindPeers, PushNodes, InnerTest, Stopped, vars,
       registry, Found!discoveryVars
  <2>. QED
    BY <2>1, <2>2, <2>3, <2>4, <2>5 DEF Next, DownloadCo, Found!Next
<1>. QED  BY <1>1, <1>2, SearchInvariant, PTL DEF Spec, DiscoverySpec, Found!Spec

=============================================================================
