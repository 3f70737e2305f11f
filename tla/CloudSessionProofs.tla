------------------------- MODULE CloudSessionProofs -------------------------
(***************************************************************************)
(* Proofs about CloudSession for every set of devices, every list a login  *)
(* can bring and every cap of the backoffs.                                *)
(***************************************************************************)
EXTENDS CloudSession, FiniteSetTheorems, TLAPS

\* What a wait grows to stays between the least wait and its cap.
LEMMA BackoffGrows ==
  ASSUME NEW cap \in Nat \ {0}, NEW b \in Nat \ {0}
  PROVE  AtMost(2 * b, cap) \in MinReconnect..cap
BY DEF AtMost, MinReconnect

LEMMA LeastBackoff == MinReconnect \in 1..MaxReconnect /\ MinReconnect = 1
BY CloudSessionAssumption DEF MinReconnect

LEMMA FlapType ==
  ASSUME NEW n \in Nat, Flap(n)
  PROVE  flaps' \in 0..MaxFlaps
BY CloudSessionAssumption DEF Flap, AtMost, MaxFlaps

-----------------------------------------------------------------------------
(***************************************************************************)
(* Types.                                                                  *)
(***************************************************************************)
\* Before the first login there is no device to subscribe or to announce.
BeforeLogin == pc \in {"login", "loginWait"} => listed = {} /\ upstream = "unknown"

TypeInv == TypeOK /\ BeforeLogin

LEMMA InitType == Init => TypeInv
<1> SUFFICES ASSUME Init PROVE TypeInv
  OBVIOUS
<1>1. backoff \in MinReconnect..MaxReconnect /\ flaps \in 0..MaxFlaps
  BY CloudSessionAssumption, LeastBackoff DEF Init, MaxFlaps
<1> QED
  BY <1>1 DEF Init, TypeInv, TypeOK, BeforeLogin, PC

LEMMA LoginType ==
  ASSUME TypeInv, LoginFails \/ LoginSucceeds \/ LoginAgain
  PROVE  TypeInv'
<1> USE CloudSessionAssumption
<1>1. CASE LoginFails
  BY <1>1 DEF LoginFails, TypeInv, TypeOK, BeforeLogin, PC, conn, told
<1>2. CASE LoginSucceeds
  BY <1>2 DEF LoginSucceeds, TypeInv, TypeOK, BeforeLogin, PC, conn, told, MinReconnect
<1>3. CASE LoginAgain
  <2>1. backoff' \in MinReconnect..MaxLoginBackoff
    BY <1>3, BackoffGrows DEF LoginAgain, TypeInv, TypeOK, MinReconnect
  <2> QED
    BY <1>3, <2>1 DEF LoginAgain, TypeInv, TypeOK, BeforeLogin, PC, conn, told
<1> QED
  BY <1>1, <1>2, <1>3

LEMMA SessionType ==
  ASSUME TypeInv,
         \/ ConnectFails \/ Connect \/ Subscribed \/ AnnounceUpstream
         \/ Lost \/ StableLost \/ ConnectAgain \/ Stop
         \/ \E d \in Device : Subscribe(d) \/ AnnounceDevice(d)
  PROVE  TypeInv'
<1> USE CloudSessionAssumption
<1>1. CASE ConnectFails
  <2>1. flaps' \in 0..MaxFlaps
    BY <1>1, FlapType DEF ConnectFails, TypeInv, TypeOK
  <2> QED
    BY <1>1, <2>1 DEF ConnectFails, TypeInv, TypeOK, BeforeLogin, PC, conn, told
<1>2. CASE Connect
  BY <1>2 DEF Connect, TypeInv, TypeOK, BeforeLogin, PC, told
<1>3. ASSUME NEW d \in Device, Subscribe(d) PROVE TypeInv'
  BY <1>3 DEF Subscribe, TypeInv, TypeOK, BeforeLogin, PC, told
<1>4. CASE Subscribed
  BY <1>4 DEF Subscribed, TypeInv, TypeOK, BeforeLogin, PC, conn, told
<1>5. ASSUME NEW d \in Device, AnnounceDevice(d) PROVE TypeInv'
  BY <1>5 DEF AnnounceDevice, TypeInv, TypeOK, BeforeLogin, PC, conn
<1>6. CASE AnnounceUpstream
  BY <1>6 DEF AnnounceUpstream, TypeInv, TypeOK, BeforeLogin, PC, conn
<1>7. CASE Lost
  <2>1. flaps' \in 0..MaxFlaps
    BY <1>7, FlapType DEF Lost, TypeInv, TypeOK
  <2> QED
    BY <1>7, <2>1 DEF Lost, TypeInv, TypeOK, BeforeLogin, PC, conn
<1>8. CASE StableLost
  <2>1. flaps' \in 0..MaxFlaps
    BY <1>8, FlapType DEF StableLost, TypeInv, TypeOK
  <2>2. backoff' \in MinReconnect..MaxReconnect /\ backoff' <= MaxReconnect
    BY <1>8, LeastBackoff DEF StableLost
  <2> QED
    BY <1>8, <2>1, <2>2 DEF StableLost, TypeInv, TypeOK, BeforeLogin, PC
<1>9. CASE ConnectAgain
  <2>1. backoff' \in MinReconnect..MaxReconnect
    BY <1>9, BackoffGrows DEF ConnectAgain, TypeInv, TypeOK, MinReconnect
  <2> QED
    BY <1>9, <2>1 DEF ConnectAgain, TypeInv, TypeOK, BeforeLogin, PC, conn, told, MinReconnect
<1>10. CASE Stop
  BY <1>10 DEF Stop, TypeInv, TypeOK, BeforeLogin, PC, told
<1> QED
  BY <1>1, <1>2, <1>3, <1>4, <1>5, <1>6, <1>7, <1>8, <1>9, <1>10

LEMMA WorldType ==
  ASSUME TypeInv,
         \/ Break \/ Age \/ Cancel
         \/ \E d \in Device : Arrive(d) \/ HandleMessage(d)
  PROVE  TypeInv'
<1>1. ASSUME NEW d \in Device, Arrive(d) PROVE TypeInv'
  BY <1>1 DEF Arrive, TypeInv, TypeOK, BeforeLogin, told
<1>2. ASSUME NEW d \in Device, HandleMessage(d) PROVE TypeInv'
  BY <1>2 DEF HandleMessage, TypeInv, TypeOK, BeforeLogin
<1>3. CASE Break
  BY <1>3 DEF Break, TypeInv, TypeOK, BeforeLogin, told
<1>4. CASE Age
  BY <1>4 DEF Age, TypeInv, TypeOK, BeforeLogin, told
<1>5. CASE Cancel
  BY <1>5 DEF Cancel, TypeInv, TypeOK, BeforeLogin, conn, told
<1> QED
  BY <1>1, <1>2, <1>3, <1>4, <1>5

LEMMA NextType == TypeInv /\ [Next]_vars => TypeInv'
<1> SUFFICES ASSUME TypeInv, [Next]_vars PROVE TypeInv'
  OBVIOUS
<1>1. CASE UNCHANGED vars
  BY <1>1 DEF vars, TypeInv, TypeOK, BeforeLogin
<1> QED
  BY <1>1, LoginType, SessionType, WorldType DEF Next

LEMMA TypeInvariant == Spec => []TypeInv
BY InitType, NextType, PTL DEF Spec

\* Every variable keeps its type: the backoff its caps, a session its places in
\* the goroutine, and what is subscribed, awaited and said reachable the list of
\* the login.
THEOREM TypeCorrect == Spec => []TypeOK
<1>1. TypeInv => TypeOK
  BY DEF TypeInv
<1> QED
  BY <1>1, TypeInvariant, PTL

-----------------------------------------------------------------------------
(***************************************************************************)
(* The order of the announcements.                                         *)
(***************************************************************************)
\* The devices announced in this session, and all of them after it.
Announced ==
  /\ pc = "announce" => listed \ todo \subseteq reach
  /\ upstream = "up" => reach = listed

\* When the bridge says the session is up, every device the login listed has
\* been said reachable (sessionUp, source.go:89-99).
THEOREM DevicesFirst == Spec => []UpstreamAfterDevices
<1>1. Init => Announced
  BY DEF Init, Announced
<1>2. TypeInv /\ Announced /\ [Next]_vars => Announced'
  <2> SUFFICES ASSUME TypeInv, Announced, [Next]_vars PROVE Announced'
    OBVIOUS
  <2> USE DEF TypeInv, TypeOK, Announced
  <2>1. CASE LoginFails \/ LoginSucceeds \/ LoginAgain
    BY <2>1 DEF LoginFails, LoginSucceeds, LoginAgain, BeforeLogin, conn, told
  <2>2. CASE ConnectFails \/ Connect \/ ConnectAgain \/ Stop
    BY <2>2 DEF ConnectFails, Connect, ConnectAgain, Stop, conn, told
  <2>3. ASSUME NEW d \in Device, Subscribe(d) PROVE Announced'
    BY <2>3 DEF Subscribe, told
  <2>4. CASE Subscribed
    BY <2>4 DEF Subscribed, conn, told
  <2>5. ASSUME NEW d \in Device, AnnounceDevice(d) PROVE Announced'
    BY <2>5 DEF AnnounceDevice, conn
  <2>6. CASE AnnounceUpstream
    BY <2>6 DEF AnnounceUpstream, conn
  <2>7. CASE Lost \/ StableLost
    BY <2>7 DEF Lost, StableLost, conn
  <2>8. ASSUME NEW d \in Device, Arrive(d) PROVE Announced'
    BY <2>8 DEF Arrive, told
  <2>9. ASSUME NEW d \in Device, HandleMessage(d) PROVE Announced'
    BY <2>9 DEF HandleMessage
  <2>10. CASE Break \/ Age \/ Cancel
    BY <2>10 DEF Break, Age, Cancel, conn, told
  <2>11. CASE UNCHANGED vars
    BY <2>11 DEF vars
  <2> QED
    BY <2>1, <2>2, <2>3, <2>4, <2>5, <2>6, <2>7, <2>8, <2>9, <2>10, <2>11 DEF Next
<1>3. Announced => UpstreamAfterDevices
  BY DEF Announced, UpstreamAfterDevices
<1> QED
  BY <1>1, <1>2, <1>3, TypeInvariant, PTL DEF Spec

-----------------------------------------------------------------------------
(***************************************************************************)
(* The subscriptions of a session.                                         *)
(***************************************************************************)
\* What this session has subscribed at each stage of it.
Subscribing ==
  session =>
    /\ pc = "subscribe" => listed \ todo \subseteq subs
    /\ pc \in {"announce", "up"} => subs = listed

\* A session on which no subscription is rejected brings, while the goroutine
\* waits for its loss, the reports of every listed device, whatever sessions
\* came before (subscribeAll, source.go:270-290).
THEOREM SubscriptionsStand ==
  ASSUME ~SubscribeMayFail
  PROVE  Spec => []SubscribedWhileUp
<1>1. Init => Subscribing
  BY DEF Init, Subscribing
<1>2. TypeInv /\ Subscribing /\ [Next]_vars => Subscribing'
  <2> SUFFICES ASSUME TypeInv, Subscribing, [Next]_vars PROVE Subscribing'
    OBVIOUS
  <2> USE DEF TypeInv, TypeOK, Subscribing
  <2>1. CASE LoginFails \/ LoginSucceeds \/ LoginAgain
    BY <2>1 DEF LoginFails, LoginSucceeds, LoginAgain, conn
  <2>2. CASE ConnectFails \/ ConnectAgain \/ Stop
    BY <2>2 DEF ConnectFails, ConnectAgain, Stop, conn
  <2>3. CASE Connect
    BY <2>3 DEF Connect
  <2>4. ASSUME NEW d \in Device, Subscribe(d) PROVE Subscribing'
    BY <2>4 DEF Subscribe
  <2>5. CASE Subscribed
    BY <2>5 DEF Subscribed, conn
  <2>6. ASSUME NEW d \in Device, AnnounceDevice(d) PROVE Subscribing'
    BY <2>6 DEF AnnounceDevice, conn
  <2>7. CASE AnnounceUpstream
    BY <2>7 DEF AnnounceUpstream, conn
  <2>8. CASE Lost \/ StableLost
    BY <2>8 DEF Lost, StableLost, conn
  <2>9. ASSUME NEW d \in Device, Arrive(d) \/ HandleMessage(d) PROVE Subscribing'
    BY <2>9 DEF Arrive, HandleMessage
  <2>10. CASE Break \/ Age \/ Cancel
    BY <2>10 DEF Break, Age, Cancel, conn
  <2>11. CASE UNCHANGED vars
    BY <2>11 DEF vars
  <2> QED
    BY <2>1, <2>2, <2>3, <2>4, <2>5, <2>6, <2>7, <2>8, <2>9, <2>10, <2>11 DEF Next
<1>3. Subscribing => SubscribedWhileUp
  BY DEF Subscribing, SubscribedWhileUp
<1> QED
  BY <1>1, <1>2, <1>3, TypeInvariant, PTL DEF Spec

-----------------------------------------------------------------------------
(***************************************************************************)
(* The backoff.                                                            *)
(***************************************************************************)
\* The provers know no exponents; the subsets of 1..n, which the library
\* counts, do.  Those of 1..n+1 are the ones with n+1 and the ones without.
LEMMA PowerCounts ==
  ASSUME NEW n \in Nat
  PROVE  /\ IsFiniteSet(SUBSET (1..n))
         /\ Cardinality(SUBSET (1..n)) = 2 ^ n
         /\ 2 ^ n \in Nat
<1>1. IsFiniteSet(1..n) /\ Cardinality(1..n) = n
  BY FS_Interval
<1>2. IsFiniteSet(SUBSET (1..n)) /\ Cardinality(SUBSET (1..n)) = 2 ^ n
  BY <1>1, FS_SUBSET
<1>3. Cardinality(SUBSET (1..n)) \in Nat
  BY <1>2, FS_CardinalityType
<1> QED BY <1>2, <1>3

LEMMA PowerDoubles ==
  ASSUME NEW n \in Nat
  PROVE  2 ^ (n + 1) = 2 * 2 ^ n
<1> DEFINE Without == SUBSET (1..n)
           With == {S \cup {n + 1} : S \in Without}
           add == [S \in Without |-> S \cup {n + 1}]
<1>1. SUBSET (1..(n + 1)) = Without \cup With
  <2>1. ASSUME NEW S \in SUBSET (1..(n + 1)), n + 1 \in S PROVE S \in With
    <3>1. S \ {n + 1} \in Without
      OBVIOUS
    <3>2. S = (S \ {n + 1}) \cup {n + 1}
      BY <2>1
    <3> QED BY <3>1, <3>2
  <2>2. ASSUME NEW S \in SUBSET (1..(n + 1)), n + 1 \notin S PROVE S \in Without
    BY <2>2
  <2>3. ASSUME NEW S \in Without
        PROVE  S \in SUBSET (1..(n + 1)) /\ S \cup {n + 1} \in SUBSET (1..(n + 1))
    <3>1. 1..n \subseteq 1..(n + 1) /\ n + 1 \in 1..(n + 1)
      OBVIOUS
    <3> QED BY <3>1
  <2>4. ASSUME NEW U \in With PROVE U \in SUBSET (1..(n + 1))
    <3>1. PICK S \in Without : U = S \cup {n + 1}
      OBVIOUS
    <3> QED BY <2>3, <3>1
  <2> HIDE DEF Without, With
  <2> QED BY <2>1, <2>2, <2>3, <2>4
<1>2. Without \cap With = {}
  OBVIOUS
<1>3. add \in Bijection(Without, With)
  <2>1. add \in [Without -> With]
    OBVIOUS
  <2>2. \A S, T \in Without : add[S] = add[T] => S = T
    <3> SUFFICES ASSUME NEW S \in Without, NEW T \in Without, S \cup {n + 1} = T \cup {n + 1}
                 PROVE  S = T
      OBVIOUS
    <3>1. n + 1 \notin S /\ n + 1 \notin T
      OBVIOUS
    <3> QED BY <3>1
  <2>3. \A U \in With : \E S \in Without : add[S] = U
    OBVIOUS
  <2> QED BY <2>1, <2>2, <2>3 DEF Bijection, Injection, Surjection, IsInjective
<1>4. ExistsBijection(Without, With)
  BY <1>3 DEF ExistsBijection
<1>5. IsFiniteSet(Without) /\ Cardinality(Without) = 2 ^ n /\ 2 ^ n \in Nat
  BY PowerCounts
<1>6. IsFiniteSet(With) /\ Cardinality(With) = 2 ^ n
  BY <1>4, <1>5, FS_Bijection
<1>7. Cardinality(Without \cup With) = 2 ^ n + 2 ^ n
  <2>1. Cardinality(Without \cap With) = 0
    BY <1>2, FS_EmptySet
  <2>2. Cardinality(Without \cup With)
          = Cardinality(Without) + Cardinality(With) - Cardinality(Without \cap With)
    BY <1>5, <1>6, FS_Union
  <2> QED BY <1>5, <1>6, <2>1, <2>2
<1>8. Cardinality(SUBSET (1..(n + 1))) = 2 ^ (n + 1)
  BY PowerCounts
<1> HIDE DEF Without, With
<1>9. Cardinality(SUBSET (1..(n + 1))) = 2 ^ n + 2 ^ n
  BY <1>1, <1>7
<1> DEFINE a == 2 ^ n
           b == 2 ^ (n + 1)
<1>10. a \in Nat /\ b = a + a
  BY <1>5, <1>8, <1>9
<1> HIDE DEF a, b
<1>11. b = 2 * a
  BY <1>10
<1> QED BY <1>11 DEF a, b

\* The backoff at each place of the goroutine: 2^flaps once it has waited,
\* half of it while it waits.  After as many flaps as are counted the cap has
\* long been reached; GrowsPast carries along what that rests on.
GrowsPast == flaps # 0 => flaps <= 2 ^ (flaps - 1)

Following ==
  /\ pc \in {"login", "loginWait"} => flaps = 0
  /\ pc = "wait" => flaps # 0 /\ backoff = AtMost(2 ^ (flaps - 1), MaxReconnect)
  /\ pc \in {"connect", "subscribe", "announce", "up"} =>
       backoff = AtMost(2 ^ flaps, MaxReconnect)

FlapInv == TypeInv /\ GrowsPast /\ Following

\* One more flap, counted or at the bound of the count.
LEMMA FlapFollows ==
  ASSUME FlapInv, pc \in {"connect", "up"}, Flap(flaps), backoff' = backoff
  PROVE  /\ flaps' # 0 /\ flaps' <= 2 ^ (flaps' - 1)
         /\ backoff' = AtMost(2 ^ (flaps' - 1), MaxReconnect)
<1>1. flaps \in 0..MaxFlaps /\ MaxReconnect \in Nat \ {0} /\ MaxFlaps = MaxReconnect + 1
  BY CloudSessionAssumption DEF FlapInv, TypeInv, TypeOK, MaxFlaps
<1>2. backoff = AtMost(2 ^ flaps, MaxReconnect)
  BY DEF FlapInv, Following
<1>3. CASE flaps < MaxFlaps
  <2>1. flaps' = flaps + 1 /\ flaps' - 1 = flaps
    BY <1>1, <1>3 DEF Flap, AtMost
  <2>2. flaps + 1 <= 2 ^ flaps
    <3>1. CASE flaps = 0
      <4>1. 2 ^ 0 = 1
        OBVIOUS
      <4> QED BY <3>1, <4>1
    <3>2. CASE flaps # 0
      <4> DEFINE n == flaps - 1
      <4>1. n \in Nat /\ flaps = n + 1
        BY <1>1, <3>2
      <4>2. flaps <= 2 ^ n
        BY <3>2 DEF FlapInv, GrowsPast
      <4>3. 2 ^ n \in Nat
        BY <4>1, PowerCounts
      <4>4. 2 ^ (n + 1) = 2 * 2 ^ n
        BY <4>1, PowerDoubles
      <4>5. 2 ^ flaps = 2 ^ (n + 1)
        BY <4>1
      <4> HIDE DEF n
      <4> QED BY <4>1, <4>2, <4>3, <4>4, <4>5
    <3> QED BY <3>1, <3>2
  <2> QED BY <1>1, <1>2, <2>1, <2>2
<1>4. CASE flaps = MaxFlaps
  <2>1. flaps' = MaxFlaps
    BY <1>1, <1>4 DEF Flap, AtMost
  <2> DEFINE n == MaxFlaps - 1
  <2>2. n \in Nat /\ MaxFlaps = n + 1 /\ n = MaxReconnect
    BY <1>1
  <2>3. MaxFlaps <= 2 ^ n
    BY <1>1, <1>4 DEF FlapInv, GrowsPast
  <2>4. 2 ^ n \in Nat /\ 2 ^ (n + 1) = 2 * 2 ^ n
    BY <2>2, PowerCounts, PowerDoubles
  <2>5. 2 ^ flaps = 2 ^ (n + 1) /\ 2 ^ (flaps' - 1) = 2 ^ n
    BY <1>4, <2>1, <2>2
  <2> HIDE DEF n
  <2>6. AtMost(2 ^ flaps, MaxReconnect) = MaxReconnect
    BY <1>1, <2>2, <2>3, <2>4, <2>5 DEF AtMost
  <2>7. AtMost(2 ^ (flaps' - 1), MaxReconnect) = MaxReconnect
    BY <1>1, <2>2, <2>3, <2>4, <2>5 DEF AtMost
  <2> QED BY <1>1, <1>2, <2>1, <2>2, <2>3, <2>5, <2>6, <2>7
<1> QED BY <1>1, <1>3, <1>4

\* The first end after a stable session is the first flap.
LEMMA StableFollows ==
  ASSUME FlapInv, StableLost
  PROVE  GrowsPast' /\ Following'
<1>1. MaxReconnect \in Nat \ {0} /\ MaxFlaps = MaxReconnect + 1
  BY CloudSessionAssumption DEF MaxFlaps
<1>2. flaps' = 1
  BY <1>1 DEF StableLost, Flap, AtMost
<1>3. 2 ^ (flaps' - 1) = 1
  <2>1. 2 ^ 0 = 1
    OBVIOUS
  <2> QED BY <1>2, <2>1
<1>4. backoff' = 1 /\ pc' = "wait"
  BY DEF StableLost, MinReconnect
<1>5. AtMost(1, MaxReconnect) = 1
  BY <1>1 DEF AtMost
<1> QED BY <1>2, <1>3, <1>4, <1>5 DEF GrowsPast, Following

LEMMA WaitedFollows ==
  ASSUME FlapInv, ConnectAgain
  PROVE  GrowsPast' /\ Following'
<1>1. flaps \in Nat /\ flaps # 0 /\ MaxReconnect \in Nat \ {0}
  BY CloudSessionAssumption DEF FlapInv, TypeInv, TypeOK, MaxFlaps, Following, ConnectAgain
<1> DEFINE n == flaps - 1
<1>2. n \in Nat /\ flaps = n + 1
  BY <1>1
<1>3. backoff = AtMost(2 ^ n, MaxReconnect)
  BY DEF FlapInv, Following, ConnectAgain
<1>4. 2 ^ n \in Nat /\ 2 ^ (n + 1) = 2 * 2 ^ n
  BY <1>2, PowerCounts, PowerDoubles
<1>5. 2 ^ flaps = 2 ^ (n + 1)
  BY <1>2
<1> HIDE DEF n
<1>6. AtMost(2 * backoff, MaxReconnect) = AtMost(2 ^ flaps, MaxReconnect)
  BY <1>1, <1>3, <1>4, <1>5 DEF AtMost
<1> QED BY <1>6 DEF FlapInv, GrowsPast, Following, ConnectAgain

LEMMA FlapKept == FlapInv /\ [Next]_vars => GrowsPast' /\ Following'
<1> SUFFICES ASSUME FlapInv, [Next]_vars PROVE GrowsPast' /\ Following'
  OBVIOUS
<1>1. CASE LoginSucceeds
  <2>1. flaps = 0 /\ flaps' = 0 /\ backoff' = 1 /\ pc' = "connect"
    BY <1>1 DEF LoginSucceeds, FlapInv, Following, MinReconnect
  <2>2. 2 ^ 0 = 1 /\ AtMost(1, MaxReconnect) = 1
    BY CloudSessionAssumption DEF AtMost
  <2> QED BY <2>1, <2>2 DEF GrowsPast, Following
<1>2. CASE LoginFails \/ LoginAgain
  BY <1>2 DEF LoginFails, LoginAgain, FlapInv, GrowsPast, Following
<1>3. CASE ConnectFails \/ Lost
  <2>1. pc \in {"connect", "up"} /\ Flap(flaps) /\ pc' \in {"wait", "stopped"} /\ backoff' = backoff
    BY <1>3 DEF ConnectFails, Lost
  <2> QED BY <2>1, FlapFollows DEF GrowsPast, Following
<1>4. CASE StableLost
  BY <1>4, StableFollows
<1>5. CASE ConnectAgain
  BY <1>5, WaitedFollows
<1>6. CASE Connect \/ Subscribed \/ AnnounceUpstream \/ Stop
  BY <1>6 DEF Connect, Subscribed, AnnounceUpstream, Stop, FlapInv, GrowsPast, Following
<1>7. ASSUME NEW d \in Device, Subscribe(d) \/ AnnounceDevice(d) \/ Arrive(d) \/ HandleMessage(d)
      PROVE  GrowsPast' /\ Following'
  BY <1>7 DEF Subscribe, AnnounceDevice, Arrive, HandleMessage, FlapInv, GrowsPast, Following
<1>8. CASE Break \/ Age \/ Cancel \/ UNCHANGED vars
  BY <1>8 DEF Break, Age, Cancel, vars, FlapInv, GrowsPast, Following
<1> QED BY <1>1, <1>2, <1>3, <1>4, <1>5, <1>6, <1>7, <1>8 DEF Next

\* The wait before the next attempt doubles with every session or attempt that
\* ended in a row, up to its cap, and starts over after a stable session,
\* whatever the cap and however often the broker flaps (connectLoop,
\* source.go:213-257).
THEOREM WaitFollows == Spec => []WaitFollowsFlaps
<1>1. Init => GrowsPast /\ Following
  BY DEF Init, GrowsPast, Following
<1>2. TypeInv /\ GrowsPast /\ Following /\ [Next]_vars => GrowsPast' /\ Following'
  BY FlapKept DEF FlapInv
<1>3. Following => WaitFollowsFlaps
  BY DEF Following, WaitFollowsFlaps
<1> QED BY <1>1, <1>2, <1>3, TypeInvariant, PTL DEF Spec
=============================================================================
