------------------------- MODULE PolicyEngineProofs -------------------------
(***************************************************************************)
(* What the placement policy promises, for any processes, domains, loads,  *)
(* limits, rules and reserve plans.                                        *)
(***************************************************************************)
EXTENDS PolicyEngine, FiniteSetTheorems, WellFoundedInduction, TLAPS

-----------------------------------------------------------------------------
\* What is so between the steps

\* The world: an unassigned process has no domain, one that has ended has no
\* assignment, and the partition starts somewhere.
WorldOK ==
    /\ \A k \in Processes :
          /\ held[k].by = "nobody" => held[k].at = None
          /\ Mine(k) => status[k] # "gone"
    /\ open # {} => anchor \in open

\* The orders given are the orders pending: one for a process, none for one
\* that waits for its turn, and none while the thread is idle.
OrdersOK ==
    /\ pc = "idle" => orders = {}
    /\ pc # "evaluate" => todo = {}
    /\ \A o \in orders : o.key \notin todo
    /\ \A o, p \in orders : o.key = p.key => o = p
    /\ \A o \in orders :
          /\ engine[o.key] # None
          /\ engine[o.key].pending = o.kind /\ engine[o.key].target = o.target

\* An order speaks of the process where it is: the engine saw it there, and
\* an order to its own domain is one about the service's own assignment. No
\* process ends during an evaluation.
SightOK ==
    /\ \A k \in todo : status[k] # "gone"
    /\ \A o \in orders :
          /\ status[o.key] # "gone"
          /\ engine[o.key].current = Seen(o.key)
          /\ o.kind = "set" =>
                /\ o.target \in Domains
                /\ held[o.key].at = o.target => Mine(o.key)
          /\ o.kind = "clear" => o.target = None

\* The engine never counts more than really happened, for a process the
\* service has assigned.
CountsOK ==
    \A k \in Processes : Mine(k) =>
        IF engine[k] = None THEN past[k].rested = Cooldown
        ELSE /\ engine[k].moved <= past[k].rested
             /\ engine[k].current = Seen(k) =>
                    /\ engine[k].streak <= past[k].hot
                    /\ engine[k].since <= past[k].resident

PolicyInv ==
    TypeOK /\ WorldOK /\ OrdersOK /\ Answered /\ SightOK /\ CountsOK
    /\ MovesEarned

-----------------------------------------------------------------------------
\* The operators of the model

Holdings == [by : {"nobody", "service", "outsider"},
             at : Domains \cup {None}, stale : BOOLEAN]

Pasts == [hot : 0 .. Stability, resident : 0 .. Residency,
          rested : 0 .. Cooldown]

\* Types, one process at a time.
LEMMA ProcessTypes ==
    ASSUME TypeOK
    PROVE  /\ held \in [Processes -> Holdings]
           /\ past \in [Processes -> Pasts]
           /\ engine \in [Processes -> States \cup {None}]
           /\ Nowhere \in Holdings
           /\ Stability \in Nat /\ Residency \in Nat /\ Cooldown \in Nat
           /\ MaxMutations \in Nat /\ MaxTroubles \in Nat
  BY PolicyAssumption DEF TypeOK, Holdings, Pasts, Nowhere

\* A set of natural numbers that is not empty has a least element.
LEMMA LeastNatural ==
    ASSUME NEW S, S \subseteq Nat, S # {}
    PROVE  \E n \in S : \A m \in S : n <= m
<1> DEFINE R == OpToRel(<, Nat)
<1>1. IsWellFoundedOn(R, Nat)
  BY NatLessThanWellFounded
<1>2. \A x, y \in Nat : x < y => <<x, y>> \in R
  BY DEF OpToRel
<1> HIDE DEF R
<1>3. PICK n \in S : \A m \in S : ~ (<<m, n>> \in R)
  BY <1>1, WFMin
<1>4. \A m \in S : n <= m
  <2> TAKE m \in S
  <2>1. m \in Nat /\ n \in Nat
    OBVIOUS
  <2>2. ~ (<<m, n>> \in R)
    BY <1>3
  <2>3. ~ (m < n)
    BY <1>2, <2>1, <2>2, Zenon
  <2> QED
    BY <2>1, <2>3
<1> QED
  BY <1>4

\* least_loaded_domain finds one of the domains it is given.
LEMMA LeastLoadedIsOne ==
    ASSUME loads \in [Domains -> Loads], NEW S, S \subseteq Domains, S # {}
    PROVE  LeastLoaded(S) \in S
<1> DEFINE T == {n \in Nat : \E d \in S : loads[d] = n}
<1>1. \A d \in S : loads[d] \in T
  BY PolicyAssumption
<1>2. PICK n \in T : \A m \in T : n <= m
  <2>1. T \subseteq Nat /\ T # {}
    BY <1>1
  <2> HIDE DEF T
  <2> QED
    BY <2>1, LeastNatural
<1> DEFINE U == {d \in S : loads[d] = n}
<1>3. U \subseteq Nat /\ U # {}
  BY <1>2, PolicyAssumption
<1>4. PICK d \in U : \A e \in U : d <= e
  <2> HIDE DEF U
  <2> QED
    BY <1>3, LeastNatural
<1>5. d \in S /\ loads[d] = n
  BY <1>4
<1>6. ASSUME NEW e \in S
      PROVE  loads[d] < loads[e] \/ (loads[d] = loads[e] /\ d <= e)
  <2>1. n <= loads[e] /\ n \in Nat /\ loads[e] \in Nat
    BY <1>1, <1>2
  <2>2. CASE loads[e] = n
    BY <1>4, <1>5, <2>2
  <2>3. CASE loads[e] # n
    BY <1>5, <2>1, <2>3
  <2> QED
    BY <2>2, <2>3
<1> QED
  BY <1>5, <1>6 DEF LeastLoaded

\* Ages stay below the limit, and an age that is not the greater one is not
\* the greater one later.
LEMMA UpToBounds ==
    ASSUME NEW limit \in Nat
    PROVE  /\ \A n \in Nat : UpTo(limit, n) \in 0 .. limit
           /\ \A n, m \in Nat : n <= m => UpTo(limit, n) <= UpTo(limit, m)
  BY DEF UpTo

\* The domain the observation names is one of the domains, or none.
LEMMA SeenTypes ==
    ASSUME TypeOK, NEW k \in Processes
    PROVE  /\ Seen(k) \in Domains \cup {None}
           /\ Seen(k) # None => Seen(k) = held[k].at
           /\ held[k] \in [by : {"nobody", "service", "outsider"},
                           at : Domains \cup {None}, stale : BOOLEAN]
<1>1. held[k] \in [by : {"nobody", "service", "outsider"},
                   at : Domains \cup {None}, stale : BOOLEAN]
  BY DEF TypeOK
<1> QED
  BY <1>1 DEF Seen

\* A fresh state of the engine.
LEMMA NewStateTypes ==
    ASSUME NEW d \in Domains \cup {None}
    PROVE  /\ NewState(d) \in States /\ NewState(d).current = d
           /\ NewState(d).since = 0 /\ NewState(d).moved = Cooldown
           /\ NewState(d).streak = 0 /\ NewState(d).pending = "none"
  BY PolicyAssumption DEF NewState, States

\* The entry an evaluation works with: it is where the process is seen, and
\* what is kept of the old one is kept as it was.
LEMMA EntryTypes ==
    ASSUME TypeOK, NEW k \in Processes
    PROVE  /\ Entry(k) \in States /\ Entry(k).current = Seen(k)
           /\ engine[k] = None => Entry(k) = NewState(Seen(k))
           /\ engine[k] # None =>
                 /\ engine[k] \in States
                 /\ Entry(k).moved = engine[k].moved
                 /\ engine[k].current = Seen(k) => Entry(k) = engine[k]
                 /\ engine[k].current # Seen(k) =>
                       /\ Entry(k).since = 0 /\ Entry(k).streak = 0
                       /\ Entry(k).pending = "none"
<1>1. Seen(k) \in Domains \cup {None}
  BY SeenTypes
<1> DEFINE fresh == NewState(Seen(k))
<1>2. /\ fresh \in States /\ fresh.current = Seen(k)
      /\ fresh.since = 0 /\ fresh.moved = Cooldown
      /\ fresh.streak = 0 /\ fresh.pending = "none"
  BY <1>1, NewStateTypes
<1>3. CASE engine[k] = None
  BY <1>2, <1>3 DEF Entry
<1>4. CASE engine[k] # None
  <2>1. engine[k] \in States
    BY <1>4 DEF TypeOK
  <2>2. CASE engine[k].current = Seen(k)
    BY <1>4, <2>1, <2>2 DEF Entry
  <2>3. CASE engine[k].current # Seen(k)
    <3> HIDE DEF fresh
    <3>1. Entry(k) = [fresh EXCEPT !.moved = engine[k].moved]
      BY <1>4, <2>3 DEF Entry, fresh
    <3>2. engine[k].moved \in 0 .. Cooldown
      BY <2>1 DEF States
    <3> QED
      BY <1>2, <1>4, <2>1, <2>3, <3>1, <3>2 DEF States
  <2> QED
    BY <2>2, <2>3
<1> QED
  BY <1>3, <1>4

-----------------------------------------------------------------------------
\* The order an evaluation gives

\* What an order says of the process it is for. A move to a better domain is
\* one of a process placed by load, which the service has assigned, and which
\* has the streak, the residency and the cooldown the engine asks for.
Sound(o, k) ==
    /\ o \in Orders /\ o.key = k
    /\ o.kind = "clear" => o.target = None
    /\ o.kind = "set" =>
          /\ o.target \in Domains
          /\ held[k].at = o.target => Mine(k)
    /\ o.why = "better" =>
          /\ Mine(k) /\ Adaptive(k) /\ Streak(k) >= Stability
          /\ Entry(k).since >= Residency /\ Entry(k).moved >= Cooldown

\* An order to set is sound when it names a domain.
LEMMA SetIsSound ==
    ASSUME NEW k \in Processes, NEW d \in Domains,
           NEW why \in {"partition", "refresh", "strict", "initial"},
           held[k].at = d => Mine(k)
    PROVE  Sound([key |-> k, kind |-> "set", target |-> d, why |-> why], k)
  BY DEF Sound, Orders

\* The move to a better domain is a sound order, for a process placed by load.
LEMMA BetterIsSound ==
    ASSUME TypeOK, WorldOK, NEW k \in Processes, Adaptive(k), Better(k) # {}
    PROVE  \E o : Better(k) = {o} /\ Sound(o, k)
<1> DEFINE others == open \ {Seen(k)}
           d == LeastLoaded(others)
           o == [key |-> k, kind |-> "set", target |-> d, why |-> "better"]
<1>1. /\ Better(k) = {o} /\ others # {} /\ Streak(k) >= Stability
      /\ Entry(k).since >= Residency /\ Entry(k).moved >= Cooldown
  BY DEF Better, Set, Nothing
<1>2. d \in Domains /\ d # Seen(k)
  <2>1. others \subseteq Domains /\ loads \in [Domains -> Loads]
    BY PolicyAssumption DEF TypeOK
  <2> HIDE DEF others
  <2>2. d \in others
    BY <1>1, <2>1, LeastLoadedIsOne
  <2> QED
    BY <2>1, <2>2 DEF others
<1>3. Mine(k)
  <2>1. held[k].at # None /\ held[k].by # "outsider"
    BY SeenTypes DEF Adaptive
  <2> QED
    BY <2>1, SeenTypes DEF WorldOK, Mine
<1>4. o \in Orders /\ o.key = k /\ o.kind = "set" /\ o.target = d
  BY <1>2 DEF Orders
<1> QED
  BY <1>1, <1>2, <1>3, <1>4 DEF Sound

\* Placement gives no order or a sound one.
LEMMA PlacementIsSound ==
    ASSUME TypeOK, WorldOK, NEW k \in Processes,
           status[k] # "barred", mode[k] # "Off",
           held[k].by = "outsider" => mode[k] = "Strict",
           Entry(k).pending = "none", Placement(k) # {}
    PROVE  \E o : Placement(k) = {o} /\ Sound(o, k)
<1>1. /\ held[k].by \in {"nobody", "service", "outsider"}
      /\ Seen(k) \in Domains \cup {None}
      /\ Seen(k) # None => Seen(k) = held[k].at
      /\ held[k].by = "nobody" => held[k].at = None
      /\ open \subseteq Domains /\ None \notin Domains
      /\ StrictTarget \in Domains
  BY SeenTypes, PolicyAssumption DEF TypeOK, WorldOK
<1>2. ASSUME NEW d \in Domains,
             NEW why \in {"partition", "refresh", "strict", "initial"},
             Placement(k) = Set(k, d, why), held[k].at = d => Mine(k)
      PROVE  \E o : Placement(k) = {o} /\ Sound(o, k)
  BY <1>2, SetIsSound DEF Set
<1>3. CASE Spread(k)
  <2>1. Placement(k) = Set(k, anchor, "partition")
    BY <1>3 DEF Placement, Nothing
  <2>2. anchor \in Domains /\ mode[k] # "Strict"
    BY <1>1, <1>3 DEF Spread, WorldOK
  <2>3. held[k].at = anchor => Mine(k)
    BY <1>1, <2>2 DEF Mine
  <2> QED
    BY <1>2, <2>1, <2>2, <2>3
<1>4. CASE ~ Spread(k) /\ RefreshRequired(k) /\ Seen(k) # None
  <2>1. Placement(k) = Set(k, Seen(k), "refresh")
    BY <1>4 DEF Placement
  <2>2. Mine(k)
    BY <1>4 DEF RefreshRequired
  <2> QED
    BY <1>1, <1>2, <1>4, <2>1, <2>2
<1>5. CASE /\ ~ Spread(k) /\ ~ (RefreshRequired(k) /\ Seen(k) # None)
           /\ mode[k] = "Strict"
  <2>1. /\ Placement(k) = Set(k, StrictTarget, "strict")
        /\ StrictTarget \in open /\ Seen(k) # StrictTarget
    BY <1>5 DEF Placement, Nothing
  <2>2. held[k].at = StrictTarget => Mine(k)
    BY <2>1 DEF Seen
  <2> QED
    BY <1>1, <1>2, <2>1, <2>2
<1>6. CASE /\ ~ Spread(k) /\ ~ (RefreshRequired(k) /\ Seen(k) # None)
           /\ mode[k] # "Strict" /\ Seen(k) = None
  <2>1. Placement(k) = Set(k, LeastLoaded(open), "initial") /\ open # {}
    BY <1>6 DEF Placement, Nothing
  <2>2. LeastLoaded(open) \in Domains
    BY <1>1, <2>1, LeastLoadedIsOne DEF TypeOK
  <2>3. held[k].at = LeastLoaded(open) => Mine(k)
    BY <1>1, <1>6, <2>2 DEF Mine
  <2> QED
    BY <1>2, <2>1, <2>2, <2>3
<1>7. CASE /\ ~ Spread(k) /\ ~ (RefreshRequired(k) /\ Seen(k) # None)
           /\ mode[k] # "Strict" /\ Seen(k) # None
  <2>1. Placement(k) = Better(k) /\ mode[k] # "Sticky"
    BY <1>7 DEF Placement, Nothing
  <2>2. mode[k] \in Modes
    BY PolicyAssumption DEF TypeOK
  <2>3. Adaptive(k)
    BY <1>7, <2>1, <2>2 DEF Adaptive, Modes
  <2> QED
    BY <2>1, <2>3, BetterIsSound
<1> QED
  BY <1>3, <1>4, <1>5, <1>6, <1>7

\* evaluate_process gives a process no order or a sound one.
LEMMA DecisionIsSound ==
    ASSUME TypeOK, WorldOK, NEW k \in Processes, Decision(k) # {}
    PROVE  \E o : Decision(k) = {o} /\ Sound(o, k)
<1>1. status[k] # "barred"
  BY DEF Decision, Nothing
<1>2. CASE mode[k] = "Off"
  <2> DEFINE o == [key |-> k, kind |-> "clear", target |-> None,
                   why |-> "off"]
  <2>1. Decision(k) = {o}
    BY <1>1, <1>2 DEF Decision, Nothing, Clear
  <2>2. Sound(o, k)
    BY DEF Sound, Orders
  <2> QED
    BY <2>1, <2>2
<1>3. CASE mode[k] # "Off"
  <2>1. /\ held[k].by = "outsider" => mode[k] = "Strict"
        /\ Entry(k).pending = "none"
        /\ Decision(k) = Placement(k)
    BY <1>1, <1>3 DEF Decision, Nothing
  <2> QED
    BY <1>1, <1>3, <2>1, PlacementIsSound
<1> QED
  BY <1>2, <1>3

-----------------------------------------------------------------------------
\* The steps of the controller thread

LEMMA InitHolds == Init => PolicyInv
<1> SUFFICES ASSUME Init PROVE PolicyInv
  OBVIOUS
<1> USE PolicyAssumption DEF Init
<1>1. TypeOK
  BY DEF TypeOK, Nowhere
<1>2. WorldOK
  BY DEF WorldOK, Nowhere
<1>3. OrdersOK /\ Answered /\ SightOK /\ MovesEarned
  BY DEF OrdersOK, Answered, SightOK, MovesEarned
<1>4. CountsOK
  BY DEF CountsOK, Mine, Nowhere
<1> QED
  BY <1>1, <1>2, <1>3, <1>4 DEF PolicyInv

\* At the start of an evaluation nothing is pending; ages and real times grow
\* together, and whoever has lost its assignment starts anew.
LEMMA ObserveHolds ==
    ASSUME PolicyInv, NEW gap \in 1 .. MaxGap, Observe(gap)
    PROVE  PolicyInv'
<1> USE DEF PolicyInv
<1>0. /\ pc = "idle" /\ pc' = "evaluate" /\ orders' = {} /\ orders = {}
      /\ UNCHANGED <<mode, open, anchor, loads, status>>
      /\ budget' = MaxMutations /\ gap \in Nat
      /\ todo' = {k \in Processes : Observed(k)'}
  <2>1. gap \in Nat
    BY PolicyAssumption
  <2>2. pc = "idle" /\ orders = {}
    BY DEF Observe, OrdersOK
  <2> QED
    BY <2>1, <2>2 DEF Observe, config, world
<1>1. PICK kept \in SUBSET {k \in Processes :
                                Mine(k) /\ status[k] = "barred"} :
          /\ spent' = spent + Cardinality(kept) /\ spent' <= MaxTroubles
          /\ held' = [k \in Processes |->
                         IF Mine(k) /\ status[k] = "barred" /\ k \notin kept
                         THEN Nowhere ELSE held[k]]
          /\ past' = [k \in Processes |->
                [past[k] EXCEPT
                    !.hot = IF held'[k].at = held[k].at THEN @ ELSE 0,
                    !.resident = IF held'[k].at = held[k].at
                                 THEN UpTo(Residency, @ + gap) ELSE 0,
                    !.rested = UpTo(Cooldown, @ + gap)]]
  BY DEF Observe
<1>2. engine' = [k \in Processes |->
          IF k \notin todo' \/ engine[k] = None THEN None
          ELSE [engine[k] EXCEPT !.since = UpTo(Residency, @ + gap),
                                 !.moved = UpTo(Cooldown, @ + gap)]]
  BY DEF Observe
<1>3. ASSUME NEW k \in Processes
      PROVE  /\ held[k] \in Holdings /\ past[k] \in Pasts
             /\ engine[k] \in States \cup {None}
  BY ProcessTypes
<1>4. ASSUME NEW k \in Processes
      PROVE  /\ held'[k] \in Holdings /\ past'[k] \in Pasts
             /\ held'[k] = held[k] \/ held'[k] = Nowhere
             /\ past'[k].rested = UpTo(Cooldown, past[k].rested + gap)
             /\ held'[k] = held[k] =>
                   /\ past'[k].hot = past[k].hot
                   /\ past'[k].resident =
                         UpTo(Residency, past[k].resident + gap)
  <2>1. held'[k] = held[k] \/ held'[k] = Nowhere
    BY <1>1
  <2>2. held'[k] \in Holdings
    BY <1>3, <2>1, ProcessTypes
  <2>3. past'[k] = [past[k] EXCEPT
                    !.hot = IF held'[k].at = held[k].at THEN @ ELSE 0,
                    !.resident = IF held'[k].at = held[k].at
                                 THEN UpTo(Residency, @ + gap) ELSE 0,
                    !.rested = UpTo(Cooldown, @ + gap)]
    BY <1>1
  <2>4. /\ past[k].rested + gap \in Nat /\ past[k].resident + gap \in Nat
        /\ Stability \in Nat /\ Residency \in Nat /\ Cooldown \in Nat
    BY <1>0, <1>3, ProcessTypes DEF Pasts
  <2>5. /\ UpTo(Cooldown, past[k].rested + gap) \in 0 .. Cooldown
        /\ UpTo(Residency, past[k].resident + gap) \in 0 .. Residency
    BY <2>4, UpToBounds
  <2>6. past'[k].rested = UpTo(Cooldown, past[k].rested + gap)
    BY <1>3, <2>3 DEF Pasts
  <2>8. past'[k] \in Pasts
    <3>1. /\ past'[k].hot \in 0 .. Stability
          /\ past'[k].resident \in 0 .. Residency
      BY <1>3, <2>3, <2>4, <2>5 DEF Pasts
    <3>2. past'[k] = [hot |-> past'[k].hot, resident |-> past'[k].resident,
                      rested |-> UpTo(Cooldown, past[k].rested + gap)]
      BY <1>3, <2>3 DEF Pasts
    <3> QED
      BY <2>5, <3>1, <3>2 DEF Pasts
  <2>7. held'[k] = held[k] =>
           /\ past'[k].hot = past[k].hot
           /\ past'[k].resident = UpTo(Residency, past[k].resident + gap)
    BY <1>3, <2>3 DEF Pasts
  <2> QED
    BY <2>1, <2>2, <2>6, <2>7, <2>8
<1>5. ASSUME NEW k \in Processes, engine'[k] # None
      PROVE  /\ k \in todo' /\ engine[k] # None /\ engine'[k] \in States
             /\ engine'[k].current = engine[k].current
             /\ engine'[k].streak = engine[k].streak
             /\ engine'[k].pending = engine[k].pending
             /\ engine'[k].since = UpTo(Residency, engine[k].since + gap)
             /\ engine'[k].moved = UpTo(Cooldown, engine[k].moved + gap)
  <2>1. /\ k \in todo' /\ engine[k] # None
        /\ engine'[k] = [engine[k] EXCEPT
                !.since = UpTo(Residency, @ + gap),
                !.moved = UpTo(Cooldown, @ + gap)]
    BY <1>2, <1>5
  <2>2. engine[k] \in States
    BY <1>3, <2>1
  <2>3. engine[k].moved + gap \in Nat /\ engine[k].since + gap \in Nat
    BY <1>0, <2>2, ProcessTypes DEF States
  <2>4. /\ UpTo(Cooldown, engine[k].moved + gap) \in 0 .. Cooldown
        /\ UpTo(Residency, engine[k].since + gap) \in 0 .. Residency
    BY <2>3, ProcessTypes, UpToBounds
  <2> QED
    BY <2>1, <2>2, <2>4 DEF States
<1>6. TypeOK'
  <2>1. held' \in [Processes -> Holdings]
    BY <1>1, <1>4
  <2>2. past' \in [Processes -> Pasts]
    BY <1>1, <1>4
  <2>3. engine' \in [Processes -> States \cup {None}]
    BY <1>2, <1>5
  <2>4. spent' \in 0 .. MaxTroubles
    <3>1. IsFiniteSet(kept)
      BY PolicyAssumption, FS_Subset
    <3>2. Cardinality(kept) \in Nat
      BY <3>1, FS_CardinalityType
    <3>3. spent \in Nat /\ MaxTroubles \in Nat
      BY ProcessTypes DEF TypeOK
    <3>4. spent' = spent + Cardinality(kept) /\ spent' <= MaxTroubles
      BY <1>1
    <3> QED
      BY <3>2, <3>3, <3>4
  <2>5. todo' \subseteq Processes /\ budget' \in 0 .. MaxMutations
    BY <1>0, ProcessTypes
  <2> QED
    BY <1>0, <2>1, <2>2, <2>3, <2>4, <2>5
       DEF TypeOK, Holdings, Pasts
<1>7. WorldOK'
  <2>1. ASSUME NEW k \in Processes
        PROVE  /\ held'[k].by = "nobody" => held'[k].at = None
               /\ held'[k].by = "service" => status'[k] # "gone"
    <3>1. CASE held'[k] = Nowhere
      BY <3>1 DEF Nowhere
    <3>2. CASE held'[k] = held[k]
      BY <1>0, <3>2 DEF WorldOK, Mine
    <3> QED
      BY <1>4, <3>1, <3>2
  <2> QED
    BY <1>0, <2>1 DEF WorldOK, Mine
<1>8. OrdersOK' /\ SightOK' /\ MovesEarned'
  BY <1>0 DEF OrdersOK, SightOK, MovesEarned, Observed
<1>9. Answered'
  BY <1>0, <1>5 DEF Answered
<1>10. CountsOK'
  <2> SUFFICES ASSUME NEW k \in Processes, Mine(k)'
               PROVE  IF engine'[k] = None THEN past'[k].rested = Cooldown
                      ELSE /\ engine'[k].moved <= past'[k].rested
                           /\ engine'[k].current = Seen(k)' =>
                                 /\ engine'[k].streak <= past'[k].hot
                                 /\ engine'[k].since <= past'[k].resident
    BY DEF CountsOK
  <2>1. held'[k] = held[k] /\ Mine(k)
    BY <1>4 DEF Mine, Nowhere
  <2>2. Seen(k)' = Seen(k)
    BY <1>0, <2>1 DEF Seen, Mine, Spread
  <2>3. CASE engine[k] = None
    <3>1. past[k].rested = Cooldown
      BY <2>1, <2>3 DEF CountsOK
    <3>2. past'[k].rested = Cooldown
      BY <1>0, <1>4, <3>1, PolicyAssumption DEF UpTo
    <3> QED
      BY <1>5, <2>3, <3>2
  <2>4. CASE engine[k] # None
    <3>1. /\ engine[k].moved <= past[k].rested
          /\ engine[k].current = Seen(k) =>
                /\ engine[k].streak <= past[k].hot
                /\ engine[k].since <= past[k].resident
      BY <2>1, <2>4 DEF CountsOK
    <3>2. engine[k] \in States
      BY <1>3, <2>4
    <3>3. CASE engine'[k] = None
      <4>1. k \notin todo'
        <5>1. k \in todo' => engine'[k] = [engine[k] EXCEPT
                !.since = UpTo(Residency, @ + gap),
                !.moved = UpTo(Cooldown, @ + gap)]
          BY <1>2, <2>4
        <5>2. [engine[k] EXCEPT !.since = UpTo(Residency, @ + gap),
                                !.moved = UpTo(Cooldown, @ + gap)] \in States
          <6>1. engine[k].moved + gap \in Nat /\ engine[k].since + gap \in Nat
            BY <1>0, <3>2, ProcessTypes DEF States
          <6>2. /\ UpTo(Cooldown, engine[k].moved + gap) \in 0 .. Cooldown
                /\ UpTo(Residency, engine[k].since + gap) \in 0 .. Residency
            BY <6>1, UpToBounds, ProcessTypes
          <6> QED
            BY <3>2, <6>2 DEF States
        <5> QED
          BY <3>3, <5>1, <5>2, NoneAssumption
      <4>2. status[k] = "gone"
        BY <1>0, <2>1, <4>1 DEF Observed, Mine
      <4> QED
        BY <2>1, <4>2 DEF WorldOK
    <3>4. CASE engine'[k] # None
      <4>1. /\ engine[k].moved + gap \in Nat /\ past[k].rested + gap \in Nat
            /\ engine[k].since + gap \in Nat /\ past[k].resident + gap \in Nat
            /\ engine[k].moved + gap <= past[k].rested + gap
            /\ engine[k].current = Seen(k) =>
                  engine[k].since + gap <= past[k].resident + gap
        BY <1>0, <1>3, <3>1, <3>2, ProcessTypes DEF States, Pasts
      <4>2. /\ UpTo(Cooldown, engine[k].moved + gap)
                  <= UpTo(Cooldown, past[k].rested + gap)
            /\ engine[k].current = Seen(k) =>
                  UpTo(Residency, engine[k].since + gap)
                      <= UpTo(Residency, past[k].resident + gap)
        BY <4>1, UpToBounds, ProcessTypes
      <4> QED
        BY <1>4, <1>5, <2>1, <2>2, <3>1, <3>4, <4>2
    <3> QED
      BY <3>3, <3>4
  <2> QED
    BY <2>3, <2>4
<1> QED
  BY <1>6, <1>7, <1>8, <1>9, <1>10

\* The entry an evaluation works with counts no more than really happened.
LEMMA EntryCounts ==
    ASSUME TypeOK, CountsOK, NEW k \in Processes, Mine(k)
    PROVE  /\ Entry(k).moved <= past[k].rested
           /\ Entry(k).streak <= past[k].hot
           /\ Entry(k).since <= past[k].resident
<1>1. /\ past[k] \in Pasts /\ Cooldown \in Nat
      /\ Seen(k) \in Domains \cup {None}
  BY ProcessTypes, SeenTypes
<1>2. 0 <= past[k].hot /\ 0 <= past[k].resident
  BY <1>1, ProcessTypes DEF Pasts
<1>3. CASE engine[k] = None
  <2>1. past[k].rested = Cooldown
    BY <1>3 DEF CountsOK
  <2>2. /\ Entry(k).since = 0 /\ Entry(k).streak = 0
        /\ Entry(k).moved = Cooldown
    BY <1>1, <1>3, EntryTypes, NewStateTypes
  <2> QED
    BY <1>1, <1>2, <2>1, <2>2
<1>4. CASE engine[k] # None
  <2>1. /\ engine[k].moved <= past[k].rested
        /\ engine[k].current = Seen(k) =>
              /\ engine[k].streak <= past[k].hot
              /\ engine[k].since <= past[k].resident
    BY <1>4 DEF CountsOK
  <2>2. Entry(k).moved = engine[k].moved
    BY <1>4, EntryTypes
  <2>3. CASE engine[k].current = Seen(k)
    BY <1>4, <2>1, <2>3, EntryTypes
  <2>4. CASE engine[k].current # Seen(k)
    BY <1>2, <1>4, <2>1, <2>2, <2>4, EntryTypes
  <2> QED
    BY <2>3, <2>4
<1> QED
  BY <1>3, <1>4

\* The streak an evaluation counts is a streak, and not more than the real one
\* of hot samples.
LEMMA StreakTypes ==
    ASSUME TypeOK, NEW k \in Processes
    PROVE  Streak(k) \in 0 .. Stability
<1>1. Entry(k).streak \in 0 .. Stability
  BY EntryTypes DEF States
<1>2. UpTo(Stability, Entry(k).streak + 1) \in 0 .. Stability
  <2>1. Entry(k).streak + 1 \in Nat /\ Stability \in Nat
    BY <1>1, ProcessTypes
  <2> QED
    BY <2>1, UpToBounds
<1>3. 0 \in 0 .. Stability
  BY ProcessTypes
<1> QED
  BY <1>1, <1>2, <1>3 DEF Streak

\* A process is evaluated: it gets no order, or one within the budget; the
\* streak the engine counts is the one that is real.
LEMMA DecideHolds ==
    ASSUME PolicyInv, NEW k \in Processes, Decide(k)
    PROVE  PolicyInv'
<1> USE DEF PolicyInv
<1> DEFINE given == IF WithinBudget(budget) THEN Decision(k) ELSE Nothing
           entry == [Entry(k) EXCEPT !.streak = Streak(k)]
           hot == IF ~ Adaptive(k) THEN past[k].hot
                  ELSE IF Hot(k) THEN UpTo(Stability, past[k].hot + 1) ELSE 0
<1>1. /\ pc = "evaluate" /\ k \in todo /\ todo' = todo \ {k}
      /\ UNCHANGED <<mode, open, anchor, loads, status, held, pc, spent>>
      /\ past' = [past EXCEPT ![k].hot = hot]
      /\ orders' = orders \cup given
      /\ budget' = budget - Cardinality(given)
  BY DEF Decide, config, world
<1>2. engine' = [engine EXCEPT ![k] =
                 IF given = Nothing THEN entry
                 ELSE LET o == CHOOSE o \in given : TRUE IN
                      [entry EXCEPT !.pending = o.kind, !.target = o.target]]
  BY DEF Decide
<1>3. /\ past \in [Processes -> Pasts]
      /\ engine \in [Processes -> States \cup {None}]
      /\ Stability \in Nat /\ budget \in 0 .. MaxMutations
      /\ MaxMutations \in Nat
  BY ProcessTypes DEF TypeOK
<1>4. \A o \in orders : o.key # k
  BY <1>1 DEF OrdersOK
<1>5. Entry(k) \in States /\ Entry(k).current = Seen(k)
  BY EntryTypes
<1>6. Entry(k).pending = "none"
  <2>1. CASE engine[k] = None
    BY <2>1, EntryTypes, NewStateTypes, SeenTypes
  <2>2. CASE engine[k] # None
    BY <1>4, <2>2, EntryTypes DEF Answered
  <2> QED
    BY <2>1, <2>2
<1>7. /\ entry \in States /\ entry.current = Seen(k)
      /\ entry.since = Entry(k).since /\ entry.moved = Entry(k).moved
      /\ entry.streak = Streak(k) /\ entry.pending = "none"
  BY <1>5, <1>6, StreakTypes DEF States
<1>8. given = {} \/ \E o : given = {o} /\ Sound(o, k) /\ budget > 0
  BY DecisionIsSound DEF Nothing, WithinBudget
<1>9. hot \in 0 .. Stability
  <2>1. past[k].hot \in 0 .. Stability
    BY <1>3 DEF Pasts
  <2>2. past[k].hot + 1 \in Nat
    BY <1>3, <2>1
  <2>3. UpTo(Stability, past[k].hot + 1) \in 0 .. Stability
    BY <1>3, <2>2, UpToBounds
  <2> QED
    BY <1>3, <2>1, <2>3
<1>10. Mine(k) => Streak(k) <= hot
  <2> SUFFICES ASSUME Mine(k) PROVE Streak(k) <= hot
    OBVIOUS
  <2>1. Entry(k).streak <= past[k].hot
    BY EntryCounts
  <2>2. /\ Entry(k).streak \in Nat /\ past[k].hot \in Nat
        /\ Entry(k).streak + 1 \in Nat /\ past[k].hot + 1 \in Nat
        /\ Entry(k).streak + 1 <= past[k].hot + 1
    BY <1>3, <1>5, <2>1 DEF States, Pasts
  <2>3. UpTo(Stability, Entry(k).streak + 1)
            <= UpTo(Stability, past[k].hot + 1)
    BY <1>3, <2>2, UpToBounds
  <2> QED
    BY <2>1, <2>3 DEF Streak
<1> DEFINE next == engine'[k]
<1>11. /\ next \in States /\ next.current = Seen(k)
       /\ next.since = Entry(k).since /\ next.moved = Entry(k).moved
       /\ next.streak = Streak(k)
       /\ given = {} => next.pending = "none"
       /\ \A o \in given : next.pending = o.kind /\ next.target = o.target
  <2>1. CASE given = {}
    <3>1. next = entry
      BY <1>2, <1>3, <2>1 DEF Nothing
    <3> QED
      BY <1>7, <2>1, <3>1
  <2>2. CASE given # {}
    <3>1. PICK o : given = {o} /\ Sound(o, k)
      BY <1>8, <2>2
    <3>2. (CHOOSE p \in given : TRUE) = o
      BY <3>1
    <3> HIDE DEF given, entry
    <3>3. next = [entry EXCEPT !.pending = o.kind, !.target = o.target]
      BY <1>2, <1>3, <2>2, <3>2 DEF Nothing
    <3>4. /\ o.kind \in {"set", "clear"} /\ o.target \in Domains \cup {None}
      BY <3>1 DEF Sound, Orders
    <3> QED
      BY <1>7, <2>2, <3>1, <3>3, <3>4 DEF States
  <2> QED
    BY <2>1, <2>2
<1>12. \A j \in Processes : j # k => engine'[j] = engine[j] /\ past'[j] = past[j]
  BY <1>1, <1>2, <1>3
<1>13. engine' \in [Processes -> States \cup {None}]
  BY <1>2, <1>3, <1>11
<1>14. /\ past'[k].hot = hot /\ past'[k].resident = past[k].resident
       /\ past'[k].rested = past[k].rested
       /\ past' \in [Processes -> Pasts]
  <2>1. past[k] \in Pasts
    BY <1>3
  <2>2. past'[k] = [past[k] EXCEPT !.hot = hot]
    BY <1>1, <1>3
  <2> HIDE DEF hot
  <2>3. past'[k] \in Pasts
    BY <1>9, <2>1, <2>2 DEF Pasts
  <2>4. past' \in [Processes -> Pasts]
    BY <1>1, <1>3, <2>2, <2>3
  <2> QED
    BY <2>1, <2>2, <2>4 DEF Pasts
<1>15. next # None
  BY <1>11, NoneAssumption
<1> HIDE DEF next, entry, hot
<1>16. \A j \in Processes : Seen(j)' = Seen(j) /\ Mine(j)' = Mine(j)
  BY <1>1 DEF Seen, Mine, Spread
<1>17. TypeOK'
  <2>1. orders' \subseteq Orders /\ budget' \in 0 .. MaxMutations
    <3>1. CASE given = {}
      <4>1. Cardinality(given) = 0
        BY <3>1, FS_EmptySet
      <4> QED
        BY <1>1, <1>3, <3>1, <4>1 DEF TypeOK
    <3>2. CASE given # {}
      <4>1. PICK o : given = {o} /\ Sound(o, k) /\ budget > 0
        BY <1>8, <3>2
      <4>2. Cardinality(given) = 1
        BY <4>1, FS_Singleton
      <4>3. orders' \subseteq Orders
        BY <1>1, <4>1 DEF TypeOK, Sound
      <4> HIDE DEF given
      <4>4. budget' \in 0 .. MaxMutations
        BY <1>1, <1>3, <4>1, <4>2
      <4> QED
        BY <4>3, <4>4
    <3> QED
      BY <3>1, <3>2
  <2> QED
    BY <1>1, <1>13, <1>14, <2>1 DEF TypeOK, Pasts
<1>18. WorldOK'
  BY <1>1, <1>16 DEF WorldOK
<1>19. \A o \in given : o.key = k
  BY <1>8 DEF Sound
<1>20. OrdersOK'
  <2> HIDE DEF given
  <2>1. \A o \in orders' : o.key \notin todo'
    BY <1>1, <1>19 DEF OrdersOK
  <2>2. \A o, p \in orders' : o.key = p.key => o = p
    BY <1>1, <1>4, <1>8, <1>19 DEF OrdersOK
  <2>3. ASSUME NEW o \in orders'
        PROVE  /\ engine'[o.key] # None /\ engine'[o.key].pending = o.kind
               /\ engine'[o.key].target = o.target
    <3>1. CASE o \in orders
      <4>1. o.key \in Processes /\ o.key # k
        BY <1>4, <3>1 DEF TypeOK, Orders
      <4> QED
        BY <1>12, <3>1, <4>1 DEF OrdersOK
    <3>2. CASE o \in given
      BY <1>11, <1>15, <1>19, <3>2 DEF next
    <3> QED
      BY <1>1, <3>1, <3>2
  <2> QED
    BY <1>1, <2>1, <2>2, <2>3 DEF OrdersOK
<1>21. Answered'
  <2> SUFFICES ASSUME NEW j \in Processes, engine'[j] # None
               PROVE  (engine'[j].pending # "none")
                          = (\E o \in orders' : o.key = j)
    BY DEF Answered
  <2> HIDE DEF given
  <2>1. CASE j # k
    BY <1>1, <1>12, <1>19, <2>1 DEF Answered
  <2>2. CASE j = k /\ given = {}
    BY <1>1, <1>4, <1>11, <2>2 DEF next
  <2>3. CASE j = k /\ given # {}
    <3>1. PICK o : given = {o} /\ Sound(o, k)
      BY <1>8, <2>3
    <3>2. o.key = k /\ o.kind # "none"
      BY <3>1 DEF Sound, Orders
    <3>3. o \in orders' /\ next.pending = o.kind
      BY <1>1, <1>11, <3>1
    <3> QED
      BY <2>3, <3>2, <3>3 DEF next
  <2> QED
    BY <2>1, <2>2, <2>3
<1>22. SightOK'
  <2> HIDE DEF given
  <2>1. ASSUME NEW o \in orders'
        PROVE  /\ status'[o.key] # "gone"
               /\ engine'[o.key].current = Seen(o.key)'
               /\ o.kind = "set" =>
                     /\ o.target \in Domains
                     /\ held'[o.key].at = o.target => Mine(o.key)'
               /\ o.kind = "clear" => o.target = None
    <3>1. CASE o \in orders
      <4>1. o.key \in Processes /\ o.key # k
        BY <1>4, <3>1 DEF TypeOK, Orders
      <4> QED
        BY <1>1, <1>12, <1>16, <3>1, <4>1 DEF SightOK
    <3>2. CASE o \in given
      <4>1. Sound(o, k) /\ o.key = k
        BY <1>8, <1>19, <3>2
      <4>2. status[k] # "gone"
        BY <1>1 DEF SightOK
      <4> QED
        BY <1>1, <1>11, <1>16, <4>1, <4>2 DEF Sound, next
    <3> QED
      BY <1>1, <3>1, <3>2
  <2> QED
    BY <1>1, <2>1 DEF SightOK
<1>23. CountsOK'
  <2> SUFFICES ASSUME NEW j \in Processes, Mine(j)
               PROVE  IF engine'[j] = None THEN past'[j].rested = Cooldown
                      ELSE /\ engine'[j].moved <= past'[j].rested
                           /\ engine'[j].current = Seen(j) =>
                                 /\ engine'[j].streak <= past'[j].hot
                                 /\ engine'[j].since <= past'[j].resident
    BY <1>16 DEF CountsOK
  <2>1. CASE j # k
    BY <1>12, <2>1 DEF CountsOK
  <2>2. CASE j = k
    BY <1>10, <1>11, <1>14, <1>15, <2>2, EntryCounts DEF next
  <2> QED
    BY <2>1, <2>2
<1>24. MovesEarned'
  <2> HIDE DEF given
  <2> SUFFICES ASSUME NEW o \in orders', o.why = "better"
               PROVE  /\ past'[o.key].hot >= Stability
                      /\ past'[o.key].resident >= Residency
                      /\ past'[o.key].rested >= Cooldown
    BY DEF MovesEarned
  <2>1. CASE o \in orders
    <3>1. o.key \in Processes /\ o.key # k
      BY <1>4, <2>1 DEF TypeOK, Orders
    <3> QED
      BY <1>12, <2>1, <3>1 DEF MovesEarned
  <2>2. CASE o \in given
    <3>1. Sound(o, k) /\ o.key = k
      BY <1>8, <1>19, <2>2
    <3>2. /\ Mine(k) /\ Streak(k) >= Stability
          /\ Entry(k).since >= Residency /\ Entry(k).moved >= Cooldown
      BY <3>1 DEF Sound
    <3>3. /\ Entry(k).moved <= past[k].rested
          /\ Entry(k).since <= past[k].resident
          /\ Streak(k) <= hot
      BY <1>10, <3>2, EntryCounts
    <3>4. /\ Entry(k).moved \in Nat /\ Entry(k).since \in Nat
          /\ Streak(k) \in Nat /\ hot \in Nat
          /\ past[k].rested \in Nat /\ past[k].resident \in Nat
          /\ Residency \in Nat /\ Cooldown \in Nat
      BY <1>3, <1>5, <1>9, StreakTypes, ProcessTypes DEF States, Pasts
    <3> QED
      BY <1>3, <1>14, <3>1, <3>2, <3>3, <3>4
  <2> QED
    BY <1>1, <2>1, <2>2
<1> QED
  BY <1>17, <1>18, <1>20, <1>21, <1>22, <1>23, <1>24

LEMMA EndEvaluationHolds ==
    ASSUME PolicyInv, EndEvaluation
    PROVE  PolicyInv'
<1> USE DEF PolicyInv
<1>1. /\ UNCHANGED <<mode, open, anchor, loads, status, held, engine, todo,
                     budget, orders, past, spent>>
      /\ pc' = IF orders = {} THEN "idle" ELSE "enforce"
      /\ todo = {}
  BY DEF EndEvaluation, config, world
<1>2. \A k \in Processes : Seen(k)' = Seen(k) /\ Mine(k)' = Mine(k)
  BY <1>1 DEF Seen, Mine, Spread
<1>3. \A o \in orders : o.key \in Processes
  BY DEF TypeOK, Orders
<1>4. TypeOK'
  BY <1>1 DEF TypeOK
<1>5. WorldOK'
  BY <1>1, <1>2 DEF WorldOK
<1>6. OrdersOK' /\ Answered'
  BY <1>1 DEF OrdersOK, Answered
<1>7. SightOK'
  BY <1>1, <1>2, <1>3 DEF SightOK
<1>8. CountsOK'
  BY <1>1, <1>2 DEF CountsOK
<1>9. MovesEarned'
  BY <1>1 DEF MovesEarned
<1> QED
  BY <1>4, <1>5, <1>6, <1>7, <1>8, <1>9

\* An answer to the order a process waits for ends what is pending; a success
\* leaves it where the order wanted it, with nothing counted yet.
LEMMA AcknowledgedTypes ==
    ASSUME NEW s \in States, NEW o \in Orders, NEW succeeded \in BOOLEAN,
           s.pending = o.kind, s.target = o.target
    PROVE  LET n == Acknowledged(s, o, succeeded) IN
           /\ n \in States /\ n.pending = "none"
           /\ ~ succeeded => /\ n.current = s.current /\ n.moved = s.moved
                             /\ n.streak = s.streak /\ n.since = s.since
           /\ succeeded => /\ n.since = 0 /\ n.streak = 0
                           /\ n.moved = IF s.current = o.target
                                        THEN s.moved ELSE 0
<1>1. o.target \in Domains \cup {None}
  BY DEF Orders
<1>2. CASE ~ succeeded
  <2>1. Acknowledged(s, o, succeeded)
            = [s EXCEPT !.pending = "none", !.target = None]
    BY <1>2 DEF Acknowledged
  <2> QED
    BY <1>2, <2>1 DEF States
<1>3. CASE succeeded
  <2> DEFINE fresh == NewState(o.target)
             moved == IF s.current = o.target THEN s.moved ELSE 0
  <2>1. Acknowledged(s, o, succeeded) = [fresh EXCEPT !.moved = moved]
    BY <1>3 DEF Acknowledged
  <2>2. fresh \in States /\ fresh.pending = "none"
        /\ fresh.since = 0 /\ fresh.streak = 0
    BY <1>1, NewStateTypes
  <2>3. moved \in 0 .. Cooldown
    BY PolicyAssumption DEF States
  <2> HIDE DEF fresh, moved
  <2>4. /\ [fresh EXCEPT !.moved = moved] \in States
        /\ [fresh EXCEPT !.moved = moved].pending = "none"
        /\ [fresh EXCEPT !.moved = moved].since = 0
        /\ [fresh EXCEPT !.moved = moved].streak = 0
        /\ [fresh EXCEPT !.moved = moved].moved = moved
    BY <2>2, <2>3 DEF States
  <2> QED
    BY <1>3, <2>1, <2>4 DEF moved
<1> QED
  BY <1>2, <1>3

\* What the end of an order does to the orders, the engine and the thread.
LEMMA FinishEffect ==
    ASSUME PolicyInv, NEW o \in orders, NEW succeeded \in BOOLEAN,
           Finish(o, succeeded), UNCHANGED <<todo, budget>>,
           pc = "enforce"
    PROVE  /\ o \in Orders /\ o.key \in Processes
           /\ engine[o.key] \in States /\ engine[o.key].target = o.target
           /\ engine[o.key].pending = o.kind
           /\ engine' \in [Processes -> States \cup {None}]
           /\ engine'[o.key] = Acknowledged(engine[o.key], o, succeeded)
           /\ \A k \in Processes : k # o.key => engine'[k] = engine[k]
           /\ \A p \in orders' : p \in orders /\ p.key # o.key
                                 /\ p.key \in Processes
           /\ pc' \in {"idle", "evaluate", "enforce"}
           /\ OrdersOK' /\ Answered'
<1> USE DEF PolicyInv
<1>1. /\ orders' = orders \ {o}
      /\ pc' = IF orders' = {} THEN "idle" ELSE "enforce"
      /\ engine' = [engine EXCEPT ![o.key] =
                        Acknowledged(engine[o.key], o, succeeded)]
  BY DEF Finish
<1>2. o \in Orders /\ o.key \in Processes
  BY DEF TypeOK, Orders
<1>3. engine \in [Processes -> States \cup {None}]
  BY ProcessTypes
<1>4. /\ engine[o.key] \in States /\ engine[o.key].target = o.target
      /\ engine[o.key].pending = o.kind
  BY <1>2, <1>3 DEF OrdersOK
<1>5. /\ Acknowledged(engine[o.key], o, succeeded) \in States
      /\ Acknowledged(engine[o.key], o, succeeded).pending = "none"
  BY <1>2, <1>4, AcknowledgedTypes
<1>6. /\ engine' \in [Processes -> States \cup {None}]
      /\ engine'[o.key] = Acknowledged(engine[o.key], o, succeeded)
      /\ \A k \in Processes : k # o.key => engine'[k] = engine[k]
  BY <1>1, <1>2, <1>3, <1>5
<1>7. \A p \in orders' : p \in orders /\ p.key # o.key /\ p.key \in Processes
  BY <1>1 DEF OrdersOK, TypeOK, Orders
<1>8. OrdersOK'
  BY <1>1, <1>6, <1>7 DEF OrdersOK
<1>9. Answered'
  <2> SUFFICES ASSUME NEW k \in Processes, engine'[k] # None
               PROVE  (engine'[k].pending # "none")
                          = (\E p \in orders' : p.key = k)
    BY DEF Answered
  <2>1. CASE k = o.key
    BY <1>5, <1>6, <1>7, <2>1
  <2>2. CASE k # o.key
    <3>1. (\E p \in orders' : p.key = k) = (\E p \in orders : p.key = k)
      BY <1>1, <2>2
    <3> QED
      BY <1>6, <2>2, <3>1 DEF Answered
  <2> QED
    BY <2>1, <2>2
<1> QED
  BY <1>1, <1>2, <1>4, <1>6, <1>7, <1>8, <1>9

\* A call that succeeds: the process is where the order wanted it. A refresh in
\* place leaves what really happened to it as it was, and the engine keeps its
\* cooldown; a move starts both anew.
LEMMA EnforceHolds ==
    ASSUME PolicyInv, NEW o \in orders, Enforce(o)
    PROVE  PolicyInv'
<1> USE DEF PolicyInv
<1> DEFINE h == IF o.kind = "clear" THEN Nowhere
                ELSE [by |-> "service", at |-> o.target, stale |-> FALSE]
           q == IF held[o.key].at = o.target THEN past[o.key]
                ELSE [hot |-> 0, resident |-> 0, rested |-> 0]
<1>1. /\ pc = "enforce" /\ Finish(o, TRUE)
      /\ UNCHANGED <<mode, open, anchor, loads, status, todo, budget, spent>>
      /\ held' = [held EXCEPT ![o.key] = h]
      /\ past' = [past EXCEPT ![o.key] = q]
  BY DEF Enforce, config, world
<1>2. /\ o \in Orders /\ o.key \in Processes
      /\ engine[o.key] \in States /\ engine[o.key].target = o.target
      /\ engine[o.key].pending = o.kind
      /\ engine' \in [Processes -> States \cup {None}]
      /\ engine'[o.key] = Acknowledged(engine[o.key], o, TRUE)
      /\ \A k \in Processes : k # o.key => engine'[k] = engine[k]
      /\ \A p \in orders' : p \in orders /\ p.key # o.key
                            /\ p.key \in Processes
      /\ pc' \in {"idle", "evaluate", "enforce"}
      /\ OrdersOK' /\ Answered'
  BY <1>1, FinishEffect
<1>3. /\ held \in [Processes -> Holdings] /\ past \in [Processes -> Pasts]
      /\ Nowhere \in Holdings
      /\ Stability \in Nat /\ Residency \in Nat /\ Cooldown \in Nat
  BY ProcessTypes
<1>4. /\ status[o.key] # "gone" /\ engine[o.key].current = Seen(o.key)
      /\ o.kind = "set" => /\ o.target \in Domains
                           /\ held[o.key].at = o.target => Mine(o.key)
      /\ o.kind = "clear" => o.target = None
  BY DEF SightOK
<1>5. o.kind \in {"set", "clear"}
  BY <1>2 DEF Orders
<1>6. /\ h \in Holdings
      /\ h.by = "service" => o.kind = "set" /\ h.at = o.target
      /\ h.by = "nobody" => h.at = None
  BY <1>3, <1>4, <1>5 DEF Holdings, Nowhere
<1>7. q \in Pasts
  <2>1. [hot |-> 0, resident |-> 0, rested |-> 0] \in Pasts
    BY <1>3 DEF Pasts
  <2> QED
    BY <1>2, <1>3, <2>1
<1>8. /\ held' \in [Processes -> Holdings] /\ held'[o.key] = h
      /\ past' \in [Processes -> Pasts] /\ past'[o.key] = q
      /\ \A k \in Processes : k # o.key =>
            held'[k] = held[k] /\ past'[k] = past[k]
  <2> HIDE DEF h, q
  <2> QED
    BY <1>1, <1>2, <1>3, <1>6, <1>7
<1>9. \A k \in Processes : k # o.key =>
          Seen(k)' = Seen(k) /\ Mine(k)' = Mine(k)
  BY <1>1, <1>8 DEF Seen, Mine, Spread
<1>10. TypeOK'
  <2>1. orders' \subseteq Orders
    BY <1>2 DEF TypeOK
  <2> QED
    BY <1>1, <1>2, <1>8, <2>1 DEF TypeOK, Holdings, Pasts
<1> HIDE DEF h
<1>11. WorldOK'
  <2>1. ASSUME NEW k \in Processes
        PROVE  /\ held'[k].by = "nobody" => held'[k].at = None
               /\ Mine(k)' => status'[k] # "gone"
    <3>1. CASE k = o.key
      BY <1>1, <1>4, <1>6, <1>8, <3>1
    <3>2. CASE k # o.key
      BY <1>1, <1>8, <1>9, <3>2 DEF WorldOK
    <3> QED
      BY <3>1, <3>2
  <2> QED
    BY <1>1, <2>1 DEF WorldOK
<1>12. SightOK'
  <2>1. ASSUME NEW p \in orders'
        PROVE  /\ status'[p.key] # "gone"
               /\ engine'[p.key].current = Seen(p.key)'
               /\ p.kind = "set" =>
                     /\ p.target \in Domains
                     /\ held'[p.key].at = p.target => Mine(p.key)'
               /\ p.kind = "clear" => p.target = None
    BY <1>1, <1>2, <1>8, <1>9 DEF SightOK
  <2>2. \A k \in todo' : status'[k] # "gone"
    BY <1>1 DEF SightOK
  <2> QED
    BY <2>1, <2>2 DEF SightOK
<1>13. CountsOK'
  <2> SUFFICES ASSUME NEW k \in Processes, Mine(k)'
               PROVE  IF engine'[k] = None THEN past'[k].rested = Cooldown
                      ELSE /\ engine'[k].moved <= past'[k].rested
                           /\ engine'[k].current = Seen(k)' =>
                                 /\ engine'[k].streak <= past'[k].hot
                                 /\ engine'[k].since <= past'[k].resident
    BY DEF CountsOK
  <2>1. CASE k # o.key
    BY <1>2, <1>8, <1>9, <2>1 DEF CountsOK
  <2>2. CASE k = o.key
    <3>1. o.kind = "set" /\ o.target \in Domains
      BY <1>4, <1>6, <1>8, <2>2 DEF Mine
    <3>2. /\ engine'[k] \in States /\ engine'[k] # None
          /\ engine'[k].since = 0 /\ engine'[k].streak = 0
          /\ engine'[k].moved = IF Seen(k) = o.target
                                THEN engine[k].moved ELSE 0
      <4> DEFINE a == Acknowledged(engine[o.key], o, TRUE)
      <4>1. /\ a \in States /\ a.since = 0 /\ a.streak = 0
            /\ a.moved = IF engine[o.key].current = o.target
                         THEN engine[o.key].moved ELSE 0
        BY <1>2, AcknowledgedTypes
      <4>2. engine'[k] = a
        BY <1>2, <2>2
      <4> HIDE DEF a
      <4> QED
        BY <1>4, <2>2, <4>1, <4>2, NoneAssumption
    <3>3. 0 <= past'[k].hot /\ 0 <= past'[k].resident /\ 0 <= past'[k].rested
      BY <1>3, <1>8 DEF Pasts
    <3>4. engine'[k].moved <= past'[k].rested
      <4>1. CASE Seen(k) = o.target
        <5>1. held[k].at = o.target
          BY <3>1, <4>1, SeenTypes, PolicyAssumption
        <5>2. Mine(k)
          BY <1>4, <2>2, <3>1, <5>1
        <5>3. engine[k] # None
          BY <2>2 DEF OrdersOK
        <5>4. engine[k].moved <= past[k].rested
          BY <5>2, <5>3 DEF CountsOK
        <5>5. past'[k] = past[k]
          BY <1>8, <2>2, <5>1
        <5> QED
          BY <3>2, <4>1, <5>4, <5>5
      <4>2. CASE Seen(k) # o.target
        BY <3>2, <3>3, <4>2
      <4> QED
        BY <4>1, <4>2
    <3> QED
      BY <3>2, <3>3, <3>4
  <2> QED
    BY <2>1, <2>2
<1>14. MovesEarned'
  BY <1>2, <1>8 DEF MovesEarned
<1> QED
  BY <1>2, <1>10, <1>11, <1>12, <1>13, <1>14

\* A call that fails leaves the process as it is and nothing pending.
LEMMA EnforceFailsHolds ==
    ASSUME PolicyInv, NEW o \in orders, EnforceFails(o)
    PROVE  PolicyInv'
<1> USE DEF PolicyInv
<1>1. /\ pc = "enforce" /\ Finish(o, FALSE)
      /\ UNCHANGED <<mode, open, anchor, loads, status, todo, budget, held,
                     past>>
      /\ spent < MaxTroubles /\ spent' = spent + 1
  BY DEF EnforceFails, config, world
<1>2. /\ o \in Orders /\ o.key \in Processes
      /\ engine[o.key] \in States /\ engine[o.key].target = o.target
      /\ engine[o.key].pending = o.kind
      /\ engine' \in [Processes -> States \cup {None}]
      /\ engine'[o.key] = Acknowledged(engine[o.key], o, FALSE)
      /\ \A k \in Processes : k # o.key => engine'[k] = engine[k]
      /\ \A p \in orders' : p \in orders /\ p.key # o.key
                            /\ p.key \in Processes
      /\ pc' \in {"idle", "evaluate", "enforce"}
      /\ OrdersOK' /\ Answered'
  BY <1>1, FinishEffect
<1>3. \A k \in Processes : Seen(k)' = Seen(k) /\ Mine(k)' = Mine(k)
  BY <1>1 DEF Seen, Mine, Spread
<1>4. TypeOK'
  <2>1. orders' \subseteq Orders
    BY <1>2 DEF TypeOK
  <2>2. spent' \in 0 .. MaxTroubles
    BY <1>1, ProcessTypes DEF TypeOK
  <2> QED
    BY <1>1, <1>2, <2>1, <2>2 DEF TypeOK
<1>5. WorldOK'
  BY <1>1, <1>3 DEF WorldOK
<1>6. SightOK'
  BY <1>1, <1>2, <1>3 DEF SightOK
<1>7. CountsOK'
  <2> SUFFICES ASSUME NEW k \in Processes, Mine(k)
               PROVE  IF engine'[k] = None THEN past[k].rested = Cooldown
                      ELSE /\ engine'[k].moved <= past[k].rested
                           /\ engine'[k].current = Seen(k) =>
                                 /\ engine'[k].streak <= past[k].hot
                                 /\ engine'[k].since <= past[k].resident
    BY <1>1, <1>3 DEF CountsOK
  <2>1. CASE k # o.key
    BY <1>2, <2>1 DEF CountsOK
  <2>2. CASE k = o.key
    <3>1. /\ engine'[k].current = engine[k].current
          /\ engine'[k].moved = engine[k].moved
          /\ engine'[k].streak = engine[k].streak
          /\ engine'[k].since = engine[k].since
          /\ engine'[k] # None /\ engine[k] # None
      <4> DEFINE a == Acknowledged(engine[o.key], o, FALSE)
             e == engine[o.key]
      <4>1. /\ a \in States /\ a.current = e.current /\ a.moved = e.moved
            /\ a.streak = e.streak /\ a.since = e.since
        BY <1>2, AcknowledgedTypes
      <4>2. engine'[k] = a /\ engine[k] = e /\ e \in States
        BY <1>2, <2>2
      <4> HIDE DEF a, e
      <4> QED
        BY <4>1, <4>2, NoneAssumption
    <3> QED
      BY <3>1 DEF CountsOK
  <2> QED
    BY <2>1, <2>2
<1>8. MovesEarned'
  BY <1>1, <1>2 DEF MovesEarned
<1> QED
  BY <1>2, <1>4, <1>5, <1>6, <1>7, <1>8

-----------------------------------------------------------------------------
\* The steps of the environment, between two evaluations

\* Nothing is pending while the thread is idle, and an idle step that leaves
\* the engine alone gives no order.
LEMMA IdleHolds ==
    ASSUME PolicyInv, Change
    PROVE  /\ pc = "idle" /\ orders = {} /\ todo = {}
           /\ spent' \in 0 .. MaxTroubles
           /\ pc' = pc /\ todo' = todo /\ budget' = budget /\ orders' = orders
           /\ \A k \in Processes :
                 engine[k] # None => engine[k].pending = "none"
<1> USE DEF PolicyInv
<1>1. /\ pc = "idle" /\ pc' = pc /\ todo' = todo /\ budget' = budget
      /\ orders' = orders /\ spent < MaxTroubles /\ spent' = spent + 1
  BY DEF Change, thread
<1>2. spent' \in 0 .. MaxTroubles
  BY <1>1, ProcessTypes DEF TypeOK
<1>3. orders = {} /\ todo = {}
  BY <1>1 DEF OrdersOK
<1>4. \A k \in Processes : engine[k] # None => engine[k].pending = "none"
  BY <1>3 DEF Answered
<1> QED
  BY <1>1, <1>2, <1>3, <1>4

\* A step between two evaluations keeps the invariant when the world stays
\* sound and, for what the service has assigned, the engine's counts do.
LEMMA BetweenEvaluations ==
    ASSUME PolicyInv, Change, TypeOK', WorldOK', CountsOK',
           \A k \in Processes : engine'[k] # None =>
               engine'[k] = engine[k]
    PROVE  PolicyInv'
<1> USE DEF PolicyInv
<1>1. /\ pc = "idle" /\ orders = {} /\ orders' = {} /\ pc' = pc
      /\ todo = {} /\ todo' = {}
      /\ \A k \in Processes : engine[k] # None => engine[k].pending = "none"
  BY IdleHolds
<1>2. OrdersOK' /\ SightOK' /\ MovesEarned'
  BY <1>1 DEF OrdersOK, SightOK, MovesEarned
<1>3. Answered'
  BY <1>1 DEF Answered
<1> QED
  BY <1>2, <1>3

LEMMA LoadsChangeHolds ==
    ASSUME PolicyInv, LoadsChange
    PROVE  PolicyInv'
<1> USE DEF PolicyInv
<1>1. /\ Change /\ loads' \in [Domains -> Loads]
      /\ UNCHANGED <<mode, open, anchor, status, held, engine, past>>
  BY DEF LoadsChange, config
<1>2. /\ spent' \in 0 .. MaxTroubles /\ pc' = pc /\ todo' = todo
      /\ budget' = budget /\ orders' = orders
  BY <1>1, IdleHolds
<1>3. \A k \in Processes : Seen(k)' = Seen(k) /\ Mine(k)' = Mine(k)
  BY <1>1 DEF Seen, Mine, Spread
<1>4. TypeOK'
  BY <1>1, <1>2 DEF TypeOK
<1>5. WorldOK' /\ CountsOK'
  BY <1>1, <1>3 DEF WorldOK, CountsOK
<1> QED
  BY <1>1, <1>4, <1>5, BetweenEvaluations

LEMMA ActivityChangesHolds ==
    ASSUME PolicyInv, NEW j \in Processes, ActivityChanges(j)
    PROVE  PolicyInv'
<1> USE DEF PolicyInv
<1>1. /\ Change
      /\ UNCHANGED <<mode, open, anchor, loads, held, engine, past>>
      /\ status[j] # "gone"
      /\ \E s \in {"busy", "idle", "barred"} :
            status' = [status EXCEPT ![j] = s]
  BY DEF ActivityChanges, config
<1>2. /\ spent' \in 0 .. MaxTroubles /\ pc' = pc /\ todo' = todo
      /\ budget' = budget /\ orders' = orders
  BY <1>1, IdleHolds
<1>3. \A k \in Processes : Seen(k)' = Seen(k) /\ Mine(k)' = Mine(k)
  BY <1>1 DEF Seen, Mine, Spread
<1>4. /\ status' \in [Processes -> {"busy", "idle", "barred", "gone"}]
      /\ \A k \in Processes : status'[k] = "gone" => status[k] = "gone"
  BY <1>1 DEF TypeOK
<1>5. TypeOK'
  BY <1>1, <1>2, <1>4 DEF TypeOK
<1>6. WorldOK' /\ CountsOK'
  BY <1>1, <1>3, <1>4 DEF WorldOK, CountsOK
<1> QED
  BY <1>1, <1>5, <1>6, BetweenEvaluations

LEMMA ExitHolds ==
    ASSUME PolicyInv, NEW j \in Processes, Exit(j)
    PROVE  PolicyInv'
<1> USE DEF PolicyInv
<1>1. /\ Change
      /\ UNCHANGED <<mode, open, anchor, loads, engine, past>>
      /\ status' = [status EXCEPT ![j] = "gone"]
      /\ held' = [held EXCEPT ![j] = Nowhere]
  BY DEF Exit, config
<1>2. /\ spent' \in 0 .. MaxTroubles /\ pc' = pc /\ todo' = todo
      /\ budget' = budget /\ orders' = orders
  BY <1>1, IdleHolds
<1>3. /\ held \in [Processes -> Holdings] /\ Nowhere \in Holdings
      /\ status \in [Processes -> {"busy", "idle", "barred", "gone"}]
  BY ProcessTypes DEF TypeOK
<1>4. /\ held' \in [Processes -> Holdings] /\ held'[j] = Nowhere
      /\ status' \in [Processes -> {"busy", "idle", "barred", "gone"}]
      /\ \A k \in Processes : k # j =>
            held'[k] = held[k] /\ status'[k] = status[k]
  BY <1>1, <1>3
<1>5. /\ ~ Mine(j)' /\ held'[j].at = None
      /\ \A k \in Processes : k # j =>
            Seen(k)' = Seen(k) /\ Mine(k)' = Mine(k)
  BY <1>1, <1>4 DEF Seen, Mine, Spread, Nowhere
<1>6. TypeOK'
  BY <1>1, <1>2, <1>4 DEF TypeOK, Holdings
<1>7. WorldOK'
  BY <1>1, <1>4, <1>5 DEF WorldOK
<1>8. CountsOK'
  BY <1>1, <1>4, <1>5 DEF CountsOK
<1> QED
  BY <1>1, <1>6, <1>7, <1>8, BetweenEvaluations

\* What an outsider assigns or takes back is not the service's any more.
LEMMA OutsiderAssignsHolds ==
    ASSUME PolicyInv, NEW j \in Processes, OutsiderAssigns(j)
    PROVE  PolicyInv'
<1> USE DEF PolicyInv
<1>1. /\ Change
      /\ UNCHANGED <<mode, open, anchor, loads, status, engine>>
      /\ past' = [past EXCEPT ![j] =
                      [past[j] EXCEPT !.hot = 0, !.resident = 0]]
  BY DEF OutsiderAssigns, config, world
<1>2. PICK h \in Holdings :
          /\ held' = [held EXCEPT ![j] = h] /\ h.by # "service"
          /\ h.by = "nobody" => h.at = None
  <2>1. ASSUME NEW d \in Domains \cup {None}
        PROVE  [by |-> "outsider", at |-> d, stale |-> FALSE] \in Holdings
    BY DEF Holdings
  <2>2. Nowhere \in Holdings
    BY ProcessTypes
  <2> QED
    BY <2>1, <2>2 DEF OutsiderAssigns, Nowhere
<1>3. /\ spent' \in 0 .. MaxTroubles /\ pc' = pc /\ todo' = todo
      /\ budget' = budget /\ orders' = orders
  BY <1>1, IdleHolds
<1>4. /\ held \in [Processes -> Holdings] /\ past \in [Processes -> Pasts]
      /\ Stability \in Nat /\ Residency \in Nat
  BY ProcessTypes
<1>5. [past[j] EXCEPT !.hot = 0, !.resident = 0] \in Pasts
  <2>1. past[j] \in Pasts /\ 0 \in 0 .. Stability /\ 0 \in 0 .. Residency
    BY <1>4
  <2> QED
    BY <2>1 DEF Pasts
<1>6. /\ held' \in [Processes -> Holdings] /\ held'[j] = h
      /\ past' \in [Processes -> Pasts]
      /\ \A k \in Processes : k # j =>
            held'[k] = held[k] /\ past'[k] = past[k]
  BY <1>1, <1>2, <1>4, <1>5
<1>7. /\ ~ Mine(j)'
      /\ \A k \in Processes : k # j =>
            Seen(k)' = Seen(k) /\ Mine(k)' = Mine(k)
  BY <1>1, <1>2, <1>6 DEF Seen, Mine, Spread
<1>8. TypeOK'
  BY <1>1, <1>3, <1>6 DEF TypeOK, Holdings, Pasts
<1>9. WorldOK'
  BY <1>1, <1>2, <1>6, <1>7 DEF WorldOK
<1>10. CountsOK'
  BY <1>1, <1>6, <1>7 DEF CountsOK
<1> QED
  BY <1>1, <1>8, <1>9, <1>10, BetweenEvaluations

\* A list that is not the planned one any more is where it was.
LEMMA WidthChangesHolds ==
    ASSUME PolicyInv, WidthChanges
    PROVE  PolicyInv'
<1> USE DEF PolicyInv
<1>1. /\ Change
      /\ UNCHANGED <<mode, open, loads, status, engine, past>>
      /\ anchor' \in open
      /\ held' = [k \in Processes |->
            IF Mine(k) /\ Spread(k) THEN [held[k] EXCEPT !.stale = TRUE]
            ELSE held[k]]
  BY DEF WidthChanges, world
<1>2. /\ spent' \in 0 .. MaxTroubles /\ pc' = pc /\ todo' = todo
      /\ budget' = budget /\ orders' = orders
  BY <1>1, IdleHolds
<1>3. held \in [Processes -> Holdings]
  BY ProcessTypes
<1>4. ASSUME NEW k \in Processes
      PROVE  /\ held'[k] \in Holdings
             /\ held'[k].by = held[k].by /\ held'[k].at = held[k].at
  BY <1>1, <1>3 DEF Holdings
<1>5. held' \in [Processes -> Holdings]
  BY <1>1, <1>4
<1>6. \A k \in Processes : Seen(k)' = Seen(k) /\ Mine(k)' = Mine(k)
  BY <1>1, <1>4 DEF Seen, Mine, Spread
<1>7. TypeOK'
  BY <1>1, <1>2, <1>5 DEF TypeOK, Holdings
<1>8. WorldOK' /\ CountsOK'
  BY <1>1, <1>4, <1>6 DEF WorldOK, CountsOK
<1> QED
  BY <1>1, <1>7, <1>8, BetweenEvaluations

\* A new engine knows of no move, and no cooldown is owed to it.
LEMMA RebuildHolds ==
    ASSUME PolicyInv, Rebuild
    PROVE  PolicyInv'
<1> USE DEF PolicyInv
<1>1. /\ Change /\ UNCHANGED <<loads, status>>
      /\ mode' \in Rules /\ open' \in Opens
      /\ anchor' \in IF open' = {} THEN {None} ELSE open'
      /\ engine' = [k \in Processes |-> None]
  BY DEF Rebuild, world
<1>2. PICK cleared, changed \in SUBSET {k \in Processes : Mine(k)} :
          /\ held' = [k \in Processes |->
                IF k \in cleared THEN Nowhere
                ELSE [held[k] EXCEPT !.stale = @ \/ k \in changed]]
          /\ past' = [k \in Processes |->
                [hot |-> IF k \in cleared THEN 0 ELSE past[k].hot,
                 resident |-> IF k \in cleared THEN 0 ELSE past[k].resident,
                 rested |-> Cooldown]]
  BY DEF Rebuild
<1>3. /\ spent' \in 0 .. MaxTroubles /\ pc' = pc /\ todo' = todo
      /\ budget' = budget /\ orders' = orders
  BY <1>1, IdleHolds
<1>4. /\ held \in [Processes -> Holdings] /\ past \in [Processes -> Pasts]
      /\ Nowhere \in Holdings
      /\ Stability \in Nat /\ Residency \in Nat /\ Cooldown \in Nat
  BY ProcessTypes
<1>5. ASSUME NEW k \in Processes
      PROVE  /\ held'[k] \in Holdings
             /\ held'[k] = Nowhere \/ /\ held'[k].by = held[k].by
                                      /\ held'[k].at = held[k].at
  <2>1. CASE k \in cleared
    BY <1>2, <1>4, <2>1
  <2>2. CASE k \notin cleared
    <3>1. /\ held'[k] = [held[k] EXCEPT !.stale =
                             held[k].stale \/ k \in changed]
          /\ held[k] \in Holdings
      BY <1>2, <1>4, <2>2
    <3> DEFINE b == held[k].stale \/ k \in changed
    <3>2. b \in BOOLEAN
      OBVIOUS
    <3> HIDE DEF b
    <3>3. [held[k] EXCEPT !.stale = b] \in Holdings
      BY <3>1, <3>2 DEF Holdings
    <3>4. [held[k] EXCEPT !.stale = b].by = held[k].by
          /\ [held[k] EXCEPT !.stale = b].at = held[k].at
      BY <3>1 DEF Holdings
    <3> QED
      BY <3>1, <3>3, <3>4 DEF b
  <2> QED
    BY <2>1, <2>2
<1>6. ASSUME NEW k \in Processes
      PROVE  past'[k] \in Pasts /\ past'[k].rested = Cooldown
  <2>1. past[k] \in Pasts
    BY <1>4
  <2>2. /\ past[k].hot \in 0 .. Stability
        /\ past[k].resident \in 0 .. Residency
        /\ 0 \in 0 .. Stability /\ 0 \in 0 .. Residency
        /\ Cooldown \in 0 .. Cooldown
    BY <1>4, <2>1 DEF Pasts
  <2> QED
    BY <1>2, <2>2 DEF Pasts
<1>7. held' \in [Processes -> Holdings] /\ past' \in [Processes -> Pasts]
  BY <1>2, <1>5, <1>6
<1>8. anchor' \in open' \cup {None} /\ (open' # {} => anchor' \in open')
  BY <1>1
<1>9. engine' \in [Processes -> States \cup {None}]
  BY <1>1
<1>10. TypeOK'
  BY <1>1, <1>3, <1>7, <1>8, <1>9 DEF TypeOK, Holdings, Pasts
<1>11. WorldOK'
  <2>1. ASSUME NEW k \in Processes
        PROVE  /\ held'[k].by = "nobody" => held'[k].at = None
               /\ held'[k].by = "service" => status'[k] # "gone"
    <3>1. CASE held'[k] = Nowhere
      BY <3>1 DEF Nowhere
    <3>2. CASE held'[k].by = held[k].by /\ held'[k].at = held[k].at
      BY <1>1, <3>2 DEF WorldOK, Mine
    <3> QED
      BY <1>5, <3>1, <3>2
  <2> QED
    BY <1>8, <2>1 DEF WorldOK, Mine
<1>12. CountsOK'
  BY <1>1, <1>6 DEF CountsOK
<1> QED
  BY <1>1, <1>10, <1>11, <1>12, BetweenEvaluations

-----------------------------------------------------------------------------
\* The theorems

\* Every step keeps the invariant.
LEMMA NextHolds == PolicyInv /\ [Next]_vars => PolicyInv'
<1> SUFFICES ASSUME PolicyInv, [Next]_vars PROVE PolicyInv'
  OBVIOUS
<1>1. CASE UNCHANGED vars
  <2>1. UNCHANGED <<mode, open, anchor, loads, status, held, engine, pc, todo,
                    budget, orders, past, spent>>
    BY <1>1 DEF vars, config, world, thread
  <2>2. \A k \in Processes : Seen(k)' = Seen(k) /\ Mine(k)' = Mine(k)
    BY <2>1 DEF Seen, Mine, Spread
  <2>3. \A o \in orders : o.key \in Processes
    BY DEF PolicyInv, TypeOK, Orders
  <2>4. TypeOK' /\ WorldOK'
    BY <2>1, <2>2 DEF PolicyInv, TypeOK, WorldOK
  <2>6. OrdersOK' /\ Answered' /\ MovesEarned'
    BY <2>1 DEF PolicyInv, OrdersOK, Answered, MovesEarned
  <2>5. SightOK' /\ CountsOK'
    BY <2>1, <2>2, <2>3 DEF PolicyInv, SightOK, CountsOK
  <2> QED
    BY <2>4, <2>5, <2>6 DEF PolicyInv
<1>2. CASE Controller
  BY <1>2, ObserveHolds, DecideHolds, EndEvaluationHolds, EnforceHolds,
     EnforceFailsHolds DEF Controller
<1>3. CASE Environment
  BY <1>3, LoadsChangeHolds, WidthChangesHolds, RebuildHolds,
     ActivityChangesHolds, ExitHolds, OutsiderAssignsHolds DEF Environment
<1> QED
  BY <1>1, <1>2, <1>3 DEF Next

\* The orders, what is pending and what is counted agree with the world.
THEOREM PolicyInvariant == Spec => []PolicyInv
<1> QED
  BY InitHolds, NextHolds, PTL DEF Spec

\* Types; with them the rate limit of evaluate: in one evaluation never more
\* orders than max_mutations_per_evaluation.
THEOREM PolicyTypes == Spec => []TypeOK
<1>1. PolicyInv => TypeOK
  BY DEF PolicyInv
<1> QED
  BY <1>1, PolicyInvariant, PTL

\* Every order gets its answer: no process is left pending, without decisions
\* for good, by an acknowledgement that does not match or never comes.
THEOREM NoneLeftPending == Spec => []Answered
<1>1. PolicyInv => Answered
  BY DEF PolicyInv
<1> QED
  BY <1>1, PolicyInvariant, PTL

\* A process moves to a better domain only after the hot samples in a row, the
\* residency and the cooldown that the settings promise, measured by what
\* really happened to it and not by what the engine remembers.
THEOREM MovesAreEarned == Spec => []MovesEarned
<1>1. PolicyInv => MovesEarned
  BY DEF PolicyInv
<1> QED
  BY <1>1, PolicyInvariant, PTL
=============================================================================
