-------------------------- MODULE InteractiveProofs --------------------------
(***************************************************************************)
(* What the trays of the users achieve, by way of the pipe and of the      *)
(* wake-up that its messages cause.                                        *)
(*                                                                         *)
(* Of InteractivePipe: TypeOK for every set of sessions, trays and         *)
(* processes, and InUseIsProtected for those under a clock that is not set *)
(* back, by the inductive invariant ToldOK. Of InteractiveWake: its types, *)
(* the bound of the command channel and what its signal is for, for any    *)
(* number of commands and messages.                                        *)
(***************************************************************************)
EXTENDS InteractivePipe, InteractiveWake, FiniteSetTheorems, FunctionTheorems,
        TLAPS


-----------------------------------------------------------------------------
\* Trays and processes have a session, and scenes are of processes.
LEMMA SessionTypes ==
    /\ \A t \in Trays : SessionOf[t] \in Sessions
    /\ \A p \in Processes : SessionOf[p] \in Sessions
    /\ \A s : \A scene \in Scene(s) : scene \in Activity
BY PipeAssumption DEF Sessions, Range, Scene

\* Every set of trays is finite.
LEMMA TraysFinite ==
    ASSUME NEW trays \in SUBSET Trays
    PROVE  IsFiniteSet(trays) /\ Cardinality(trays) \in Nat
<1>1. IsFiniteSet(Trays)
    BY PipeAssumption, FS_Interval DEF Trays
<1> QED BY <1>1, FS_Subset, FS_CardinalityType

\* Without the children rule nothing is lost: a protected set has what is seen
\* and the children of what is seen.
LEMMA ExpandedHas ==
    ASSUME NEW s \in Sessions, NEW seen \in SUBSET Processes,
           NEW p \in Processes, SessionOf[p] = s,
           p \in seen \/ ParentOf[p] \in seen
    PROVE  p \in Expanded[s][seen]
<1>1. ASSUME NEW set \in SUBSET Processes, seen \subseteq set, Closed(s, set)
      PROVE  p \in set
    BY <1>1 DEF Closed
<1> QED BY <1>1 DEF Expanded

\* A failing call uses up one of the admitted faults.
LEMMA FaultTypes ==
    ASSUME TypeOK, Fault
    PROVE  count' \in [faults : 0..MaxFaults, jumps : 0..MaxJumps]
BY PipeAssumption DEF TypeOK, Fault

\* One tray's publisher goes on, the others are left as they are.
LEMMA TrayUpdated ==
    ASSUME TypeOK, NEW t \in Trays, NEW publisher \in Publishing,
           tray' = [tray EXCEPT ![t] = publisher]
    PROVE  /\ tray' \in [Trays -> Publishing]
           /\ tray'[t] = publisher
           /\ \A u \in Trays \ {t} : tray'[u] = tray[u]
BY DEF TypeOK

\* What the map holds once a state is in it: at most MaxPublishers publishers,
\* the new one among them, and the others with the states they had.
LEMMA InsertedTypes ==
    ASSUME DOMAIN states \subseteq Trays,
           Cardinality(DOMAIN states) <= MaxPublishers,
           NEW from \in Trays, NEW content, NEW map \in Inserted(from, content)
    PROVE  /\ DOMAIN map \subseteq Trays
           /\ Cardinality(DOMAIN map) <= MaxPublishers
           /\ \A t \in DOMAIN map :
                 \/ t = from /\ map[t] = [content |-> content, age |-> 0]
                 \/ t \in DOMAIN states /\ map[t] = states[t]
<1> DEFINE K == {t \in DOMAIN states : states[t].age <= Keep}
<1>1. DOMAIN Kept = K /\ \A t \in K : Kept[t] = states[t]
    BY DEF Kept, Restrict
<1>2. K \subseteq DOMAIN states /\ K \subseteq Trays
    OBVIOUS
<1>3. /\ IsFiniteSet(K) /\ Cardinality(K) \in Nat
      /\ Cardinality(K) <= Cardinality(DOMAIN states)
      /\ Cardinality(DOMAIN states) \in Nat
    BY <1>2, TraysFinite, FS_Subset
<1>4. Cardinality(K) <= MaxPublishers
    BY <1>3, PipeAssumption
<1> HIDE DEF K
<1>5. CASE /\ from \in DOMAIN Kept \/ Cardinality(DOMAIN Kept) < MaxPublishers
           /\ map = With(Kept, from, content)
    <2>1. /\ DOMAIN map = K \cup {from}
          /\ \A t \in DOMAIN map :
                map[t] = IF t = from THEN [content |-> content, age |-> 0]
                         ELSE Kept[t]
        BY <1>1, <1>5 DEF With
    <2>2. Cardinality(K \cup {from}) <= MaxPublishers
        <3>1. CASE from \in K
            <4>1. K \cup {from} = K
                BY <3>1
            <4> QED BY <1>4, <4>1
        <3>2. CASE from \notin K
            <4>1. Cardinality(K \cup {from}) = Cardinality(K) + 1
                BY <1>3, <3>2, FS_AddElement
            <4> QED BY <1>1, <1>3, <1>5, <3>2, <4>1, PipeAssumption
        <3> QED BY <3>1, <3>2
    <2> QED BY <1>1, <1>2, <2>1, <2>2
<1>6. CASE \E old \in Oldest(Kept) :
              map = With(Restrict(Kept, DOMAIN Kept \ {old}), from, content)
    <2>1. PICK old \in Oldest(Kept) :
            map = With(Restrict(Kept, DOMAIN Kept \ {old}), from, content)
        BY <1>6
    <2>2. old \in K
        BY <1>1 DEF Oldest
    <2> DEFINE L == K \ {old}
    <2>3. /\ DOMAIN Restrict(Kept, DOMAIN Kept \ {old}) = L
          /\ \A t \in L : Restrict(Kept, DOMAIN Kept \ {old})[t] = Kept[t]
        BY <1>1 DEF Restrict
    <2>4. /\ DOMAIN map = L \cup {from}
          /\ \A t \in DOMAIN map :
                map[t] = IF t = from THEN [content |-> content, age |-> 0]
                         ELSE Kept[t]
        BY <2>1, <2>3 DEF With
    <2>5. /\ IsFiniteSet(L) /\ Cardinality(L) = Cardinality(K) - 1
        BY <1>3, <2>2, FS_RemoveElement
    <2>6. /\ Cardinality(L \cup {from}) = IF from \in L THEN Cardinality(L)
                                          ELSE Cardinality(L) + 1
        <3>1. CASE from \in L
            <4>1. L \cup {from} = L
                BY <3>1
            <4> QED BY <3>1, <4>1
        <3>2. CASE from \notin L
            BY <2>5, <3>2, FS_AddElement
        <3> QED BY <3>1, <3>2
    <2>7. Cardinality(L \cup {from}) <= MaxPublishers
        BY <1>3, <1>4, <2>5, <2>6, PipeAssumption
    <2> QED BY <1>1, <1>2, <2>4, <2>7
<1> QED BY <1>5, <1>6 DEF Inserted

-----------------------------------------------------------------------------
\* Nothing is published at first.
LEMMA InitPipe == Init => TypeOK /\ ToldOK
<1> SUFFICES ASSUME Init PROVE TypeOK /\ ToldOK
    OBVIOUS
<1>1. DOMAIN states = {}
    BY DEF Init
<1>2. Cardinality(DOMAIN states) <= MaxPublishers
    BY <1>1, FS_EmptySet, PipeAssumption
<1>3. active \in [Sessions -> Activity]
    <2>1. \A s \in Sessions : active[s] \in Activity
        BY SessionTypes DEF Init
    <2>2. active \in [Sessions -> Scenes]
        BY DEF Init
    <2> QED BY <2>1, <2>2
<1>4. since \in [Sessions -> 0..Stale + 1]
    BY PipeAssumption DEF Init
<1>5. Unpublished \in Publishing /\ Unpublished.pc = "off"
    BY DEF Unpublished, Publishing
<1>6. count \in [faults : 0..MaxFaults, jumps : 0..MaxJumps]
    BY PipeAssumption DEF Init
<1>7. TypeOK
    BY <1>1, <1>2, <1>3, <1>4, <1>5, <1>6 DEF Init, TypeOK
<1>8. ToldOK
    BY <1>1, <1>5 DEF Init, ToldOK
<1> QED BY <1>7, <1>8

\* What a switch of the user changes has not lasted.
LEMMA SwitchStep ==
    ASSUME TypeOK, NEW s \in Sessions, Switch(s)
    PROVE  TypeOK' /\ (ToldOK => ToldOK')
<1>1. PICK scene \in Scene(s) : active' = [active EXCEPT ![s] = scene]
    BY DEF Switch
<1>2. /\ since' = [since EXCEPT ![s] = 0]
      /\ UNCHANGED <<tray, pipe, worker, states, count>>
    BY DEF Switch
<1>3. scene \in Activity /\ 0 \in 0..Stale + 1
    BY SessionTypes, PipeAssumption
<1>4. /\ active' \in [Sessions -> Activity]
      /\ since' \in [Sessions -> 0..Stale + 1]
      /\ since'[s] = 0
      /\ \A r \in Sessions \ {s} : since'[r] = since[r] /\ active'[r] = active[r]
    BY <1>1, <1>2, <1>3 DEF TypeOK
<1>5. TypeOK'
    BY <1>2, <1>4 DEF TypeOK
<1>6. ASSUME NEW t \in Trays, NEW content, NEW age \in Int, age >= 0,
             Tells(t, content, age)
      PROVE  Tells(t, content, age)'
    BY <1>4, <1>6, SessionTypes DEF Tells, IsSo
<1>7. ASSUME ToldOK PROVE ToldOK'
    BY <1>2, <1>6, <1>7 DEF TypeOK, ToldOK
<1> QED BY <1>5, <1>7

\* Time passes for what is in use and for what was told of it alike; nothing
\* is held or in the pipe from one tick to the next.
LEMMA PassStep ==
    ASSUME TypeOK, Pass
    PROVE  TypeOK' /\ (ToldOK => ToldOK')
<1>1. /\ since' = [s \in Sessions |-> Longer(since[s])]
      /\ states' = [t \in DOMAIN states |->
                      [states[t] EXCEPT !.age = Older(@)]]
      /\ tray' = [t \in Trays |-> IF Up(t) THEN [tray[t] EXCEPT !.due = TRUE,
                                                               !.tried = FALSE]
                                  ELSE tray[t]]
      /\ UNCHANGED <<active, pipe, worker, count>> /\ pipe = None
      /\ \A t \in Trays : tray[t].pc # "holding"
    BY DEF Pass, Up
<1>2. since' \in [Sessions -> 0..Stale + 1]
    <2>1. Stale \in Nat
        BY PipeAssumption
    <2>2. \A n \in 0..Stale + 1 : Longer(n) \in 0..Stale + 1
        BY <2>1 DEF Longer
    <2> QED BY <1>1, <2>2 DEF TypeOK
<1>3. /\ tray' \in [Trays -> Publishing]
      /\ \A t \in Trays : tray'[t].pc # "holding"
    <2>1. ASSUME NEW t \in Trays
          PROVE  tray'[t] \in Publishing /\ tray'[t].pc # "holding"
        <3>1. tray[t] \in Publishing /\ tray[t].pc # "holding"
            BY <1>1 DEF TypeOK
        <3>2. \/ tray'[t] = tray[t]
              \/ tray'[t] = [tray[t] EXCEPT !.due = TRUE, !.tried = FALSE]
            BY <1>1
        <3> QED BY <3>1, <3>2 DEF Publishing
    <2>2. DOMAIN tray' = Trays /\ tray' = [t \in Trays |-> tray'[t]]
        BY <1>1
    <2> QED BY <2>1, <2>2
<1>4. DOMAIN states' = DOMAIN states
    BY <1>1
<1>5. \A t \in DOMAIN states :
        /\ states'[t].content = states[t].content
        /\ states'[t].age = Older(states[t].age)
    BY <1>1 DEF TypeOK
<1>6. \A a \in Int : a <= Old =>
        /\ Older(a) \in Int /\ Older(a) <= Old
        /\ a >= 0 => Older(a) >= 0
    BY PipeAssumption DEF Older, Old
<1>7. TypeOK'
    BY <1>1, <1>2, <1>3, <1>4, <1>5, <1>6 DEF TypeOK
<1>8. ASSUME NEW t \in DOMAIN states, states[t].age >= 0,
             Tells(t, states[t].content, states[t].age)
      PROVE  Tells(t, states[t].content, states[t].age)'
    <2> DEFINE lasted == since[SessionOf[t]]
               age == states[t].age
               content == states[t].content
    <2>1. /\ SessionOf[t] \in Sessions /\ age \in Int /\ age <= Old
        BY SessionTypes DEF TypeOK
    <2>2. lasted \in 0..Stale + 1
        BY <2>1 DEF TypeOK
    <2>3. Longer(lasted) > Older(age) => lasted > age
        <3>1. Stale \in Nat /\ Keep \in Nat /\ Stale < Keep
            BY PipeAssumption
        <3> HIDE DEF lasted, age
        <3> QED BY <2>1, <2>2, <3>1 DEF Longer, Older, Old
    <2>4. /\ since'[SessionOf[t]] = Longer(lasted)
          /\ states'[t].age = Older(age) /\ states'[t].content = content
          /\ active' = active
        BY <1>1, <1>5, <2>1
    <2>5. lasted > age => IsSo(content, SessionOf[t])
        BY <1>8 DEF Tells
    <2>7. IsSo(content, SessionOf[t]) => IsSo(content, SessionOf[t])'
        BY <2>4 DEF IsSo
    <2> HIDE DEF lasted, age
    <2>6. since'[SessionOf[t]] > states'[t].age
            => IsSo(content, SessionOf[t])'
        BY <2>3, <2>4, <2>5, <2>7
    <2> QED BY <2>4, <2>6 DEF Tells
<1>9. ASSUME ToldOK PROVE ToldOK'
    <2>1. \A t \in DOMAIN states :
            states'[t].age >= 0 /\ Tells(t, states[t].content, states[t].age)'
        <3> SUFFICES ASSUME NEW t \in DOMAIN states
                     PROVE  /\ states'[t].age >= 0
                            /\ Tells(t, states[t].content, states[t].age)'
            OBVIOUS
        <3>1. /\ states[t].age \in Int /\ states[t].age <= Old
              /\ states[t].age >= 0
              /\ Tells(t, states[t].content, states[t].age)
            BY <1>9 DEF ToldOK, TypeOK
        <3>2. states'[t].age >= 0
            BY <1>5, <1>6, <3>1
        <3> QED BY <1>8, <3>1, <3>2
    <2> QED BY <1>1, <1>3, <1>4, <2>1 DEF ToldOK
<1> QED BY <1>7, <1>9

\* A clock that is set forward makes what was told older.
LEMMA JumpStep ==
    ASSUME TypeOK, Jump
    PROVE  TypeOK' /\ (ToldOK /\ Jumps \subseteq Nat => ToldOK')
<1>1. /\ count.jumps < MaxJumps
      /\ count' = [count EXCEPT !.jumps = @ + 1]
      /\ UNCHANGED <<active, since, tray, pipe, worker>>
    BY DEF Jump
<1>2. PICK n \in Jumps :
        states' = [t \in DOMAIN states |->
            [states[t] EXCEPT !.age = IF @ + n < Old THEN @ + n ELSE Old]]
    BY DEF Jump
<1> DEFINE Aged(a) == IF a + n < Old THEN a + n ELSE Old
<1>3. DOMAIN states' = DOMAIN states
    BY <1>2
<1>4. \A t \in DOMAIN states :
        /\ states'[t].content = states[t].content
        /\ states'[t].age = Aged(states[t].age)
    BY <1>2 DEF TypeOK
<1>5. \A a \in Int : /\ Aged(a) \in Int /\ Aged(a) <= Old
                     /\ n \in Nat /\ a <= Old => Aged(a) >= a
    BY PipeAssumption DEF Old
<1> HIDE DEF Aged
<1>6. count' \in [faults : 0..MaxFaults, jumps : 0..MaxJumps]
    BY <1>1, PipeAssumption DEF TypeOK
<1>7. TypeOK'
    <2>1. ASSUME NEW t \in DOMAIN states
          PROVE  /\ states'[t] \in [content : Contents, age : Int]
                 /\ states'[t].age <= Old
        <3>1. /\ states[t] \in [content : Contents, age : Int]
              /\ Aged(states[t].age) \in Int /\ Aged(states[t].age) <= Old
            BY <1>5 DEF TypeOK
        <3>2. states'[t] = [states[t] EXCEPT !.age = Aged(states[t].age)]
            BY <1>2 DEF Aged
        <3> QED BY <3>1, <3>2
    <2> QED BY <1>1, <1>3, <1>6, <2>1 DEF TypeOK
<1>8. ASSUME ToldOK, Jumps \subseteq Nat PROVE ToldOK'
    <2>1. ASSUME NEW t \in DOMAIN states
          PROVE  /\ states'[t].age >= 0
                 /\ Tells(t, states[t].content, states[t].age)'
        <3>1. /\ states[t].age \in Int /\ states[t].age >= 0
              /\ states[t].age <= Old /\ SessionOf[t] \in Sessions
            BY <1>8, SessionTypes DEF TypeOK, ToldOK
        <3>2. /\ states'[t].age \in Int /\ states'[t].age >= states[t].age
            BY <1>4, <1>5, <1>8, <3>1
        <3>3. since[SessionOf[t]] \in Int
            BY <3>1 DEF TypeOK
        <3>4. Tells(t, states[t].content, states[t].age)
            BY <1>8 DEF ToldOK
        <3> QED BY <1>1, <1>4, <3>1, <3>2, <3>3, <3>4 DEF Tells, IsSo
    <2> QED BY <1>1, <1>3, <1>8, <2>1 DEF ToldOK, Tells, IsSo
<1> QED BY <1>7, <1>8

\* A tray that starts or ends holds nothing.
LEMMA TrayStep ==
    ASSUME TypeOK, NEW t \in Trays, Launch(t) \/ Quit(t)
    PROVE  TypeOK' /\ (ToldOK => ToldOK')
<1>1. UNCHANGED <<active, since, pipe, worker, states, count>>
    BY DEF Launch, Quit
<1>2. /\ tray' \in [Trays -> Publishing]
      /\ tray'[t].pc # "holding"
      /\ \A u \in Trays \ {t} : tray'[u] = tray[u]
    <2>1. tray[t] \in Publishing /\ tray \in [Trays -> Publishing]
        BY DEF TypeOK
    <2> DEFINE ready == [tray[t] EXCEPT !.pc = "idle"]
               left == [Unpublished EXCEPT !.pc = "gone"]
    <2>2. ready \in Publishing /\ ready.pc # "holding"
        BY <2>1 DEF Publishing
    <2>3. left \in Publishing /\ left.pc # "holding"
        BY DEF Unpublished, Publishing
    <2>4. tray' = [tray EXCEPT ![t] = ready] \/ tray' = [tray EXCEPT ![t] = left]
        BY <2>1 DEF Launch, Quit
    <2> HIDE DEF ready, left
    <2> QED BY <2>2, <2>3, <2>4, TrayUpdated
<1>3. TypeOK'
    BY <1>1, <1>2 DEF TypeOK
<1>4. ASSUME ToldOK PROVE ToldOK'
    BY <1>1, <1>2, <1>4 DEF ToldOK, Tells, IsSo
<1> QED BY <1>3, <1>4

\* A capture is of what is in use now.
LEMMA CaptureStep ==
    ASSUME TypeOK, NEW t \in Trays, Capture(t)
    PROVE  TypeOK' /\ (ToldOK => ToldOK')
<1>1. UNCHANGED <<active, since, pipe, worker, states>>
    BY DEF Capture
<1>2. PICK content \in Captures(SessionOf[t]) :
        /\ UNCHANGED count \/ Fault
        /\ tray' = [tray EXCEPT ![t] = IF Worthwhile(t, content)
                THEN [@ EXCEPT !.pc = "holding", !.held = content]
                ELSE [@ EXCEPT !.tried = TRUE]]
    BY DEF Capture
<1>3. /\ content \in Contents
      /\ IsSo(content, SessionOf[t])
    <2> DEFINE now == active[SessionOf[t]]
    <2>1. now \in Activity
        BY SessionTypes DEF TypeOK
    <2>2. PICK ok \in SUBSET {"window", "audio"} :
            content = [ok |-> ok,
                       seen |-> [use \in Uses |-> IF Probe(use) \in ok
                                                 THEN now[use] ELSE {}]]
        BY DEF Captures
    <2> HIDE DEF now
    <2>3. /\ content.seen \in Activity /\ content.ok = ok
          /\ \A use \in Uses :
                Probe(use) \in ok => content.seen[use] = now[use]
        BY <2>1, <2>2 DEF Activity
    <2> QED BY <2>2, <2>3 DEF Contents, IsSo, now
<1>4. tray[t].pc # "holding"
    BY DEF Capture
<1>5. /\ tray' \in [Trays -> Publishing]
      /\ tray'[t].pc = "holding" => tray'[t].held = content
      /\ \A u \in Trays \ {t} : tray'[u] = tray[u]
    <2>1. tray[t] \in Publishing
        BY DEF TypeOK
    <2> DEFINE full == [tray[t] EXCEPT !.pc = "holding", !.held = content]
               same == [tray[t] EXCEPT !.tried = TRUE]
    <2>2. full \in Publishing /\ full.held = content
        BY <1>3, <2>1 DEF Publishing
    <2>3. same \in Publishing /\ same.pc # "holding"
        BY <1>4, <2>1 DEF Publishing
    <2>4. tray' = [tray EXCEPT ![t] = full] \/ tray' = [tray EXCEPT ![t] = same]
        BY <1>2
    <2> HIDE DEF full, same
    <2> QED BY <2>2, <2>3, <2>4, TrayUpdated
<1>6. count' \in [faults : 0..MaxFaults, jumps : 0..MaxJumps]
    BY <1>2, FaultTypes DEF TypeOK
<1>7. TypeOK'
    BY <1>1, <1>3, <1>5, <1>6 DEF TypeOK
<1>8. ASSUME ToldOK PROVE ToldOK'
    BY <1>1, <1>3, <1>5, <1>8 DEF ToldOK, Tells, IsSo
<1> QED BY <1>7, <1>8

\* A message carries what the tray held.
LEMMA SendStep ==
    ASSUME TypeOK, NEW t \in Trays, Send(t)
    PROVE  TypeOK' /\ (ToldOK => ToldOK')
<1>1. /\ UNCHANGED <<active, since, worker, states, count>>
      /\ tray[t].pc = "holding"
    BY DEF Send
<1>2. tray[t].held \in Contents
    BY <1>1 DEF TypeOK
<1>3. pipe' = pipe \/ pipe' = [from |-> t, content |-> tray[t].held]
    BY DEF Send
<1> DEFINE ended == worker = "ended"
           held == tray[t].held
<1>4. ended \in BOOLEAN /\ held \in Contents
    BY <1>2
<1>5. \/ tray' = [tray EXCEPT ![t] = [@ EXCEPT !.pc = "idle", !.held = None,
                            !.last = held, !.due = FALSE, !.tried = TRUE]]
      \/ tray' = [tray EXCEPT ![t] = [@ EXCEPT !.pc = "idle", !.held = None,
                            !.tried = ended]]
    BY DEF Send
<1> HIDE DEF ended, held
<1>6. /\ tray' \in [Trays -> Publishing]
      /\ tray'[t].pc = "idle"
      /\ \A u \in Trays \ {t} : tray'[u] = tray[u]
    <2>1. tray[t] \in Publishing
        BY DEF TypeOK
    <2> DEFINE sent == [tray[t] EXCEPT !.pc = "idle", !.held = None,
                            !.last = held, !.due = FALSE, !.tried = TRUE]
               lost == [tray[t] EXCEPT !.pc = "idle", !.held = None,
                            !.tried = ended]
    <2>2. sent \in Publishing /\ sent.pc = "idle"
        BY <1>4, <2>1 DEF Publishing
    <2>3. lost \in Publishing /\ lost.pc = "idle"
        BY <1>4, <2>1 DEF Publishing
    <2>4. tray' = [tray EXCEPT ![t] = sent] \/ tray' = [tray EXCEPT ![t] = lost]
        BY <1>5
    <2> HIDE DEF sent, lost
    <2> QED BY <2>2, <2>3, <2>4, TrayUpdated
<1>7. TypeOK'
    <2>1. pipe' = None \/ pipe' \in [from : Trays, content : Contents]
        BY <1>2, <1>3 DEF TypeOK
    <2> QED BY <1>1, <1>6, <2>1 DEF TypeOK
<1>8. ASSUME ToldOK PROVE ToldOK'
    <2>1. pipe' # None => Tells(pipe'.from, pipe'.content, 0)
        BY <1>1, <1>3, <1>8 DEF ToldOK
    <2>2. \A u \in Trays : tray'[u].pc = "holding" => Tells(u, tray'[u].held, 0)
        BY <1>6, <1>8 DEF ToldOK
    <2> QED BY <1>1, <1>8, <2>1, <2>2 DEF ToldOK, Tells, IsSo
<1> QED BY <1>7, <1>8

\* A state that is kept has the age of its message: none.
LEMMA ReceiveStep ==
    ASSUME TypeOK, Receive
    PROVE  TypeOK' /\ (ToldOK => ToldOK')
<1>1. /\ pipe # None /\ pipe' = None
      /\ UNCHANGED <<active, since, tray, worker>>
      /\ UNCHANGED count \/ Fault
    BY DEF Receive
<1>2. pipe.from \in Trays /\ pipe.content \in Contents
    BY <1>1 DEF TypeOK
<1>3. count' \in [faults : 0..MaxFaults, jumps : 0..MaxJumps]
    BY <1>1, FaultTypes DEF TypeOK
<1>4. /\ DOMAIN states' \subseteq Trays
      /\ Cardinality(DOMAIN states') <= MaxPublishers
      /\ \A t \in DOMAIN states' :
            \/ /\ t = pipe.from
               /\ states'[t] = [content |-> pipe.content, age |-> 0]
            \/ t \in DOMAIN states /\ states'[t] = states[t]
    <2>1. CASE states' \in Inserted(pipe.from, pipe.content)
        BY <1>2, <2>1, InsertedTypes DEF TypeOK
    <2>2. CASE states' = states
        BY <2>2 DEF TypeOK
    <2> QED BY <2>1, <2>2 DEF Receive
<1>5. 0 <= Old /\ 0 \in Int
    BY PipeAssumption DEF Old
<1>6. TypeOK'
    BY <1>1, <1>2, <1>3, <1>4, <1>5 DEF TypeOK
<1>7. ASSUME ToldOK PROVE ToldOK'
    <2>1. \A t \in DOMAIN states' :
            states'[t].age >= 0 /\ Tells(t, states'[t].content, states'[t].age)
        BY <1>1, <1>4, <1>7 DEF ToldOK
    <2> QED BY <1>1, <1>7, <2>1 DEF ToldOK, Tells, IsSo
<1> QED BY <1>6, <1>7

\* A worker that ends, or a service that starts again, forgets.
LEMMA WorkerStep ==
    ASSUME TypeOK, WorkerEnds \/ Restart
    PROVE  TypeOK' /\ (ToldOK => ToldOK')
<1>1. /\ UNCHANGED <<active, since, tray>> /\ Fault
      /\ worker' \in {"listening", "ended"}
    BY DEF WorkerEnds, Restart
<1>2. count' \in [faults : 0..MaxFaults, jumps : 0..MaxJumps]
    BY <1>1, FaultTypes
<1>3. CASE WorkerEnds
    <2>1. UNCHANGED <<pipe, states>>
        BY <1>3 DEF WorkerEnds
    <2> QED BY <1>1, <1>2, <2>1 DEF TypeOK, ToldOK, Tells, IsSo
<1>4. CASE Restart
    <2>1. pipe' = None /\ DOMAIN states' = {}
        BY <1>4 DEF Restart
    <2>2. Cardinality(DOMAIN states') <= MaxPublishers
        BY <2>1, FS_EmptySet, PipeAssumption
    <2>3. TypeOK'
        BY <1>1, <1>2, <2>1, <2>2 DEF TypeOK
    <2>4. ASSUME ToldOK PROVE ToldOK'
        BY <1>1, <2>1, <2>4 DEF ToldOK, Tells, IsSo
    <2> QED BY <2>3, <2>4
<1> QED BY <1>3, <1>4

\* Every step preserves the types and, unless the clock is set back, what was
\* told.
LEMMA PipeStep ==
    TypeOK /\ [Next]_vars
        => TypeOK' /\ (ToldOK /\ Jumps \subseteq Nat => ToldOK')
<1>1. TypeOK /\ UNCHANGED vars => TypeOK' /\ (ToldOK => ToldOK')
    BY DEF vars, TypeOK, ToldOK, Tells, IsSo
<1>2. TypeOK /\ Next => TypeOK' /\ (ToldOK /\ Jumps \subseteq Nat => ToldOK')
    BY SwitchStep, PassStep, JumpStep, TrayStep, CaptureStep, SendStep,
       ReceiveStep, WorkerStep DEF Next, Capturing
<1> QED BY <1>1, <1>2

\* Every variable keeps its type, and the service never keeps the states of
\* more than MaxPublishers trays, however many there are.
THEOREM PipeTypes == Spec => []TypeOK
<1>1. Init => TypeOK
    BY InitPipe
<1>2. TypeOK /\ [Next]_vars => TypeOK'
    BY PipeStep
<1> QED BY <1>1, <1>2, PTL DEF Spec

-----------------------------------------------------------------------------
\* A state that is fresh tells what has been in use for longer than it may be
\* old.
LEMMA FreshTells ==
    ASSUME TypeOK, ToldOK, NEW s \in Sessions, since[s] > Stale,
           NEW t \in Publishers(s)
    PROVE  IsSo(states[t].content, s)
<1>1. /\ t \in DOMAIN states /\ SessionOf[t] = s
      /\ states[t].age <= Stale /\ states[t].age \in Int
    BY DEF Publishers, Fresh, TypeOK
<1>2. since[s] \in Int /\ Stale \in Int
    BY PipeAssumption DEF TypeOK
<1>3. since[s] > states[t].age
    BY <1>1, <1>2
<1> QED BY <1>1, <1>3 DEF ToldOK, Tells

\* What is in use is protected where the sessions' states tell of it.
LEMMA ToldProtects == TypeOK /\ ToldOK => InUseIsProtected
<1> SUFFICES ASSUME TypeOK, ToldOK, NEW p \in Processes, NEW q \in Processes,
                    SessionOf[p] = SessionOf[q], ImageOf[p] = ImageOf[q],
                    InUse(q), since[SessionOf[p]] > Stale,
                    NEW t \in Publishers(SessionOf[p]),
                    \A use \in Protects : \A u \in Publishers(SessionOf[p]) :
                        Probe(use) \in states[u].content.ok
             PROVE  \E use \in Protects :
                        Cohort(p) \cap
                            Expanded[SessionOf[p]][Seen(SessionOf[p], use)] # {}
    BY DEF InUseIsProtected, Protected
<1> DEFINE s == SessionOf[p]
<1>1. s \in Sessions
    BY SessionTypes
<1>2. PICK use \in Protects :
        \E r \in active[s][use] : q = r \/ ParentOf[q] = r
    BY DEF InUse
<1>3. use \in Uses
    BY PipeAssumption
<1>4. \A u \in Publishers(s) : states[u].content.seen[use] = active[s][use]
    BY <1>1, <1>3, FreshTells DEF IsSo
<1>5. Seen(s, use) = active[s][use]
    BY <1>4 DEF Seen
<1>6. Seen(s, use) \in SUBSET Processes
    BY <1>1, <1>3, <1>5 DEF TypeOK, Activity
<1>7. q \in Seen(s, use) \/ ParentOf[q] \in Seen(s, use)
    BY <1>2, <1>5
<1>8. q \in Expanded[s][Seen(s, use)]
    BY <1>1, <1>6, <1>7, ExpandedHas
<1>9. q \in Cohort(p)
    BY DEF Cohort
<1> QED BY <1>8, <1>9

\* What has been in a protected use for longer than a state is good for, its
\* children and the processes of the same image are never throttled, whatever
\* becomes of trays, messages, the worker and the service, as long as nobody
\* sets the wall clock back.
THEOREM WhatIsInUseIsProtected ==
    ASSUME Jumps \subseteq Nat
    PROVE  Spec => []InUseIsProtected
<1>1. Init => TypeOK /\ ToldOK
    BY InitPipe
<1>2. TypeOK /\ ToldOK /\ [Next]_vars => TypeOK' /\ ToldOK'
    BY PipeStep
<1>3. TypeOK /\ ToldOK => InUseIsProtected
    BY ToldProtects
<1> QED BY <1>1, <1>2, <1>3, PTL DEF Spec

-----------------------------------------------------------------------------
(***************************************************************************)
(* InteractiveWake                                                         *)
(***************************************************************************)

Messages == Commands \cup {"Tick"}

\* Where the Ticks of a channel are.
TicksIn(q) == {i \in 1 .. Len(q) : q[i] = "Tick"}

LEMMA TicksFinite ==
    ASSUME NEW q \in Seq(Messages)
    PROVE  IsFiniteSet(TicksIn(q)) /\ Cardinality(TicksIn(q)) \in Nat
<1>1. IsFiniteSet(1 .. Len(q))  BY FS_Interval, Len(q) \in Nat
<1>2. IsFiniteSet(TicksIn(q))  BY <1>1, FS_Subset DEF TicksIn
<1> QED  BY <1>2, FS_CardinalityType

\* Ticks are those of the channel.
LEMMA TicksOfQueue ==
    ASSUME queue \in Seq(Messages)
    PROVE  Ticks = TicksIn(queue)
BY DEF Ticks, TicksIn

\* A message at the end adds a Tick if it is one.
LEMMA TicksAppended ==
    ASSUME NEW q \in Seq(Messages), NEW m \in Messages
    PROVE  Cardinality(TicksIn(Append(q, m))) =
               Cardinality(TicksIn(q)) + IF m = "Tick" THEN 1 ELSE 0
<1> DEFINE n == Len(q) + 1
<1>1. CASE m = "Tick"
    <2>1. TicksIn(Append(q, m)) = TicksIn(q) \cup {n}  BY <1>1 DEF TicksIn
    <2>2. n \notin TicksIn(q)  BY DEF TicksIn
    <2> QED  BY <1>1, <2>1, <2>2, TicksFinite, FS_AddElement
<1>2. CASE m # "Tick"
    <2>1. TicksIn(Append(q, m)) = TicksIn(q)  BY <1>2 DEF TicksIn
    <2> QED  BY <1>2, <2>1, TicksFinite
<1> QED  BY <1>1, <1>2

\* A message taken from the front takes a Tick away if it is one.
LEMMA TicksTaken ==
    ASSUME NEW q \in Seq(Messages), q # <<>>
    PROVE  Cardinality(TicksIn(q)) =
               Cardinality(TicksIn(Tail(q)))
                   + IF Head(q) = "Tick" THEN 1 ELSE 0
<1> DEFINE S == TicksIn(q) \ {1}
           T == TicksIn(Tail(q))
           f == [i \in S |-> i - 1]
<1>1. IsFiniteSet(S)  BY TicksFinite, FS_RemoveElement
<1>2. Tail(q) \in Seq(Messages)  OBVIOUS
<1>3. f \in [S -> T]  BY DEF TicksIn
<1>4. \A a, b \in S : f[a] = f[b] => a = b  BY DEF TicksIn
<1>5. \A t \in T : \E a \in S : f[a] = t
    <2> TAKE t \in T
    <2>1. t + 1 \in S  BY DEF TicksIn
    <2>2. f[t + 1] = t  BY <2>1 DEF TicksIn
    <2> QED  BY <2>1, <2>2
<1>6. f \in Bijection(S, T)
    BY <1>3, <1>4, <1>5 DEF Bijection, Injection, Surjection, IsInjective
<1>7. Cardinality(T) = Cardinality(S)
    BY <1>1, <1>6, FS_Bijection DEF ExistsBijection
<1>8. 1 \in TicksIn(q) <=> Head(q) = "Tick"  BY DEF TicksIn
<1>9. Cardinality(S) = IF 1 \in TicksIn(q) THEN Cardinality(TicksIn(q)) - 1
                       ELSE Cardinality(TicksIn(q))
    <2> HIDE DEF f, T
    <2>1. IsFiniteSet(TicksIn(q))  BY TicksFinite
    <2> QED  BY <2>1, FS_RemoveElement
<1>10. Cardinality(TicksIn(q)) \in Nat /\ Cardinality(T) \in Nat
    BY <1>2, TicksFinite
<1> HIDE DEF S, T
<1> QED  BY <1>7, <1>8, <1>9, <1>10 DEF T

\* An empty channel holds no Tick.
LEMMA NoTicks == Cardinality(TicksIn(<<>>)) = 0
<1>1. TicksIn(<<>>) = {}  BY DEF TicksIn
<1> QED  BY <1>1, FS_EmptySet
-----------------------------------------------------------------------------
LEMMA TypeInit == WakeInit => WakeTypeOK
<1> SUFFICES ASSUME WakeInit PROVE WakeTypeOK  OBVIOUS
<1>1. queue \in Seq(Commands \cup {"Tick"})  BY DEF WakeInit
<1>2. received \in 0 .. MaxReceipts /\ commands \in 0 .. MaxCommands
    BY WakeAssumption DEF WakeInit
<1>3. asked \in 0 .. received /\ answered \in 0 .. received  BY DEF WakeInit
<1>4. pending \in BOOLEAN /\ owned \in BOOLEAN /\ wakeEnabled \in BOOLEAN
    BY DEF WakeInit
<1> QED  BY <1>1, <1>2, <1>3, <1>4 DEF WakeInit, WakeTypeOK

LEMMA TypeStep == WakeTypeOK /\ [WakeNext]_wakeVars => WakeTypeOK'
<1> SUFFICES ASSUME WakeTypeOK, [WakeNext]_wakeVars PROVE WakeTypeOK'  OBVIOUS
<1> USE WakeAssumption
<1> USE DEF WakeTypeOK, shared, pipeSide, controller
<1>1. ASSUME NEW c \in Commands, Command(c) PROVE WakeTypeOK'
    BY <1>1 DEF Command
<1>2. CASE Store  BY <1>2 DEF Store
<1>3. CASE Look  BY <1>3 DEF Look
<1>4. CASE Claim  BY <1>4 DEF Claim, Claimed
<1>5. CASE SendTick  BY <1>5 DEF SendTick
<1>6. CASE LoopTop  BY <1>6 DEF LoopTop, Goto
<1>7. CASE Take  BY <1>7 DEF Take, Goto
<1>8. CASE Timeout  BY <1>8 DEF Timeout, Goto
<1>9. CASE Drain  BY <1>9 DEF Drain, Goto
<1>10. CASE Dispatch
    <2>1. pc' \in {"evaluate", "stopped", "loop"}
          /\ (pc' = "evaluate" => cmd = "Tick")
        BY <1>10 DEF Dispatch, Goto, NextLabel
    <2>2. pending' \in BOOLEAN  BY <1>10 DEF Dispatch, Reset
    <2>3. owned' \in BOOLEAN /\ answered' \in 0 .. received
        <3>1. owned' = owned \/ owned' = FALSE  BY <1>10 DEF Dispatch
        <3>2. answered' = answered \/ answered' = received
            BY <1>10 DEF Dispatch
        <3>3. received \in 0 .. received  OBVIOUS
        <3> QED  BY <3>1, <3>2, <3>3
    <2>4. /\ queue' = queue /\ wakeEnabled' = wakeEnabled /\ cmd' = cmd
          /\ commands' = commands /\ pipeWorker' = pipeWorker
          /\ received' = received /\ asked' = asked
        BY <1>10 DEF Dispatch
    <2> QED  BY <2>1, <2>2, <2>3, <2>4
<1>11. CASE Evaluate  BY <1>11 DEF Evaluate, Goto, Reads
<1>12. CASE Reconcile  BY <1>12 DEF Reconcile, Goto
<1>13. CASE UNCHANGED wakeVars  BY <1>13 DEF wakeVars
<1> QED  BY <1>1, <1>2, <1>3, <1>4, <1>5, <1>6, <1>7, <1>8, <1>9, <1>10,
            <1>11, <1>12, <1>13 DEF WakeNext, Worker, Controller

\* Type correctness: the threads leave each variable of the wake path within
\* its range, and an evaluation is the answer to a Tick (run_controller).
THEOREM TypeCorrect == WakeSpec => []WakeTypeOK
<1>1. WakeInit => WakeTypeOK  BY TypeInit
<1>2. WakeTypeOK /\ [WakeNext]_wakeVars => WakeTypeOK'  BY TypeStep
<1> QED  BY <1>1, <1>2, PTL DEF WakeSpec
-----------------------------------------------------------------------------
LEMMA TicksInit == WakeInit => TicksInv
<1> SUFFICES ASSUME WakeInit PROVE TicksInv  OBVIOUS
<1>1. Ticks = TicksIn(<<>>)  BY DEF WakeInit, Ticks, TicksIn
<1> QED  BY <1>1, NoTicks DEF WakeInit, TicksInv, Claims

LEMMA TicksStep == WakeTypeOK /\ TicksInv /\ [WakeNext]_wakeVars => TicksInv'
<1> SUFFICES ASSUME WakeTypeOK, TicksInv, [WakeNext]_wakeVars PROVE TicksInv'
    OBVIOUS
<1> DEFINE n == Cardinality(TicksIn(queue))
<1>q. queue \in Seq(Messages) /\ queue' \in Seq(Messages)
    BY TypeStep DEF WakeTypeOK, Messages
<1>t. Ticks = TicksIn(queue) /\ Ticks' = TicksIn(queue')
    BY <1>q DEF Ticks, TicksIn
<1>n. n \in Nat /\ n' \in Nat  BY <1>q, TicksFinite
<1>b. pending \in BOOLEAN  BY DEF WakeTypeOK
<1> HIDE DEF n
<1>same. ASSUME UNCHANGED queue PROVE n' = n  BY <1>same DEF n
<1> DEFINE r == IF pc = "dispatch" /\ cmd = "Tick" THEN 1 ELSE 0
           u == IF pending THEN 0 ELSE 1
<1>inv. /\ n + Claims + r + u <= 3
        /\ n' + Claims' + r' + u' <= 3 => TicksInv'
    BY <1>t DEF TicksInv, n
<1>less. ASSUME n' <= n, pending' = pending, pipeWorker' = pipeWorker,
                pc # "dispatch", ~ (pc' = "dispatch" /\ cmd' = "Tick")
         PROVE  TicksInv'
    <2>1. Claims' = Claims /\ Claims \in {0, 1}  BY <1>less DEF Claims
    <2>2. u' = u /\ u \in {0, 1}  BY <1>less
    <2>3. r = 0 /\ r' = 0  BY <1>less
    <2> HIDE DEF Claims, r, u
    <2>4. n + Claims + 0 + u <= 3  BY <1>inv, <2>3
    <2>5. \A x \in Nat : x <= n => x + Claims + 0 + u <= 3
        BY <1>n, <2>1, <2>2, <2>4
    <2>6. n' + Claims + 0 + u <= 3  BY <1>n, <1>less, <2>5
    <2>7. n' + Claims' + r' + u' <= 3  BY <2>1, <2>2, <2>3, <2>6
    <2> QED  BY <1>inv, <2>7
<1> USE <1>n, <1>b, <1>inv
<1> USE DEF Claims, shared, pipeSide, controller
<1>1. ASSUME NEW c \in Commands, Command(c) PROVE TicksInv'
    <2>1. c \in Messages /\ c # "Tick"  BY WakeAssumption DEF Messages
    <2>2. n' = n  BY <1>1, <1>q, <2>1, TicksAppended DEF Command, n
    <2> QED  BY <1>1, <2>2 DEF Command
<1>2. CASE Store  BY <1>2, <1>same DEF Store
<1>3. CASE Look  BY <1>3, <1>same DEF Look
<1>4. CASE Claim  BY <1>4, <1>same DEF Claim, Claimed
<1>5. CASE SendTick
    <2>1. n' = n + 1
        BY <1>5, <1>q, TicksAppended, "Tick" \in Messages
           DEF SendTick, n, Messages
    <2> QED  BY <1>5, <2>1 DEF SendTick
<1>6. CASE LoopTop  BY <1>6, <1>same DEF LoopTop, Goto
<1>7. CASE Take
    <2>1. n' <= n  BY <1>7, <1>q, <1>n, TicksTaken, TicksFinite DEF Take, n
    <2>2. ~ (pc' = "dispatch" /\ cmd' = "Tick")  BY <1>7 DEF Take, Goto
    <2>3. pc = "wait" /\ pending' = pending /\ pipeWorker' = pipeWorker
        BY <1>7 DEF Take
    <2> QED  BY <1>less, <2>1, <2>2, <2>3
\* A Tick is about to reset the flag only when the channel was found empty.
<1>8. CASE Timeout
    <2>1. n' = 0  BY <1>8, NoTicks DEF Timeout, n
    <2> QED  BY <1>8, <2>1 DEF Timeout
<1>9. CASE Drain
    <2>1. CASE queue = <<>>
        <3>1. n' = 0  BY <1>9, <2>1, NoTicks DEF Drain, n
        <3> QED  BY <1>9, <3>1 DEF Drain
    <2>2. CASE queue # <<>>
        <3>1. n' <= n
            <4>1. queue' = Tail(queue)  BY <1>9, <2>2 DEF Drain
            <4> QED  BY <2>2, <4>1, <1>q, <1>n, TicksTaken DEF n
        <3>2. ~ (pc' = "dispatch" /\ cmd' = "Tick")
            BY <1>9, <2>2 DEF Drain, Goto
        <3>3. pc = "drain" /\ pending' = pending /\ pipeWorker' = pipeWorker
            BY <1>9 DEF Drain
        <3> QED  BY <1>less, <3>1, <3>2, <3>3
    <2> QED  BY <2>1, <2>2
<1>10. CASE Dispatch
    <2>1. pc' # "dispatch"  BY <1>10 DEF Dispatch, Goto, NextLabel
    <2> QED  BY <1>10, <1>same, <2>1 DEF Dispatch, Reset
<1>11. CASE Evaluate
    <2>1. pc' # "dispatch"  BY <1>11 DEF Evaluate, Goto
    <2> QED  BY <1>11, <1>same, <2>1 DEF Evaluate
<1>12. CASE Reconcile  BY <1>12, <1>same DEF Reconcile, Goto
<1>13. CASE UNCHANGED wakeVars  BY <1>13, <1>same DEF wakeVars
<1> QED  BY <1>1, <1>2, <1>3, <1>4, <1>5, <1>6, <1>7, <1>8, <1>9, <1>10,
            <1>11, <1>12, <1>13 DEF WakeNext, Worker, Controller

\* The command channel never holds more than three wake-ups, although it is
\* unbounded and messages of the tray arrive whatever the controller does
\* (request_interactive_wake, wait_for_command).
THEOREM ChannelBounded == WakeSpec => []TicksBounded
<1>1. WakeInit => WakeTypeOK /\ TicksInv  BY TypeInit, TicksInit
<1>2. WakeTypeOK /\ TicksInv /\ [WakeNext]_wakeVars => (WakeTypeOK /\ TicksInv)'
    BY TypeStep, TicksStep
<1>3. WakeTypeOK /\ TicksInv => TicksBounded
    <2> SUFFICES ASSUME WakeTypeOK, TicksInv PROVE TicksBounded  OBVIOUS
    <2>1. Cardinality(Ticks) \in Nat
        BY TicksOfQueue, TicksFinite DEF WakeTypeOK, Messages
    <2> QED  BY <2>1 DEF TicksInv, TicksBounded, Claims
<1> QED  BY <1>1, <1>2, <1>3, PTL DEF WakeSpec
-----------------------------------------------------------------------------
\* A channel that holds nothing but Ticks holds one unless it is empty.
LEMMA TicksUnlessEmpty ==
    ASSUME queue \in Seq(Messages), \A i \in DOMAIN queue : queue[i] = "Tick"
    PROVE  Ticks # {} <=> queue # <<>>
<1>1. DOMAIN queue = 1 .. Len(queue) /\ Len(queue) \in Nat
    OBVIOUS
<1>2. CASE queue = <<>>  BY <1>2 DEF Ticks
<1>3. CASE queue # <<>>
    <2>1. 1 \in DOMAIN queue  BY <1>1, <1>3
    <2> QED  BY <1>3, <2>1 DEF Ticks
<1> QED  BY <1>2, <1>3

\* Taking a Tick from such a channel leaves such a channel.
LEMMA OnlyTicksTaken ==
    ASSUME NEW q \in Seq(Messages), q # <<>>,
           \A i \in DOMAIN q : q[i] = "Tick"
    PROVE  Head(q) = "Tick" /\ \A i \in DOMAIN Tail(q) : Tail(q)[i] = "Tick"
<1>1. /\ DOMAIN q = 1 .. Len(q) /\ Len(q) \in Nat /\ Len(q) > 0
      /\ DOMAIN Tail(q) = 1 .. Len(q) - 1 /\ Head(q) = q[1]
      /\ \A i \in 1 .. Len(q) - 1 : Tail(q)[i] = q[i + 1]
    OBVIOUS
<1>2. \A i \in 1 .. Len(q) - 1 : i + 1 \in 1 .. Len(q)  BY <1>1
<1>3. 1 \in 1 .. Len(q)  BY <1>1
<1> QED  BY <1>1, <1>2, <1>3

LEMMA SignalInit == WakeInit => SignalInv
BY DEF WakeInit, SignalInv, OnlyTicks, FlagKept, Answering

\* The steps without a command, with the channel in place of its Ticks.
LEMMA SignalStep == WakeTypeOK /\ SignalInv /\ [WakeNext]_wakeVars => SignalInv'
<1> SUFFICES ASSUME WakeTypeOK, SignalInv, [WakeNext]_wakeVars, commands' = 0
             PROVE  OnlyTicks' /\ FlagKept' /\ Answering'
    BY DEF SignalInv
<1>q. queue \in Seq(Messages) /\ queue' \in Seq(Messages)
    BY TypeStep DEF WakeTypeOK, Messages
<1>c. ASSUME NEW c \in Commands, Command(c) PROVE FALSE
    BY <1>c DEF Command, WakeTypeOK
<1>0. commands = 0
    <2>1. CASE Worker
        BY <2>1 DEF Worker, Store, Look, Claim, SendTick
    <2>2. CASE Controller
        BY <2>2 DEF Controller, LoopTop, Take, Timeout, Drain, Dispatch,
                    Evaluate, Reconcile
    <2> QED  BY <1>c, <2>1, <2>2 DEF WakeNext, wakeVars
<1> DEFINE full == queue # <<>>
           only == \A i \in DOMAIN queue : queue[i] = "Tick"
<1>t. /\ only => (Ticks # {} <=> full)
      /\ only' => (Ticks' # {} <=> full')
    BY <1>q, TicksUnlessEmpty DEF Ticks
<1>i. /\ cmd = "Tick" /\ pc # "stopped" /\ only
      /\ pending => \/ full \/ pipeWorker = "claimed"
                    \/ pc \in {"drain", "dispatch"}
      /\ (owned \/ pc = "reconcile") /\ asked > answered
            => \/ full \/ pipeWorker \in {"asking", "claimed"}
               \/ pc \in {"drain", "evaluate", "dispatch"}
    BY <1>0, <1>t DEF SignalInv, OnlyTicks, FlagKept, Answering, Woken
<1>g. ASSUME /\ cmd' = "Tick" /\ pc' # "stopped" /\ only'
             /\ pending' => \/ full' \/ pipeWorker' = "claimed"
                            \/ pc' \in {"drain", "dispatch"}
             /\ (owned' \/ pc' = "reconcile") /\ asked' > answered'
                   => \/ full' \/ pipeWorker' \in {"asking", "claimed"}
                      \/ pc' \in {"drain", "evaluate", "dispatch"}
      PROVE  OnlyTicks' /\ FlagKept' /\ Answering'
    BY <1>g, <1>t DEF OnlyTicks, FlagKept, Answering, Woken
<1>same. ASSUME UNCHANGED queue PROVE only' /\ full' = full
    BY <1>i, <1>same
<1>taken. ASSUME full, queue' = Tail(queue) PROVE Head(queue) = "Tick" /\ only'
    BY <1>i, <1>q, <1>taken, OnlyTicksTaken
<1>sent. ASSUME queue' = Append(queue, "Tick") PROVE only' /\ full'
    BY <1>i, <1>q, <1>sent
<1>a. /\ asked \in Nat /\ answered \in Nat /\ received \in Nat
      /\ asked <= received /\ pending \in BOOLEAN /\ owned \in BOOLEAN
    BY WakeAssumption DEF WakeTypeOK
<1> HIDE DEF full, only
<1> USE DEF shared, pipeSide, controller
\* A receipt is stored; one that finds the wake enabled asks for it.
<1>1. CASE Store  BY <1>1, <1>i, <1>same, <1>g DEF Store
<1>2. CASE Look  BY <1>2, <1>i, <1>same, <1>g DEF Look
<1>3. CASE Claim  BY <1>3, <1>i, <1>a, <1>same, <1>g DEF Claim, Claimed
<1>4. CASE SendTick  BY <1>4, <1>i, <1>sent, <1>g DEF SendTick
<1>5. CASE LoopTop  BY <1>5, <1>i, <1>same, <1>g DEF LoopTop, Goto
<1>6. CASE Take
    <2>1. full /\ queue' = Tail(queue)  BY <1>6 DEF Take, full
    <2>2. Head(queue) = "Tick" /\ only'  BY <1>taken, <2>1
    <2> QED  BY <1>6, <1>i, <2>2, <1>g DEF Take, Goto
<1>7. CASE Timeout  BY <1>7, <1>i, <1>same, <1>g DEF Timeout, Goto
<1>8. CASE Drain
    <2>1. CASE full
        <3>1. queue' = Tail(queue)  BY <1>8, <2>1 DEF Drain, full
        <3>2. Head(queue) = "Tick" /\ only'  BY <1>taken, <2>1, <3>1
        <3>3. pc' = pc /\ cmd' = cmd /\ pc = "drain"
            BY <1>8, <2>1, <3>2 DEF Drain, full
        <3> QED  BY <1>8, <1>i, <3>2, <3>3, <1>g DEF Drain
    <2>2. CASE ~ full
        <3>1. queue' = queue /\ pc' = "dispatch" /\ cmd' = "Tick"
            BY <1>8, <2>2 DEF Drain, full, Goto
        <3> QED  BY <1>8, <1>i, <1>same, <3>1, <1>g DEF Drain
    <2> QED  BY <2>1, <2>2
\* The flag is reset when its Tick has come, which goes on to an evaluation.
<1>9. CASE Dispatch
    <2>1. /\ pc' = "evaluate" /\ pending' = FALSE
          /\ UNCHANGED <<queue, cmd, pipeWorker, asked, owned, answered>>
        BY <1>9, <1>i DEF Dispatch, Reset, NextLabel, Goto
    <2> QED  BY <1>i, <1>same, <2>1, <1>g
\* An evaluation that looks at the receipts sees what has been asked for, and
\* one that does not owns nothing.
<1>10. CASE Evaluate
    <2>1. /\ UNCHANGED <<queue, cmd, pending, pipeWorker, asked, owned>>
          /\ pc = "evaluate"
        BY <1>10 DEF Evaluate
    <2>2. \/ answered' = received /\ pc' = "reconcile"
          \/ ~ owned /\ answered' = answered /\ pc' = "loop"
        BY <1>10 DEF Evaluate, Reads, Goto
    <2> QED  BY <1>i, <1>a, <1>same, <2>1, <2>2, <1>g
<1>11. CASE Reconcile  BY <1>11, <1>i, <1>same, <1>g DEF Reconcile, Goto
<1>12. CASE UNCHANGED wakeVars  BY <1>12, <1>i, <1>same, <1>g DEF wakeVars
<1> QED  BY <1>c, <1>1, <1>2, <1>3, <1>4, <1>5, <1>6, <1>7, <1>8, <1>9,
            <1>10, <1>11, <1>12 DEF WakeNext, Worker, Controller

\* Without a command in between no message of the tray that found the wake
\* enabled is lost, whatever the order of the two threads: as long as anything
\* is owned that it could veto, the channel, the flag or the controller has a
\* Tick on its way (request_interactive_wake, wait_for_command).
THEOREM NoWakeLost == WakeSpec => []NoLostWakeUnlessCommand
<1>1. WakeInit => WakeTypeOK /\ SignalInv  BY TypeInit, SignalInit
<1>2. WakeTypeOK /\ SignalInv /\ [WakeNext]_wakeVars
         => (WakeTypeOK /\ SignalInv)'
    BY TypeStep, SignalStep
<1>3. SignalInv => NoLostWakeUnlessCommand
    BY DEF SignalInv, Answering, NoLostWakeUnlessCommand, NoLostWake
<1> QED  BY <1>1, <1>2, <1>3, PTL DEF WakeSpec
=============================================================================
