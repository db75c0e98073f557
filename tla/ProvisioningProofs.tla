------------------------- MODULE ProvisioningProofs -------------------------
(***************************************************************************)
(* What the commands of winsched-service promise of the registration and   *)
(* of the service, proved for any number of commands, of failing calls and *)
(* of starts by others. The inductive invariant ProvisionInv says of a     *)
(* command under way what the steps it still has to do leave to be done.   *)
(***************************************************************************)
EXTENDS Provisioning, SequenceTheorems, TLAPS

-----------------------------------------------------------------------------
\* What is left of a series of steps when the first has been done.
LEMMA StepDone ==
    ASSUME NEW q \in Seq(Steps), Len(q) > 1
    PROVE  /\ Tail(q) \in Seq(Steps) /\ Tail(q) # <<>>
           /\ Range(q) = {Head(q)} \cup Range(Tail(q))
           /\ Tail(q)[Len(Tail(q))] = q[Len(q)]
<1>0. /\ Len(q) \in Nat /\ DOMAIN q = 1 .. Len(q) /\ Head(q) = q[1]
      /\ Tail(q) \in Seq(Steps) /\ Len(Tail(q)) = Len(q) - 1
      /\ DOMAIN Tail(q) = 1 .. Len(q) - 1
      /\ \A i \in 1 .. Len(q) - 1 : Tail(q)[i] = q[i + 1]
    OBVIOUS
<1> DEFINE n == Len(q)
           r == Tail(q)
<1>1. /\ n \in Nat /\ n > 1 /\ DOMAIN q = 1 .. n /\ Head(q) = q[1]
      /\ r \in Seq(Steps) /\ Len(r) = n - 1 /\ DOMAIN r = 1 .. n - 1
      /\ \A i \in 1 .. n - 1 : r[i] = q[i + 1]
    BY <1>0
<1>2. r # <<>>
    <2>1. Len(<<>>) = 0 /\ n - 1 # 0
        BY <1>1
    <2>2. Len(r) # 0
        BY <1>1, <2>1
    <2> HIDE DEF r
    <2> QED BY <2>1, <2>2
<1> HIDE DEF n, r
<1>3. ASSUME NEW i \in 1 .. n, i # 1
      PROVE  i - 1 \in 1 .. n - 1 /\ r[i - 1] = q[i]
    <2>1. i - 1 \in 1 .. n - 1 /\ (i - 1) + 1 = i
        BY <1>1, <1>3
    <2> QED BY <1>1, <2>1
<1>4. \A i \in 1 .. n - 1 : i + 1 \in 1 .. n
    BY <1>1
<1>5. 1 \in 1 .. n /\ n - 1 \in 1 .. n - 1 /\ (n - 1) + 1 = n
    BY <1>1
<1>6. \A x \in Range(q) : x = Head(q) \/ x \in Range(r)
    <2> SUFFICES ASSUME NEW i \in 1 .. n, i # 1 PROVE q[i] \in Range(r)
        BY <1>1 DEF Range
    <2> QED BY <1>1, <1>3 DEF Range
<1>7. Head(q) \in Range(q) /\ \A x \in Range(r) : x \in Range(q)
    <2>1. Head(q) \in Range(q)
        BY <1>1, <1>5 DEF Range
    <2>2. ASSUME NEW i \in 1 .. n - 1 PROVE r[i] \in Range(q)
        BY <1>1, <1>4 DEF Range
    <2> QED BY <1>1, <2>1, <2>2 DEF Range
<1>8. r[Len(r)] = q[n]
    BY <1>1, <1>5
<1> QED BY <1>1, <1>2, <1>6, <1>7, <1>8 DEF n, r

\* A series of one step has nothing else ahead.
LEMMA LastStep ==
    ASSUME NEW q \in Seq(Steps), q # <<>>, ~ Len(q) > 1
    PROVE  Range(q) = {Head(q)} /\ q[Len(q)] = Head(q)
<1>1. Len(q) \in Nat /\ DOMAIN q = 1 .. Len(q) /\ Head(q) = q[1]
    OBVIOUS
<1>2. Len(q) # 0
    OBVIOUS
<1>3. Len(q) = 1 /\ DOMAIN q = {1}
    BY <1>1, <1>2
<1> QED BY <1>1, <1>3 DEF Range

\* What comes before the step that is taken is not ahead any more.
LEMMA AheadOfHead ==
    ASSUME NEW t, t.todo \in Seq(Steps), t.todo # <<>>,
           NEW a, Ahead(t, a, Head(t.todo))
    PROVE  a \notin ToDo(t)
<1> DEFINE n == Len(t.todo)
<1>1. DOMAIN t.todo = 1 .. n /\ n \in Nat /\ n > 0 /\ Head(t.todo) = t.todo[1]
    OBVIOUS
<1> HIDE DEF n
<1>2. \A i \in DOMAIN t.todo : t.todo[i] = a => i < 1
    BY <1>1 DEF Ahead
<1> QED BY <1>1, <1>2 DEF ToDo, Range

\* The order of the steps is kept.
LEMMA AheadKept ==
    ASSUME NEW t, NEW u, t.todo \in Seq(Steps), t.todo # <<>>,
           u.todo = Tail(t.todo), ToDo(t) = {Head(t.todo)} \cup ToDo(u),
           NEW a, NEW b, Ahead(t, a, b)
    PROVE  Ahead(u, a, b)
<1> DEFINE n == Len(t.todo)
<1>1. /\ n \in Nat /\ DOMAIN t.todo = 1 .. n /\ DOMAIN u.todo = 1 .. n - 1
      /\ \A i \in 1 .. n - 1 : u.todo[i] = t.todo[i + 1]
    OBVIOUS
<1>2. ASSUME NEW i \in 1 .. n - 1, NEW j \in 1 .. n - 1,
             u.todo[i] = a, u.todo[j] = b
      PROVE  i < j
    <2>1. /\ i + 1 \in DOMAIN t.todo /\ j + 1 \in DOMAIN t.todo
          /\ t.todo[i + 1] = a /\ t.todo[j + 1] = b
        BY <1>1, <1>2
    <2>2. i + 1 < j + 1
        BY <2>1 DEF Ahead
    <2> QED BY <2>2
<1>3. ASSUME a \in ToDo(u) PROVE b \in ToDo(u)
    <2>1. a \in ToDo(t) /\ b \in ToDo(t)
        BY <1>3 DEF Ahead
    <2>2. Head(t.todo) # b
        BY <2>1, AheadOfHead
    <2> QED BY <2>1, <2>2
<1> QED BY <1>1, <1>2, <1>3 DEF Ahead
-----------------------------------------------------------------------------
\* A task with other steps to do.
Doing(t, todo, call) == [t EXCEPT !.todo = todo, !.call = call]

SameCommand(t, u) ==
    /\ u.op = t.op /\ u.start = t.start /\ u.before = t.before
    /\ u.captured = t.captured /\ u.state = t.state /\ u.origin = t.origin
    /\ u.recovering = t.recovering /\ u.failed = t.failed
    /\ u.held = t.held /\ u.left = t.left

LEMMA DoingTask ==
    ASSUME NEW t \in Tasks, NEW todo \in Seq(Steps),
           NEW call \in {"query", "act", "running", "stopped"}
    PROVE  /\ Doing(t, todo, call) \in Tasks
           /\ Doing(t, todo, call).todo = todo
           /\ Doing(t, todo, call).call = call
           /\ SameCommand(t, Doing(t, todo, call))
BY DEF Doing, SameCommand, Tasks

\* What a step of a command leaves: the rest of it, or its result.
Result(t) ==
    IF ~ t.recovering THEN "ok" ELSE IF t.failed THEN "recovery" ELSE "error"

LEMMA GoesOn ==
    ASSUME NEW t \in Tasks, t.todo # <<>>, GoOn(t), task.op = t.op
    PROVE  \/ /\ task' \in Tasks /\ task'.todo # <<>> /\ task' # None
              /\ SameCommand(t, task') /\ task'.todo = Tail(t.todo)
              /\ ToDo(t) = {Head(t.todo)} \cup ToDo(task')
              /\ Final(task') = Final(t)
              /\ UNCHANGED outcome
           \/ /\ task' = None /\ ToDo(t) = {Head(t.todo)}
              /\ Final(t) = Head(t.todo)
              /\ outcome' = [op |-> t.op, result |-> Result(t)]
<1>1. t.todo \in Seq(Steps)
    BY DEF Tasks
<1>2. CASE Len(t.todo) > 1
    <2>1. /\ Tail(t.todo) \in Seq(Steps) /\ Tail(t.todo) # <<>>
          /\ Range(t.todo) = {Head(t.todo)} \cup Range(Tail(t.todo))
          /\ Tail(t.todo)[Len(Tail(t.todo))] = t.todo[Len(t.todo)]
        BY <1>1, <1>2, StepDone
    <2>2. task' = Doing(t, Tail(t.todo), "query") /\ UNCHANGED outcome
        BY <1>2 DEF GoOn, Doing
    <2>3. /\ task' \in Tasks /\ SameCommand(t, task')
          /\ task'.todo = Tail(t.todo)
        BY <2>1, <2>2, DoingTask
    <2>4. task' # None
        BY <2>3, ProvisioningAssumption
    <2> QED BY <2>1, <2>2, <2>3, <2>4 DEF ToDo, Final
<1>3. CASE ~ Len(t.todo) > 1
    <2>1. task' = None /\ outcome' = [op |-> t.op, result |-> Result(t)]
        BY <1>3 DEF GoOn, Finish, Result
    <2>2. Range(t.todo) = {Head(t.todo)} /\ t.todo[Len(t.todo)] = Head(t.todo)
        BY <1>1, <1>3, LastStep
    <2> QED BY <2>1, <2>2 DEF ToDo, Final
<1> QED BY <1>2, <1>3
-----------------------------------------------------------------------------
\* The rest of a plan is one.
LEMMA PlanKept ==
    ASSUME NEW t \in Tasks, NEW u \in Tasks, t.todo # <<>>,
           SameCommand(t, u), u.todo = Tail(t.todo),
           ToDo(t) = {Head(t.todo)} \cup ToDo(u), Final(u) = Final(t),
           PlanOK(t), OriginOK(t), Provisions(t) => t.origin # "none"
    PROVE  PlanOK(u) /\ OriginOK(u)
<1>1. t.todo \in Seq(Steps)
    BY DEF Tasks
<1>2. \A a, b : Ahead(t, a, b) => Ahead(u, a, b)
    BY <1>1, AheadKept
<1>3. /\ Provisions(u) = Provisions(t) /\ Changing(u) = Changing(t)
      /\ Removing(u) = Removing(t) /\ Restoring(u) = Restoring(t)
    BY DEF SameCommand, Provisions, Changing, Removing, Restoring
<1>4. OriginOK(u)
    BY <1>3 DEF OriginOK, SameCommand
<1>5. PlanOK(u)
    <2>1. \A x : x \in ToDo(u) => x \in ToDo(t)
        OBVIOUS
    <2>2. Provisions(u) => u.origin # "none"
        BY <1>3 DEF SameCommand
    <2> QED BY <1>2, <1>3, <2>1, <2>2 DEF PlanOK, SameCommand
<1> QED BY <1>4, <1>5

\* What holds when a command ends.
Ended(t, r, p, j) ==
    /\ outcome' \in [op : {t.op}, result : {"ok", "error", "recovery"}]
    /\ outcome'.result = "recovery" => Provisions(t)
    /\ outcome'.result = "error" =>
        /\ t.op # "uninstall" => r = t.before
        /\ t.op = "uninstall" => \/ r = t.before
                                 \/ t.before # None /\ r \in {None, Doom(t.before)}
        /\ t.origin = "existing" /\ ~ disturbed' =>
            /\ p.state = t.state
            /\ t.state = "running" => p.image = t.captured.image
    /\ outcome'.result = "ok" =>
        /\ Provisions(t) => r = Wanted
        /\ t.op = "uninstall" => r = None
        /\ t.op \in {"start", "stop"} => r = t.before
        /\ t.op \in {"stop", "uninstall"} /\ ~ disturbed'
              => p.state = "stopped" /\ j = {}

\* A registration with nothing left to change is the one wanted.
LEMMA WantedReached ==
    ASSUME NEW r \in Registry, r.image = "new", r.start = "auto", ~ r.doomed,
           \A f \in Settable : r[f] = "new"
    PROVE  r = Wanted
<1>1. /\ r.description = "new" /\ r.actions = "new" /\ r.flag = "new"
      /\ r.acl = "new" /\ r.doomed = FALSE
    BY DEF Settable, Fields, Registry
<1> QED BY <1>1 DEF Registry, Wanted, Registered

\* Registrations that agree in all they say are one.
LEMMA RegistrationRestored ==
    ASSUME NEW r \in Registry, NEW c \in Registry,
           r.image = c.image, r.start = c.start, r.doomed = c.doomed,
           \A f \in Settable : r[f] = c[f]
    PROVE  r = c
<1>1. /\ r.description = c.description /\ r.actions = c.actions
      /\ r.flag = c.flag /\ r.acl = c.acl
    BY DEF Settable, Fields
<1> QED BY <1>1 DEF Registry
-----------------------------------------------------------------------------
\* A command after a step of it: it goes on, or has ended with its promise.
Continued(t) ==
    /\ task' = None \/ (task' \in Tasks /\ task'.todo # <<>>)
    /\ CommandOK'
    /\ task' # None => task'.before = t.before /\ UNCHANGED outcome
    /\ task' = None => Ended(t, reg', proc', pending')

\* A step that has succeeded: what holds with the steps behind it ahead holds
\* of the task it leaves, and with none ahead it is the promise.
LEMMA StepTaken ==
    ASSUME NEW t \in Tasks, t.todo # <<>>, task.op = t.op, GoOn(t),
           PlanOK(t), OriginOK(t), Provisions(t) => t.origin # "none",
           reg' \in {None} \cup Registry,
           t.held # {} => corrupt' = {},
           Head(t.todo) = "absent" => reg' = None \/ t.failed,
           \A ahead : ToDo(t) = {Head(t.todo)} \cup ahead =>
               /\ StandingOK(t, ahead, reg')
               /\ ~ disturbed' => ServiceOK(t, ahead, proc', pending')
    PROVE  Continued(t)
<1>1. CASE /\ task' \in Tasks /\ task'.todo # <<>> /\ task' # None
           /\ SameCommand(t, task') /\ task'.todo = Tail(t.todo)
           /\ ToDo(t) = {Head(t.todo)} \cup ToDo(task')
           /\ Final(task') = Final(t) /\ UNCHANGED outcome
    <2> DEFINE u == task'
               ahead == ToDo(u)
    <2>1. PlanOK(u) /\ OriginOK(u)
        BY <1>1, PlanKept
    <2>2. /\ StandingOK(t, ahead, reg')
          /\ ~ disturbed' => ServiceOK(t, ahead, proc', pending')
        BY <1>1
    <2>3. /\ Provisions(u) = Provisions(t) /\ Changing(u) = Changing(t)
          /\ Removing(u) = Removing(t) /\ Restoring(u) = Restoring(t)
        BY <1>1 DEF SameCommand, Provisions, Changing, Removing, Restoring
    <2> HIDE DEF u, ahead
    <2>4. StandingOK(u, ahead, reg')
        BY <1>1, <2>2, <2>3 DEF StandingOK, SameCommand, u
    <2>5. ~ disturbed' => ServiceOK(u, ahead, proc', pending')
        BY <1>1, <2>2, <2>3 DEF ServiceOK, SameCommand, u
    <2>6. u.held # {} => corrupt' = {}
        BY <1>1 DEF SameCommand, u
    <2>7. u.before = t.before
        BY <1>1 DEF SameCommand, u
    <2> QED BY <1>1, <2>1, <2>4, <2>5, <2>6, <2>7
            DEF Continued, CommandOK, ahead, u
<1>2. CASE /\ task' = None /\ ToDo(t) = {Head(t.todo)}
           /\ Final(t) = Head(t.todo)
           /\ outcome' = [op |-> t.op, result |-> Result(t)]
    <2>1. /\ StandingOK(t, {}, reg')
          /\ ~ disturbed' => ServiceOK(t, {}, proc', pending')
        BY <1>2
    <2>2. /\ t.recovering \in BOOLEAN /\ t.failed \in BOOLEAN
          /\ t.origin \in {"none", "existing", "created"}
          /\ t.captured \in {None} \cup Registry
          /\ t.state \in {"running", "stopped"}
          /\ t.op \in {"provision", "register", "uninstall", "start", "stop"}
        BY DEF Tasks
    <2>3. ASSUME Result(t) = "ok"
          PROVE  /\ Provisions(t) => reg' = Wanted
                 /\ t.op = "uninstall" => reg' = None
                 /\ t.op \in {"start", "stop"} => reg' = t.before
                 /\ t.op \in {"stop", "uninstall"} /\ ~ disturbed'
                        => proc'.state = "stopped" /\ pending' = {}
        <3>1. ~ t.recovering /\ ~ t.failed
            BY <2>2, <2>3 DEF Result, OriginOK
        <3>2. ASSUME Provisions(t) PROVE reg' = Wanted
            <4>1. Changing(t) /\ ~ Removing(t) /\ t.origin # "none"
                BY <3>1, <3>2 DEF Changing, Removing
            <4>2. reg' # None /\ reg' \in Registry
                BY <2>1, <4>1 DEF StandingOK
            <4>3. /\ reg'.image = "new" /\ reg'.start = "auto" /\ ~ reg'.doomed
                  /\ \A f \in Settable : reg'[f] = "new"
                BY <2>1, <4>1 DEF StandingOK
            <4> QED BY <4>2, <4>3, WantedReached
        <3>3. t.op = "uninstall" => reg' = None
            BY <1>2, <2>1, <3>1 DEF StandingOK, PlanOK
        <3>4. t.op \in {"start", "stop"} => reg' = t.before
            BY <2>1, <2>2 DEF StandingOK, OriginOK, Provisions
        <3>5. t.op \in {"stop", "uninstall"} /\ ~ disturbed'
                => proc'.state = "stopped" /\ pending' = {}
            BY <2>1 DEF ServiceOK
        <3> QED BY <3>2, <3>3, <3>4, <3>5
    <2>4. ASSUME Result(t) = "error"
          PROVE  /\ t.op # "uninstall" /\ reg' = t.before
                 /\ t.origin = "existing" /\ ~ disturbed' =>
                       /\ proc'.state = t.state
                       /\ t.state = "running" => proc'.image = t.captured.image
        <3>1. t.recovering /\ ~ t.failed /\ t.origin # "none" /\ Provisions(t)
            BY <2>2, <2>4 DEF Result, OriginOK
        <3>2. t.op # "uninstall"
            BY <3>1 DEF Provisions
        <3>3. CASE t.origin = "created"
            <4>1. Removing(t) /\ reg' = None /\ t.before = None
                BY <1>2, <3>1, <3>3 DEF Removing, PlanOK, OriginOK
            <4> QED BY <3>2, <3>3, <4>1
        <3>4. CASE t.origin = "existing"
            <4>1. /\ Restoring(t) /\ ~ Removing(t)
                  /\ t.captured = t.before /\ t.before # None
                BY <3>1, <3>4 DEF Restoring, Removing, OriginOK
            <4>2. reg' \in Registry /\ t.captured \in Registry
                BY <2>1, <2>2, <3>4, <4>1 DEF StandingOK
            <4>3. /\ reg'.image = t.captured.image
                  /\ reg'.start = t.captured.start
                  /\ reg'.doomed = t.captured.doomed
                  /\ \A f \in Settable : reg'[f] = t.captured[f]
                BY <2>1, <3>1, <4>1 DEF StandingOK
            <4>4. reg' = t.captured
                BY <4>2, <4>3, RegistrationRestored
            <4>5. ~ disturbed' =>
                    /\ proc'.state = t.state
                    /\ t.state = "running" => proc'.image = t.captured.image
                BY <2>1, <2>2, <3>1, <4>1 DEF ServiceOK
            <4> QED BY <3>2, <4>1, <4>4, <4>5
        <3> QED BY <2>2, <3>1, <3>3, <3>4
    <2>5. ASSUME Result(t) = "recovery" PROVE Provisions(t)
        BY <2>2, <2>5 DEF Result, OriginOK
    <2>6. Result(t) \in {"ok", "error", "recovery"}
        BY DEF Result
    <2>7. /\ outcome'.result = Result(t)
          /\ outcome' \in [op : {t.op}, result : {"ok", "error", "recovery"}]
        BY <1>2, <2>6
    <2>8. Ended(t, reg', proc', pending')
        BY <2>3, <2>4, <2>5, <2>7 DEF Ended
    <2> QED BY <1>2, <2>8 DEF Continued, CommandOK
<1> QED BY <1>1, <1>2, GoesOn
-----------------------------------------------------------------------------
\* Two series one after the other, spelled out.
LEMMA Concatenated ==
    ASSUME NEW a \in Seq(Steps), NEW b \in Seq(Steps), NEW c \in Seq(Steps),
           Len(c) = Len(a) + Len(b),
           \A i \in 1 .. Len(a) : c[i] = a[i],
           \A i \in 1 .. Len(b) : c[i + Len(a)] = b[i]
    PROVE  a \o b = c
<1>1. /\ a \o b \in Seq(Steps) /\ Len(a \o b) = Len(a) + Len(b)
      /\ \A i \in 1 .. Len(a) + Len(b) :
            (a \o b)[i] = IF i <= Len(a) THEN a[i] ELSE b[i - Len(a)]
    BY ConcatProperties
<1>2. ASSUME NEW i \in 1 .. Len(c) PROVE (a \o b)[i] = c[i]
    <2>1. CASE i <= Len(a)
        BY <1>1, <2>1
    <2>2. CASE ~ i <= Len(a)
        <3>1. i - Len(a) \in 1 .. Len(b) /\ (i - Len(a)) + Len(a) = i
            BY <2>2
        <3> QED BY <1>1, <2>2, <3>1
    <2> QED BY <2>1, <2>2
<1> QED BY <1>1, <1>2, SeqEqual

\* The registration's part of a recovery, and what follows it.
Restoration == <<"stopped", "config", "description", "actions", "flag", "acl">>

LEMMA RestorationThenOne ==
    ASSUME NEW x \in {"running", "stopped"}
    PROVE  Restoration \o <<x>> =
               <<"stopped", "config", "description", "actions", "flag", "acl", x>>
<1> DEFINE a == Restoration
           b == <<x>>
           c == <<"stopped", "config", "description", "actions", "flag", "acl", x>>
<1>1. /\ a \in Seq(Steps) /\ b \in Seq(Steps) /\ c \in Seq(Steps)
      /\ Len(a) = 6 /\ Len(b) = 1 /\ Len(c) = 7
    BY DEF Steps, Restoration
<1>2. /\ \A i \in 1 .. 6 : c[i] = a[i]
      /\ \A i \in 1 .. 1 : c[i + 6] = b[i]
    BY DEF Restoration
<1> HIDE DEF a, b, c
<1>3. /\ Len(c) = Len(a) + Len(b) /\ \A i \in 1 .. Len(a) : c[i] = a[i]
      /\ \A i \in 1 .. Len(b) : c[i + Len(a)] = b[i]
    BY <1>1, <1>2
<1>4. a \o b = c
    BY <1>1, <1>3, Concatenated
<1> QED BY <1>4 DEF a, b, c

LEMMA RestorationThenStart ==
    Restoration \o <<"demand", "running", "disabled">> =
        <<"stopped", "config", "description", "actions", "flag", "acl",
          "demand", "running", "disabled">>
<1> DEFINE a == Restoration
           b == <<"demand", "running", "disabled">>
           c == <<"stopped", "config", "description", "actions", "flag", "acl",
                  "demand", "running", "disabled">>
<1>1. /\ a \in Seq(Steps) /\ b \in Seq(Steps) /\ c \in Seq(Steps)
      /\ Len(a) = 6 /\ Len(b) = 3 /\ Len(c) = 9
    BY DEF Steps, Restoration
<1>2. /\ \A i \in 1 .. 6 : c[i] = a[i]
      /\ \A i \in 1 .. 3 : c[i + 6] = b[i]
    BY DEF Restoration
<1> HIDE DEF a, b, c
<1>3. /\ Len(c) = Len(a) + Len(b) /\ \A i \in 1 .. Len(a) : c[i] = a[i]
      /\ \A i \in 1 .. Len(b) : c[i + Len(a)] = b[i]
    BY <1>1, <1>2
<1>4. a \o b = c
    BY <1>1, <1>3, Concatenated
<1> QED BY <1>4 DEF a, b, c

\* A recovery is a plan.
LEMMA RecoveryPlanned ==
    ASSUME NEW t \in Tasks, t.origin # "none",
           NEW u, u.todo = Recovery(t), u.origin = t.origin, u.recovering,
           u.state = t.state, u.captured = t.captured, Provisions(u)
    PROVE  /\ u.todo \in Seq(Steps) /\ u.todo # <<>>
           /\ Head(u.todo) = "stopped" /\ PlanOK(u)
           /\ ToDo(u) \cap {"delete", "config"} # {}
           /\ Restoring(u) => {"config"} \cup Settable \subseteq ToDo(u)
<1>1. t.state \in {"running", "stopped"}
      /\ t.origin \in {"none", "existing", "created"}
    BY DEF Tasks
<1>2. ~ Changing(u) /\ u.op \notin {"start", "stop", "uninstall"}
    BY DEF Changing, Provisions
<1>3. CASE t.origin = "created"
    <2>1. u.todo = <<"stopped", "delete", "absent">>
        BY <1>3 DEF Recovery
    <2>2. /\ ToDo(u) = {"stopped", "delete", "absent"} /\ Final(u) = "absent"
          /\ u.todo \in Seq(Steps) /\ u.todo # <<>> /\ Head(u.todo) = "stopped"
        BY <2>1 DEF ToDo, Range, Final, Steps
    <2>3. ~ Restoring(u)
        BY <1>3 DEF Restoring
    <2> QED BY <1>2, <1>3, <2>2, <2>3 DEF PlanOK
<1>4. CASE /\ t.origin = "existing"
           /\ t.state = "running" /\ t.captured.start = "disabled"
    <2>1. u.todo = <<"stopped", "config", "description", "actions", "flag",
                     "acl", "demand", "running", "disabled">>
        BY <1>4, RestorationThenStart DEF Recovery, Restoration
    <2>2. /\ ToDo(u) = {"stopped", "config", "description", "actions", "flag",
                        "acl", "demand", "running", "disabled"}
          /\ Final(u) = "disabled"
          /\ u.todo \in Seq(Steps) /\ u.todo # <<>> /\ Head(u.todo) = "stopped"
          /\ Ahead(u, "config", "running") /\ Ahead(u, "stopped", "config")
        BY <2>1 DEF ToDo, Range, Final, Steps, Ahead
    <2>3. ~ Removing(u) /\ u.origin # "none"
        BY <1>4 DEF Removing
    <2> QED BY <1>2, <1>4, <2>2, <2>3 DEF PlanOK, Settable, Fields
<1>5. CASE /\ t.origin = "existing"
           /\ ~ (t.state = "running" /\ t.captured.start = "disabled")
    <2>1. u.todo = <<"stopped", "config", "description", "actions", "flag",
                     "acl", u.state>>
        BY <1>1, <1>5, RestorationThenOne DEF Recovery, Restoration
    <2>2. /\ ToDo(u) = {"stopped", "config", "description", "actions", "flag",
                        "acl", u.state}
          /\ u.todo \in Seq(Steps) /\ u.todo # <<>> /\ Head(u.todo) = "stopped"
          /\ u.state = "running" => /\ Ahead(u, "stopped", "config")
                                    /\ Ahead(u, "config", "running")
        BY <1>1, <2>1 DEF ToDo, Range, Steps, Ahead
    <2>3. ~ Removing(u) /\ u.origin # "none"
        BY <1>5 DEF Removing
    <2> QED BY <1>1, <1>2, <1>5, <2>2, <2>3 DEF PlanOK, Settable, Fields
<1> QED BY <1>1, <1>3, <1>4, <1>5

\* Whatever fails, a command that has changed nothing ends, one that has
\* changed the registration recovers, and a recovery notes it and goes on.
LEMMA GaveUp ==
    ASSUME TypeOK, ProvisionInv, task # None, GiveUp,
           UNCHANGED <<reg, proc, pending, corrupt, disturbed>>
    PROVE  Continued(task)
<1>1. /\ task \in Tasks /\ task.todo # <<>> /\ reg \in {None} \cup Registry
      /\ PlanOK(task) /\ OriginOK(task) /\ StandingOK(task, ToDo(task), reg)
      /\ task.held # {} => corrupt = {}
    BY DEF TypeOK, ProvisionInv, CommandOK
<1>2. CASE task.recovering
    <2> DEFINE t == [task EXCEPT !.failed = TRUE]
    <2>1. GoOn(t)
        BY <1>2 DEF GiveUp
    <2>2. /\ t \in Tasks /\ t.failed /\ t.todo = task.todo
          /\ t.op = task.op /\ t.before = task.before
          /\ t.captured = task.captured /\ t.state = task.state
          /\ t.origin = task.origin /\ t.recovering = task.recovering
          /\ t.held = task.held /\ t.start = task.start
        BY <1>1 DEF Tasks
    <2> HIDE DEF t
    <2>3. /\ ToDo(t) = ToDo(task) /\ Final(t) = Final(task)
          /\ \A a, b : Ahead(t, a, b) = Ahead(task, a, b)
        BY <2>2 DEF ToDo, Final, Ahead
    <2>4. /\ Provisions(t) /\ Provisions(task) /\ ~ Changing(t)
          /\ Removing(t) = Removing(task) /\ Restoring(t) = Restoring(task)
          /\ t.origin # "none" /\ t.op \notin {"start", "stop", "uninstall"}
        BY <1>1, <1>2, <2>2
           DEF Provisions, Changing, Removing, Restoring, OriginOK
    <2>5. PlanOK(t)
        BY <1>1, <2>2, <2>3, <2>4 DEF PlanOK
    <2>6. OriginOK(t)
        BY <1>1, <1>2, <2>2, <2>4 DEF OriginOK
    <2>7. ASSUME NEW ahead, ToDo(t) = {Head(t.todo)} \cup ahead
          PROVE  StandingOK(t, ahead, reg') /\ ServiceOK(t, ahead, proc', pending')
        <3>1. reg = None => ahead \cap Calls = {}
            BY <1>1, <2>3, <2>7 DEF StandingOK
        <3>2. ~ Removing(t) => reg # None
            BY <1>1, <2>2, <2>4 DEF StandingOK
        <3> QED BY <2>2, <2>4, <3>1, <3>2 DEF StandingOK, ServiceOK
    <2>8. /\ t \in Tasks /\ t.todo # <<>> /\ task.op = t.op
          /\ Provisions(t) => t.origin # "none"
          /\ reg' \in {None} \cup Registry
          /\ t.held # {} => corrupt' = {}
          /\ Head(t.todo) = "absent" => reg' = None \/ t.failed
        BY <1>1, <2>2, <2>4
    <2>9. Continued(t)
        BY <2>1, <2>5, <2>6, <2>7, <2>8, StepTaken
    <2>10. Ended(t, reg', proc', pending') => Ended(task, reg', proc', pending')
        BY <2>2, <2>4 DEF Ended
    <2> QED BY <2>2, <2>9, <2>10 DEF Continued
<1>3. CASE task.origin # "none" /\ ~ task.recovering
    <2> DEFINE u == [task EXCEPT !.recovering = TRUE, !.call = "query",
                                 !.todo = Recovery(task)]
    <2>1. task' = u /\ UNCHANGED outcome
        BY <1>3 DEF GiveUp
    <2>2. /\ u.recovering /\ u.todo = Recovery(task)
          /\ u.failed = task.failed
          /\ u.op = task.op /\ u.before = task.before
          /\ u.captured = task.captured /\ u.state = task.state
          /\ u.origin = task.origin /\ u.held = task.held
        BY <1>1 DEF Tasks
    <2>3. Provisions(u) /\ Provisions(task) /\ ~ task.failed
        BY <1>1, <1>3, <2>2 DEF Provisions, OriginOK
    <2>4. /\ u.todo \in Seq(Steps) /\ u.todo # <<>>
          /\ Head(u.todo) = "stopped" /\ PlanOK(u)
          /\ ToDo(u) \cap {"delete", "config"} # {}
          /\ Restoring(u) => {"config"} \cup Settable \subseteq ToDo(u)
        BY <1>1, <1>3, <2>2, <2>3, RecoveryPlanned
    <2>5. u \in Tasks
        <3> DEFINE q == Recovery(task)
        <3>1. q \in Seq(Steps)
            BY <2>2, <2>4
        <3> HIDE DEF q
        <3>2. [task EXCEPT !.recovering = TRUE, !.call = "query", !.todo = q]
                 \in Tasks
            BY <1>1, <3>1 DEF Tasks
        <3> QED BY <3>2 DEF q
    <2> HIDE DEF u
    <2>6. OriginOK(u)
        BY <1>1, <1>3, <2>2, <2>3 DEF OriginOK
    <2>7. /\ Changing(task) /\ ~ Removing(task) /\ ~ Changing(u)
          /\ u.origin # "none" /\ u.op # "uninstall"
        BY <1>3, <2>2, <2>3 DEF Changing, Removing, Provisions
    <2>8. reg # None
        BY <1>1, <1>3, <2>7 DEF StandingOK
    <2>9. StandingOK(u, ToDo(u), reg)
        BY <1>1, <2>2, <2>4, <2>7, <2>8 DEF StandingOK, Restoring
    <2>10. Stops(u) \/ ServiceOK(u, ToDo(u), proc, pending)
        <3>1. CASE Restoring(u)
            BY <2>4, <3>1 DEF Stops
        <3>2. CASE ~ Restoring(u)
            BY <2>3, <3>2 DEF ServiceOK, Provisions
        <3> QED BY <3>1, <3>2
    <2>11. u # None
        BY <2>5, ProvisioningAssumption
    <2> QED BY <1>1, <2>1, <2>2, <2>4, <2>5, <2>6, <2>9, <2>10, <2>11
            DEF Continued, CommandOK
<1>4. CASE task.origin = "none" /\ ~ task.recovering
    <2>1. task' = None /\ outcome' = [op |-> task.op, result |-> "error"]
        BY <1>4 DEF GiveUp, Finish
    <2>2. /\ task.op # "uninstall" => reg = task.before
          /\ task.op = "uninstall" => \/ reg = task.before
                                      \/ /\ task.before # None
                                         /\ reg \in {None, Doom(task.before)}
        BY <1>1, <1>4 DEF StandingOK
    <2>3. Ended(task, reg', proc', pending')
        BY <1>4, <2>1, <2>2 DEF Ended
    <2> QED BY <2>1, <2>3 DEF Continued, CommandOK
<1> QED BY <1>1, <1>2, <1>3, <1>4 DEF Tasks
-----------------------------------------------------------------------------
\* What the service, its manager and users do leaves the command where it is.
LEMMA ServiceStep ==
    ASSUME TypeOK, ProvisionInv,
           Started \/ Manages \/ Stopped \/ Fails \/ StartedByOthers
    PROVE  TypeOK' /\ ProvisionInv' /\ UNCHANGED <<reg, task, outcome>>
<1>1. /\ UNCHANGED <<reg, task, outcome, corrupt, commands, faults>>
      /\ disturbed' = disturbed \/ disturbed' = TRUE
      /\ meddling' \in 0..MaxMeddling
    BY ProvisioningAssumption
       DEF TypeOK, Started, Manages, Stopped, Fails, StartedByOthers, command
<1>2. /\ proc.state \in {"stopped", "starting", "running", "stopping"}
      /\ proc.image \in Versions /\ proc.exit \in {0, 1}
      /\ reg # None => reg.image \in Versions
    BY DEF TypeOK, Registry
<1>3. /\ pending' \subseteq Journals /\ corrupt \subseteq pending'
      /\ proc' \in [state : {"stopped", "starting", "running", "stopping"},
                    image : Versions, exit : {0, 1}]
      /\ proc'.state # "stopped" => reg # None
      /\ ExitOK'
      /\ \/ proc'.state = proc.state /\ proc'.image = proc.image
            /\ proc.state = "running" /\ UNCHANGED disturbed
         \/ /\ proc.state = "starting" /\ proc'.image = proc.image
            /\ proc'.state \in {"running", "stopped"}
            /\ pending' \subseteq pending /\ UNCHANGED disturbed
         \/ /\ proc.state = "stopping" /\ proc'.state = "stopped"
            /\ pending' \subseteq pending /\ UNCHANGED disturbed
         \/ disturbed'
    <2>1. CASE Started
        <3>1. /\ proc.state = "starting"
              /\ \/ proc' = [state |-> "running", image |-> proc.image,
                            exit |-> proc.exit] /\ pending' = pending
                 \/ /\ proc' = [state |-> "stopped", image |-> proc.image,
                               exit |-> 1]
                    /\ pending' \subseteq pending /\ corrupt \subseteq pending'
              /\ disturbed' = disturbed
            BY <2>1 DEF Started, TypeOK
        <3> QED BY <1>2, <3>1 DEF TypeOK, ExitOK
    <2>2. CASE Manages
        BY <1>2, <2>2 DEF Manages, TypeOK, ExitOK
    <2>3. CASE Stopped
        <3>1. Exit(pending') \in {0, 1} /\ (Exit(pending') = 0 => pending' = {})
            BY DEF Exit
        <3> QED BY <1>2, <2>3, <3>1 DEF Stopped, TypeOK, ExitOK
    <2>4. CASE Fails
        <3>1. /\ proc.state = "running"
              /\ proc' = [state |-> "stopped", image |-> proc.image, exit |-> 1]
              /\ pending' \subseteq pending /\ corrupt \subseteq pending'
              /\ disturbed'
            BY <2>4 DEF Fails, TypeOK
        <3> QED BY <1>2, <3>1 DEF TypeOK, ExitOK
    <2>5. CASE StartedByOthers
        <3>1. reg # None /\ proc' = [state |-> "starting", image |-> reg.image,
                                     exit |-> 0] /\ pending' = pending
              /\ disturbed'
            BY <2>5 DEF StartedByOthers, Startable, Starting
        <3> QED BY <1>2, <3>1 DEF TypeOK, ExitOK
    <2> QED BY <2>1, <2>2, <2>3, <2>4, <2>5
<1>4. TypeOK'
    BY <1>1, <1>3 DEF TypeOK
<1>5. ASSUME task # None, ~ disturbed', ~ Stops(task)
      PROVE  ServiceOK(task, ToDo(task), proc', pending')
    <2>1. ServiceOK(task, ToDo(task), proc, pending) /\ PlanOK(task)
        BY <1>1, <1>5 DEF ProvisionInv, CommandOK
    <2>2. CASE proc'.state = proc.state /\ proc'.image = proc.image
               /\ proc.state = "running"
        BY <2>1, <2>2 DEF ServiceOK
    <2>3. CASE /\ proc.state = "starting" /\ proc'.image = proc.image
               /\ proc'.state \in {"running", "stopped"}
        BY <2>1, <2>3 DEF ServiceOK
    <2>4. CASE proc.state = "stopping"
        BY <2>1, <2>4 DEF ServiceOK
    <2> QED BY <1>3, <1>5, <2>2, <2>3, <2>4
<1>6. CommandOK'
    BY <1>1, <1>5 DEF ProvisionInv, CommandOK
<1> QED BY <1>1, <1>3, <1>4, <1>6 DEF ProvisionInv

\* A provisioning that has not looked at the registration yet.
LEMMA NotOpened ==
    ASSUME NEW t, Provisions(t), t.origin = "none", PlanOK(t)
    PROVE  Head(t.todo) \in {"open", "capture"}
<1>1. t.todo = <<"open">> \/ t.todo = <<"capture", "change">> \o Settings(t)
    BY DEF PlanOK
<1>2. Settings(t) \in Seq(Steps)
    <2>1. CASE t.start
        BY <2>1 DEF Settings, Steps
    <2>2. CASE ~ t.start
        BY <2>2 DEF Settings, Steps
    <2> QED BY <2>1, <2>2
<1>3. Head(<<"capture", "change">> \o Settings(t)) = "capture"
    <2> DEFINE a == <<"capture", "change">>
               b == Settings(t)
    <2>1. a \in Seq(Steps) /\ Len(a) = 2 /\ a[1] = "capture"
        BY DEF Steps
    <2>2. b \in Seq(Steps) /\ Len(b) \in Nat
        BY <1>2
    <2> HIDE DEF a, b
    <2>3. a \o b \in Seq(Steps) /\ Len(a \o b) = 2 + Len(b)
          /\ (a \o b)[1] = "capture"
        <3>1. /\ a \o b \in Seq(Steps) /\ Len(a \o b) = Len(a) + Len(b)
              /\ \A i \in 1 .. Len(a) + Len(b) :
                    (a \o b)[i] = IF i <= Len(a) THEN a[i] ELSE b[i - Len(a)]
            BY <2>1, <2>2, ConcatProperties
        <3>2. 1 \in 1 .. Len(a) + Len(b) /\ 1 <= Len(a)
            BY <2>1, <2>2
        <3> QED BY <2>1, <3>1, <3>2
    <2>4. Head(a \o b) = "capture"
        BY <2>2, <2>3
    <2> QED BY <2>4 DEF a, b
<1> QED BY <1>1, <1>3

\* A registration goes when nothing but its going is ahead.
LEMMA VanishStep ==
    ASSUME TypeOK, ProvisionInv, Vanishes
    PROVE  /\ TypeOK' /\ ProvisionInv' /\ UNCHANGED <<task, outcome>>
           /\ reg # None /\ reg = Doom(reg) /\ reg' = None
<1>1. /\ UNCHANGED <<proc, pending, corrupt, task, outcome, commands,
                     disturbed, faults, meddling>>
      /\ reg # None /\ reg.doomed /\ reg' = None /\ proc.state = "stopped"
      /\ task # None => task.todo = <<"absent">>
    BY DEF Vanishes, service, command
<1>2. TypeOK'
    BY <1>1 DEF TypeOK
<1>3. reg = Doom(reg)
    <2>1. reg \in Registry /\ reg.doomed = TRUE
        BY <1>1 DEF TypeOK, Registry
    <2> QED BY <2>1 DEF Registry, Doom
<1>4. ASSUME task # None PROVE StandingOK(task, ToDo(task), None)
    <2>1. /\ PlanOK(task) /\ OriginOK(task) /\ StandingOK(task, ToDo(task), reg)
          /\ task \in Tasks
        BY <1>4 DEF ProvisionInv, CommandOK, TypeOK
    <2>2. ToDo(task) = {"absent"} /\ Head(task.todo) = "absent"
        BY <1>1, <1>4 DEF ToDo, Range
    <2>3. Provisions(task) => task.origin # "none"
        BY <2>1, <2>2, NotOpened
    <2>4. ~ Changing(task) /\ ~ Restoring(task)
        BY <2>1, <2>2 DEF PlanOK, Settable, Fields
    <2>5. task.op \notin {"start", "stop"}
        BY <2>1, <2>2 DEF PlanOK
    <2>6. task.origin # "none" => Removing(task)
        BY <2>1, <2>4 DEF Changing, Restoring, Removing, Tasks
    <2>7. task.origin = "none" => task.op = "uninstall"
        BY <2>1, <2>3, <2>5 DEF Tasks, Provisions
    <2>8. task.op = "uninstall" => task.before # None /\ "delete" \notin ToDo(task)
        BY <2>1, <2>2 DEF PlanOK
    <2> QED BY <2>2, <2>4, <2>6, <2>7, <2>8
            DEF StandingOK, Calls, Fields
<1>5. ProvisionInv'
    BY <1>1, <1>4 DEF ProvisionInv, ExitOK, CommandOK
<1> QED BY <1>1, <1>2, <1>3, <1>5

LEMMA NewTaskTyped ==
    ASSUME TypeOK, NEW todo \in Seq(Steps), NEW start \in BOOLEAN,
           NEW op \in {"provision", "register", "uninstall", "start", "stop"}
    PROVE  LET t == NewTask(op, todo, start)
           IN  /\ t \in Tasks /\ t.op = op /\ t.todo = todo /\ t.before = reg
               /\ t.origin = "none" /\ ~ t.recovering /\ ~ t.failed
               /\ t.held = {} /\ t.captured = None
BY DEF NewTask, Tasks, TypeOK

\* A command starts with its plan and the registration there is.
LEMMA BeginStep ==
    ASSUME TypeOK, ProvisionInv, Begin
    PROVE  /\ TypeOK' /\ ProvisionInv' /\ UNCHANGED <<reg, outcome>>
           /\ task = None /\ task' # None /\ task'.before = reg
<1>1. /\ UNCHANGED <<reg, proc, pending, corrupt, outcome, faults, meddling>>
      /\ task = None /\ ~ disturbed' /\ disturbed' \in BOOLEAN
      /\ commands' \in 0..MaxCommands
    <2>1. /\ UNCHANGED <<reg, proc, pending, corrupt, outcome, faults, meddling>>
          /\ task = None /\ disturbed' = FALSE
          /\ commands' = commands + 1 /\ commands < MaxCommands
        BY DEF Begin, service
    <2>2. commands \in 0..MaxCommands /\ MaxCommands \in Nat
        BY ProvisioningAssumption DEF TypeOK
    <2>3. commands' \in 0..MaxCommands
        BY <2>1, <2>2
    <2>4. ~ disturbed' /\ disturbed' \in BOOLEAN
        BY <2>1
    <2> QED BY <2>1, <2>3, <2>4
<1> SUFFICES /\ task' \in Tasks /\ task'.todo # <<>> /\ task'.before = reg
             /\ PlanOK(task') /\ OriginOK(task')
             /\ StandingOK(task', ToDo(task'), reg) /\ task'.held = {}
             /\ ServiceOK(task', ToDo(task'), proc, pending)
    <2>1. ASSUME task' \in Tasks PROVE task' # None
        BY <2>1, ProvisioningAssumption
    <2> QED BY <1>1, <2>1 DEF TypeOK, ProvisionInv, ExitOK, CommandOK
<1>2. ASSUME NEW t \in Tasks, t.origin = "none", ~ t.recovering, ~ t.failed
      PROVE  OriginOK(t) /\ ~ Changing(t) /\ ~ Removing(t) /\ ~ Restoring(t)
    BY <1>2 DEF OriginOK, Changing, Removing, Restoring
<1>3. ASSUME NEW op \in {"provision", "register"}, NEW start \in BOOLEAN,
             task' = NewTask(op, <<"open">>, start)
      PROVE  /\ task' \in Tasks /\ task'.todo # <<>> /\ task'.before = reg
             /\ PlanOK(task') /\ OriginOK(task')
             /\ StandingOK(task', ToDo(task'), reg) /\ task'.held = {}
             /\ ServiceOK(task', ToDo(task'), proc, pending)
    <2> DEFINE t == task'
               todo == <<"open">>
    <2>1. todo \in Seq(Steps) /\ todo # <<>>
        BY DEF Steps
    <2> HIDE DEF todo
    <2> HIDE DEF t
    <2>2. /\ t \in Tasks /\ t.op = op /\ t.todo = todo /\ t.before = reg
          /\ t.origin = "none" /\ ~ t.recovering /\ ~ t.failed /\ t.held = {}
        <3>1. t = NewTask(op, todo, start)
            BY <1>3 DEF todo, t
        <3> QED BY <2>1, <3>1, NewTaskTyped
    <2>3. ToDo(t) = {"open"}
        BY <2>2 DEF ToDo, Range, todo
    <2>4. OriginOK(t) /\ ~ Changing(t) /\ ~ Removing(t) /\ ~ Restoring(t)
        BY <1>2, <2>2
    <2>5. PlanOK(t)
        BY <2>2, <2>3, <2>4 DEF PlanOK, todo
    <2>6. StandingOK(t, ToDo(t), reg)
        BY <2>2, <2>3, <2>4 DEF StandingOK, Calls, Fields
    <2>7. ServiceOK(t, ToDo(t), proc, pending)
        BY <2>2, <2>4 DEF ServiceOK
    <2> QED BY <2>1, <2>2, <2>4, <2>5, <2>6, <2>7 DEF t
<1>4. CASE task' = NewTask("uninstall",
                    IF reg = None THEN <<"load", "placement", "background">>
                    ELSE <<"stopped", "load", "placement", "background",
                           "delete", "absent">>, FALSE)
    <2> DEFINE t == task'
               todo == IF reg = None THEN <<"load", "placement", "background">>
                       ELSE <<"stopped", "load", "placement", "background",
                              "delete", "absent">>
    <2>1. CASE reg = None
        <3>1. todo = <<"load", "placement", "background">>
            BY <2>1
        <3> HIDE DEF todo
        <3>2. todo \in Seq(Steps) /\ todo # <<>>
            BY <3>1 DEF Steps, Journals
        <3>3. /\ t \in Tasks /\ t.op = "uninstall" /\ t.todo = todo
              /\ t.before = reg
              /\ t.origin = "none" /\ ~ t.recovering /\ ~ t.failed
              /\ t.held = {}
            BY <1>4, <3>2, NewTaskTyped DEF todo
        <3>4. /\ ToDo(t) = {"load", "placement", "background"}
              /\ Ahead(t, "stopped", "load") /\ Ahead(t, "load", "placement")
              /\ Ahead(t, "placement", "background")
            BY <3>1, <3>3 DEF ToDo, Range, Ahead
        <3>5. OriginOK(t) /\ ~ Changing(t) /\ ~ Removing(t) /\ ~ Restoring(t)
            BY <1>2, <3>3
        <3>6. PlanOK(t)
            BY <2>1, <3>3, <3>4, <3>5 DEF PlanOK, Provisions
        <3>7. StandingOK(t, ToDo(t), reg)
            BY <2>1, <3>3, <3>4, <3>5 DEF StandingOK, Calls, Fields
        <3>8. proc.state = "stopped"
            BY <2>1 DEF TypeOK
        <3>9. ServiceOK(t, ToDo(t), proc, pending)
            BY <3>3, <3>4, <3>5, <3>8 DEF ServiceOK
        <3> QED BY <3>2, <3>3, <3>5, <3>6, <3>7, <3>9
    <2>2. CASE reg # None
        <3>1. todo = <<"stopped", "load", "placement", "background", "delete",
                       "absent">>
            BY <2>2
        <3> HIDE DEF todo
        <3>2. todo \in Seq(Steps) /\ todo # <<>>
            BY <3>1 DEF Steps, Journals
        <3>3. /\ t \in Tasks /\ t.op = "uninstall" /\ t.todo = todo
              /\ t.before = reg
              /\ t.origin = "none" /\ ~ t.recovering /\ ~ t.failed
              /\ t.held = {}
            BY <1>4, <3>2, NewTaskTyped DEF todo
        <3>4. /\ ToDo(t) = {"stopped", "load", "placement", "background",
                            "delete", "absent"}
              /\ Ahead(t, "stopped", "load") /\ Ahead(t, "load", "placement")
              /\ Ahead(t, "placement", "background") /\ Final(t) = "absent"
            BY <3>1, <3>3 DEF ToDo, Range, Ahead, Final
        <3>5. OriginOK(t) /\ ~ Changing(t) /\ ~ Removing(t) /\ ~ Restoring(t)
            BY <1>2, <3>3
        <3>6. PlanOK(t)
            BY <2>2, <3>3, <3>4, <3>5 DEF PlanOK, Provisions
        <3>7. StandingOK(t, ToDo(t), reg)
            BY <2>2, <3>3, <3>4, <3>5 DEF StandingOK, Calls, Fields
        <3>8. ServiceOK(t, ToDo(t), proc, pending)
            BY <3>3, <3>4, <3>5 DEF ServiceOK
        <3> QED BY <3>2, <3>3, <3>5, <3>6, <3>7, <3>8
    <2> QED BY <2>1, <2>2
<1>5. CASE task' = NewTask("start", <<"running">>, FALSE)
    <2> DEFINE t == task'
               todo == <<"running">>
    <2>1. todo \in Seq(Steps) /\ todo # <<>>
        BY DEF Steps
    <2> HIDE DEF todo
    <2>2. /\ t \in Tasks /\ t.op = "start" /\ t.todo = todo /\ t.before = reg
          /\ t.origin = "none" /\ ~ t.recovering /\ ~ t.failed /\ t.held = {}
        BY <1>5, <2>1, NewTaskTyped DEF todo
    <2>3. ToDo(t) = {"running"}
        BY <2>2 DEF ToDo, Range, todo
    <2>4. OriginOK(t) /\ ~ Changing(t) /\ ~ Removing(t) /\ ~ Restoring(t)
        BY <1>2, <2>2
    <2>5. PlanOK(t)
        BY <2>2, <2>3, <2>4 DEF PlanOK, Provisions
    <2>6. StandingOK(t, ToDo(t), reg)
        BY <2>2, <2>3, <2>4 DEF StandingOK, Calls, Fields
    <2>7. ServiceOK(t, ToDo(t), proc, pending)
        BY <2>2, <2>4 DEF ServiceOK
    <2> QED BY <2>1, <2>2, <2>4, <2>5, <2>6, <2>7
<1>6. CASE task' = NewTask("stop", <<"stopped", "exit">>, FALSE)
    <2> DEFINE t == task'
               todo == <<"stopped", "exit">>
    <2>1. todo \in Seq(Steps) /\ todo # <<>>
        BY DEF Steps
    <2> HIDE DEF todo
    <2>2. /\ t \in Tasks /\ t.op = "stop" /\ t.todo = todo /\ t.before = reg
          /\ t.origin = "none" /\ ~ t.recovering /\ ~ t.failed /\ t.held = {}
        BY <1>6, <2>1, NewTaskTyped DEF todo
    <2>3. ToDo(t) = {"stopped", "exit"} /\ Final(t) = "exit"
        BY <2>2 DEF ToDo, Range, Final, todo
    <2>4. OriginOK(t) /\ ~ Changing(t) /\ ~ Removing(t) /\ ~ Restoring(t)
        BY <1>2, <2>2
    <2>5. PlanOK(t)
        BY <2>2, <2>3, <2>4 DEF PlanOK, Provisions
    <2>6. StandingOK(t, ToDo(t), reg)
        BY <2>2, <2>3, <2>4 DEF StandingOK, Calls, Fields
    <2>7. ServiceOK(t, ToDo(t), proc, pending)
        BY <2>2, <2>3, <2>4 DEF ServiceOK
    <2> QED BY <2>1, <2>2, <2>4, <2>5, <2>6, <2>7
<1> QED BY <1>3, <1>4, <1>5, <1>6 DEF Begin
-----------------------------------------------------------------------------
\* What a command under way may be about to do.
LEMMA StepPlace ==
    ASSUME TypeOK, ProvisionInv, task # None
    PROVE  /\ task \in Tasks /\ task.todo # <<>> /\ task.todo \in Seq(Steps)
           /\ PlanOK(task) /\ OriginOK(task)
           /\ StandingOK(task, ToDo(task), reg)
           /\ task.held # {} => corrupt = {}
           /\ disturbed \/ Stops(task)
                  \/ ServiceOK(task, ToDo(task), proc, pending)
           /\ Step \in ToDo(task)
           /\ \/ /\ Provisions(task) /\ task.origin = "none"
                 /\ ~ task.recovering /\ Step \in {"open", "capture"}
              \/ /\ Provisions(task) /\ task.origin # "none"
                 /\ \/ /\ Changing(task) /\ ~ Removing(task) /\ ~ Restoring(task)
                       /\ Step \in {"change", "running"} \cup Settable
                    \/ /\ Removing(task) /\ ~ Changing(task) /\ ~ Restoring(task)
                       /\ Step \in {"stopped", "delete", "absent"}
                    \/ /\ Restoring(task) /\ ~ Changing(task) /\ ~ Removing(task)
                       /\ Step \in {"stopped", "config", "demand", "running",
                                    "disabled"} \cup Settable
              \/ /\ ~ Provisions(task) /\ task.origin = "none"
                 /\ ~ task.recovering /\ ~ task.failed
                 /\ ~ Changing(task) /\ ~ Removing(task) /\ ~ Restoring(task)
                 /\ \/ task.op = "start" /\ Step = "running"
                    \/ task.op = "stop" /\ Step \in {"stopped", "exit"}
                    \/ /\ task.op = "uninstall"
                       /\ Step \in {"stopped", "load", "placement", "background",
                                    "delete", "absent"}
<1>1. /\ task \in Tasks /\ task.todo # <<>>
      /\ PlanOK(task) /\ OriginOK(task) /\ StandingOK(task, ToDo(task), reg)
      /\ task.held # {} => corrupt = {}
      /\ disturbed \/ Stops(task) \/ ServiceOK(task, ToDo(task), proc, pending)
    BY DEF TypeOK, ProvisionInv, CommandOK
<1>2. /\ task.todo \in Seq(Steps)
      /\ task.op \in {"provision", "register", "uninstall", "start", "stop"}
      /\ task.origin \in {"none", "existing", "created"}
      /\ task.recovering \in BOOLEAN /\ task.failed \in BOOLEAN
    BY <1>1 DEF Tasks
<1>3. Step \in ToDo(task)
    <2>1. 1 \in DOMAIN task.todo /\ Head(task.todo) = task.todo[1]
        BY <1>1, <1>2
    <2> QED BY <2>1 DEF ToDo, Range, Step
<1>4. CASE Provisions(task) /\ task.origin = "none"
    <2>1. Step \in {"open", "capture"}
        BY <1>1, <1>4, NotOpened DEF Step
    <2> QED BY <1>1, <1>2, <1>3, <1>4, <2>1 DEF OriginOK
<1>5. CASE Provisions(task) /\ task.origin # "none"
    <2>1. CASE ~ task.recovering
        <3>1. Changing(task) /\ ~ Removing(task) /\ ~ Restoring(task)
            BY <1>5, <2>1 DEF Changing, Removing, Restoring
        <3> QED BY <1>1, <1>2, <1>3, <1>5, <3>1 DEF PlanOK
    <2>2. CASE task.recovering /\ task.origin = "created"
        <3>1. Removing(task) /\ ~ Changing(task) /\ ~ Restoring(task)
            BY <1>5, <2>2 DEF Changing, Removing, Restoring
        <3> QED BY <1>1, <1>2, <1>3, <1>5, <3>1 DEF PlanOK
    <2>3. CASE task.recovering /\ task.origin = "existing"
        <3>1. Restoring(task) /\ ~ Changing(task) /\ ~ Removing(task)
            BY <1>5, <2>3 DEF Changing, Removing, Restoring
        <3> QED BY <1>1, <1>2, <1>3, <1>5, <3>1 DEF PlanOK
    <2> QED BY <1>2, <1>5, <2>1, <2>2, <2>3
<1>6. CASE ~ Provisions(task)
    <2>1. /\ task.origin = "none" /\ ~ task.recovering /\ ~ task.failed
          /\ task.op \in {"uninstall", "start", "stop"}
        BY <1>1, <1>2, <1>6 DEF OriginOK, Provisions
    <2>2. ~ Changing(task) /\ ~ Removing(task) /\ ~ Restoring(task)
        BY <2>1 DEF Changing, Removing, Restoring
    <2>3. \/ task.op = "start" /\ Step = "running"
          \/ task.op = "stop" /\ Step \in {"stopped", "exit"}
          \/ /\ task.op = "uninstall"
             /\ Step \in {"stopped", "load", "placement", "background",
                          "delete", "absent"}
        BY <1>1, <1>3, <2>1 DEF PlanOK
    <2> QED BY <1>1, <1>2, <1>3, <1>6, <2>1, <2>2, <2>3
<1> QED BY <1>4, <1>5, <1>6

\* The types after a step of a command.
LEMMA CommandTypes ==
    ASSUME TypeOK, ProvisionInv, task # None, Continued(task),
           reg' \in {None} \cup Registry,
           proc' \in [state : {"stopped", "starting", "running", "stopping"},
                      image : Versions, exit : {0, 1}],
           proc'.state # "stopped" => reg' # None, ExitOK',
           corrupt' \subseteq pending', pending' \subseteq Journals,
           UNCHANGED <<disturbed, meddling, commands>>, faults' \in 0..MaxFaults
    PROVE  TypeOK' /\ ProvisionInv'
<1>1. task.op \in {"provision", "register", "uninstall", "start", "stop"}
    BY DEF TypeOK, Tasks
<1>2. outcome' \in [op : {"provision", "register", "uninstall", "start", "stop",
                          "none"},
                    result : {"ok", "error", "recovery"}]
    <2>1. CASE task' # None
        BY <2>1 DEF Continued, TypeOK
    <2>2. CASE task' = None
        BY <1>1, <2>2 DEF Continued, Ended
    <2> QED BY <2>1, <2>2
<1> QED BY <1>2 DEF TypeOK, ProvisionInv, Continued

\* A call fails, or what it waits for does not come in time.
LEMMA FailureStep ==
    ASSUME TypeOK, ProvisionInv, CallFails \/ TimesOut
    PROVE  TypeOK' /\ ProvisionInv' /\ task # None /\ Continued(task)
<1>1. /\ UNCHANGED <<reg, proc, pending, corrupt, disturbed, meddling, commands>>
      /\ task # None /\ GiveUp
      /\ faults' = faults \/ (faults < MaxFaults /\ faults' = faults + 1)
    BY DEF CallFails, TimesOut, service, idle
<1>2. faults' \in 0..MaxFaults
    BY <1>1, ProvisioningAssumption DEF TypeOK
<1>3. Continued(task)
    BY <1>1, GaveUp
<1>4. ExitOK'
    BY <1>1 DEF ProvisionInv, ExitOK
<1> QED BY <1>1, <1>2, <1>3, <1>4, CommandTypes DEF TypeOK
-----------------------------------------------------------------------------
\* The same step goes on with its next call.
LEMMA CallMade ==
    ASSUME TypeOK, ProvisionInv, task # None,
           NEW call \in {"query", "act", "running", "stopped"},
           task' = [task EXCEPT !.call = call],
           UNCHANGED <<reg, corrupt, outcome>>,
           \/ disturbed' \/ Stops(task)
           \/ ServiceOK(task, ToDo(task), proc', pending')
    PROVE  Continued(task)
<1> DEFINE u == task'
<1>1. /\ task \in Tasks /\ task.todo # <<>>
      /\ PlanOK(task) /\ OriginOK(task) /\ StandingOK(task, ToDo(task), reg)
      /\ task.held # {} => corrupt = {}
    BY StepPlace
<1>2. u \in Tasks /\ u.todo = task.todo /\ SameCommand(task, u)
    BY <1>1 DEF Tasks, SameCommand
<1> HIDE DEF u
<1>3. /\ ToDo(u) = ToDo(task) /\ Final(u) = Final(task)
      /\ \A a, b : Ahead(u, a, b) = Ahead(task, a, b)
      /\ Settings(u) = Settings(task)
    BY <1>2 DEF ToDo, Final, Ahead, Settings, SameCommand
<1>4. /\ Provisions(u) = Provisions(task) /\ Changing(u) = Changing(task)
      /\ Removing(u) = Removing(task) /\ Restoring(u) = Restoring(task)
    BY <1>2 DEF SameCommand, Provisions, Changing, Removing, Restoring
<1>5. PlanOK(u)
    BY <1>1, <1>2, <1>3, <1>4 DEF PlanOK, SameCommand
<1>6. OriginOK(u)
    BY <1>1, <1>2, <1>4 DEF OriginOK, SameCommand
<1>7. StandingOK(u, ToDo(u), reg')
    BY <1>1, <1>2, <1>3, <1>4 DEF StandingOK, SameCommand
<1>8. Stops(task) => Stops(u)
    BY <1>2, <1>3, <1>4 DEF Stops, SameCommand
<1>9. ServiceOK(task, ToDo(task), proc', pending')
        => ServiceOK(u, ToDo(u), proc', pending')
    BY <1>2, <1>3, <1>4 DEF ServiceOK, SameCommand
<1>10. u # None
    BY <1>2, ProvisioningAssumption
<1> QED BY <1>1, <1>2, <1>5, <1>6, <1>7, <1>8, <1>9, <1>10
        DEF Continued, CommandOK, SameCommand, u

\* The plan of a provisioning that changes what there is.
LEMMA ChangePlanned ==
    ASSUME NEW t
    PROVE  LET q == <<"capture", "change">> \o Settings(t)
           IN  /\ q \in Seq(Steps) /\ Len(q) > 1 /\ Head(q) = "capture"
               /\ Range(Tail(q)) \subseteq {"change", "running"} \cup Settable
               /\ {"change"} \cup Settable \subseteq Range(Tail(q))
<1> DEFINE a == <<"capture", "change">>
           b == Settings(t)
           c == IF t.start THEN <<"capture", "change", "description", "actions",
                                  "flag", "acl", "running">>
                ELSE <<"capture", "change", "description", "actions", "flag",
                       "acl">>
<1>1. a \o b = c
    <2>1. CASE t.start
        <3>1. /\ b = <<"description", "actions", "flag", "acl", "running">>
              /\ c = <<"capture", "change", "description", "actions", "flag",
                       "acl", "running">>
            BY <2>1 DEF Settings
        <3> HIDE DEF b, c
        <3>2. /\ a \in Seq(Steps) /\ b \in Seq(Steps) /\ c \in Seq(Steps)
              /\ Len(a) = 2 /\ Len(b) = 5 /\ Len(c) = 7
              /\ \A i \in 1 .. 2 : c[i] = a[i]
              /\ \A i \in 1 .. 5 : c[i + 2] = b[i]
            BY <3>1 DEF Steps
        <3> HIDE DEF a
        <3>3. /\ Len(c) = Len(a) + Len(b)
              /\ \A i \in 1 .. Len(a) : c[i] = a[i]
              /\ \A i \in 1 .. Len(b) : c[i + Len(a)] = b[i]
            BY <3>2
        <3> QED BY <3>2, <3>3, Concatenated
    <2>2. CASE ~ t.start
        <3>1. /\ b = <<"description", "actions", "flag", "acl">>
              /\ c = <<"capture", "change", "description", "actions", "flag",
                       "acl">>
            BY <2>2 DEF Settings
        <3> HIDE DEF b, c
        <3>2. /\ a \in Seq(Steps) /\ b \in Seq(Steps) /\ c \in Seq(Steps)
              /\ Len(a) = 2 /\ Len(b) = 4 /\ Len(c) = 6
              /\ \A i \in 1 .. 2 : c[i] = a[i]
              /\ \A i \in 1 .. 4 : c[i + 2] = b[i]
            BY <3>1 DEF Steps
        <3> HIDE DEF a
        <3>3. /\ Len(c) = Len(a) + Len(b)
              /\ \A i \in 1 .. Len(a) : c[i] = a[i]
              /\ \A i \in 1 .. Len(b) : c[i + Len(a)] = b[i]
            BY <3>2
        <3> QED BY <3>2, <3>3, Concatenated
    <2> QED BY <2>1, <2>2
<1>2. /\ c \in Seq(Steps) /\ Len(c) > 1 /\ Head(c) = "capture"
      /\ Range(Tail(c)) \subseteq {"change", "running"} \cup Settable
      /\ {"change"} \cup Settable \subseteq Range(Tail(c))
    <2>1. CASE t.start
        <3>1. c = <<"capture", "change", "description", "actions", "flag",
                    "acl", "running">>
            BY <2>1
        <3> HIDE DEF c
        <3>2. Tail(c) = <<"change", "description", "actions", "flag", "acl",
                          "running">>
            BY <3>1
        <3> DEFINE r == Tail(c)
        <3> HIDE DEF r
        <3>3. Range(r) = {"change", "description", "actions", "flag",
                                "acl", "running"}
            <4>1. r = <<"change", "description", "actions", "flag", "acl",
                         "running">>
                BY <3>2 DEF r
            <4> QED BY <4>1 DEF Range
        <3>4. c \in Seq(Steps) /\ Len(c) > 1 /\ Head(c) = "capture"
            BY <3>1 DEF Steps
        <3> QED BY <3>3, <3>4 DEF Settable, Fields, r
    <2>2. CASE ~ t.start
        <3>1. c = <<"capture", "change", "description", "actions", "flag",
                    "acl">>
            BY <2>2
        <3> HIDE DEF c
        <3>2. Tail(c) = <<"change", "description", "actions", "flag", "acl">>
            BY <3>1
        <3> DEFINE r == Tail(c)
        <3> HIDE DEF r
        <3>3. Range(r) = {"change", "description", "actions", "flag",
                                "acl"}
            <4>1. r = <<"change", "description", "actions", "flag", "acl">>
                BY <3>2 DEF r
            <4> QED BY <4>1 DEF Range
        <3>4. c \in Seq(Steps) /\ Len(c) > 1 /\ Head(c) = "capture"
            BY <3>1 DEF Steps
        <3> QED BY <3>3, <3>4 DEF Settable, Fields, r
    <2> QED BY <2>1, <2>2
<1> HIDE DEF c
<1> QED BY <1>1, <1>2
-----------------------------------------------------------------------------
\* The settings of a new registration, in full.
LEMMA SettingsPlanned ==
    ASSUME NEW t
    PROVE  /\ Settings(t) \in Seq(Steps) /\ Settings(t) # <<>>
           /\ Range(Settings(t)) \subseteq {"change", "running"} \cup Settable
           /\ Settable \subseteq Range(Settings(t))
<1> DEFINE q == Settings(t)
<1>1. CASE t.start
    <2>1. q = <<"description", "actions", "flag", "acl", "running">>
        BY <1>1 DEF Settings
    <2> HIDE DEF q
    <2>2. /\ q \in Seq(Steps) /\ q # <<>>
          /\ Range(q) = {"description", "actions", "flag", "acl", "running"}
        BY <2>1 DEF Range, Steps
    <2> QED BY <2>2 DEF Settable, Fields, q
<1>2. CASE ~ t.start
    <2>1. q = <<"description", "actions", "flag", "acl">>
        BY <1>2 DEF Settings
    <2> HIDE DEF q
    <2>2. /\ q \in Seq(Steps) /\ q # <<>>
          /\ Range(q) = {"description", "actions", "flag", "acl"}
        BY <2>1 DEF Range, Steps
    <2> QED BY <2>2 DEF Settable, Fields, q
<1> QED BY <1>1, <1>2

\* Opening finds a registration that may be changed, makes one, or refuses.
LEMMA OpenStep ==
    ASSUME TypeOK, ProvisionInv, Open
    PROVE  TypeOK' /\ ProvisionInv' /\ task # None /\ Continued(task)
<1>1. /\ task # None /\ Step = "open" /\ task.call = "query"
      /\ UNCHANGED <<proc, pending, corrupt, disturbed, faults, meddling,
                     commands>>
    BY DEF Open, idle, service
<1>2. /\ task \in Tasks /\ OriginOK(task) /\ StandingOK(task, ToDo(task), reg)
      /\ task.held # {} => corrupt = {}
      /\ Provisions(task) /\ task.origin = "none" /\ ~ task.recovering
    BY <1>1, StepPlace DEF Settable, Fields
<1>3. ~ task.failed /\ task.op # "uninstall" /\ reg = task.before
    BY <1>2 DEF OriginOK, StandingOK, Provisions
<1>4. CASE /\ task.op = "provision" /\ reg # None
           /\ task' = [task EXCEPT !.todo = <<"capture", "change">>
                                                \o Settings(task)]
           /\ UNCHANGED <<reg, outcome>>
    <2> DEFINE q == <<"capture", "change">> \o Settings(task)
               u == task'
    <2>1. q \in Seq(Steps) /\ Len(q) > 1
        BY ChangePlanned
    <2>2. q # <<>>
        BY <2>1
    <2>3. u = [task EXCEPT !.todo = q]
        BY <1>4
    <2> HIDE DEF q, u
    <2>4. /\ u \in Tasks /\ u.todo = q /\ SameCommand(task, u)
        BY <1>2, <2>1, <2>3 DEF Tasks, SameCommand
    <2>5. Settings(u) = Settings(task)
        BY <2>4 DEF Settings, SameCommand
    <2>6. /\ Provisions(u) /\ u.origin = "none" /\ ~ u.recovering /\ ~ u.failed
          /\ u.op \notin {"start", "stop", "uninstall"}
          /\ ~ Changing(u) /\ ~ Removing(u) /\ ~ Restoring(u)
        BY <1>2, <1>3, <2>4
           DEF SameCommand, Provisions, Changing, Removing, Restoring
    <2>7. PlanOK(u)
        BY <2>4, <2>5, <2>6 DEF PlanOK, q
    <2>8. OriginOK(u)
        BY <2>6 DEF OriginOK
    <2>9. StandingOK(u, ToDo(u), reg)
        BY <1>3, <1>4, <2>4, <2>6 DEF StandingOK, SameCommand
    <2>10. ServiceOK(u, ToDo(u), proc, pending)
        BY <2>6 DEF ServiceOK
    <2>11. u # None
        BY <2>4, ProvisioningAssumption
    <2>12. Continued(task)
        BY <1>1, <1>2, <1>4, <2>2, <2>4, <2>7, <2>8, <2>9, <2>10, <2>11
           DEF Continued, CommandOK, SameCommand, u
    <2> QED BY <1>1, <1>4, <2>12, CommandTypes DEF TypeOK, ProvisionInv, ExitOK
<1>5. CASE /\ reg = None
           /\ reg' = [Registered("unset", "auto") EXCEPT !.image = "new"]
           /\ task' = [task EXCEPT !.todo = Settings(task),
                                   !.origin = "created"]
           /\ UNCHANGED outcome
    <2> DEFINE q == Settings(task)
               u == task'
    <2>1. /\ reg' \in Registry /\ reg'.image = "new" /\ reg'.start = "auto"
          /\ ~ reg'.doomed
        BY <1>5 DEF Registered, Registry, Versions, StartTypes
    <2>2. reg' # None
        BY <2>1, ProvisioningAssumption
    <2>3. /\ q \in Seq(Steps) /\ q # <<>>
          /\ Range(q) \subseteq {"change", "running"} \cup Settable
          /\ Settable \subseteq Range(q)
        BY SettingsPlanned
    <2>4. u = [task EXCEPT !.todo = q, !.origin = "created"]
        BY <1>5
    <2> HIDE DEF q, u
    <2>5. /\ u \in Tasks /\ u.todo = q /\ u.op = task.op
          /\ u.before = task.before /\ u.origin = "created"
          /\ u.recovering = task.recovering /\ u.failed = task.failed
          /\ u.held = task.held
        BY <1>2, <2>3, <2>4 DEF Tasks
    <2>6. /\ Provisions(u) /\ ~ u.recovering /\ ~ u.failed
          /\ u.op \notin {"start", "stop", "uninstall"}
          /\ Changing(u) /\ ~ Removing(u) /\ ~ Restoring(u)
        BY <1>2, <1>3, <2>5
           DEF Provisions, Changing, Removing, Restoring
    <2>7. ToDo(u) \subseteq {"change", "running"} \cup Settable
          /\ Settable \subseteq ToDo(u)
        BY <2>3, <2>5 DEF ToDo
    <2>8. PlanOK(u)
        BY <2>5, <2>6, <2>7 DEF PlanOK
    <2>9. OriginOK(u)
        BY <1>3, <1>5, <2>5, <2>6 DEF OriginOK
    <2>10. StandingOK(u, ToDo(u), reg')
        BY <2>1, <2>2, <2>5, <2>6, <2>7 DEF StandingOK
    <2>11. ServiceOK(u, ToDo(u), proc, pending)
        BY <2>6 DEF ServiceOK
    <2>12. u # None
        BY <2>5, ProvisioningAssumption
    <2>13. Continued(task)
        BY <1>1, <1>2, <1>5, <2>3, <2>5, <2>8, <2>9, <2>10, <2>11, <2>12
           DEF Continued, CommandOK, u
    <2> QED BY <1>1, <2>1, <2>2, <2>13, CommandTypes
            DEF TypeOK, ProvisionInv, ExitOK
<1>6. CASE Finish("error") /\ UNCHANGED reg
    <2>1. task' = None /\ outcome' = [op |-> task.op, result |-> "error"]
        BY <1>6 DEF Finish
    <2>2. Ended(task, reg', proc', pending')
        BY <1>2, <1>3, <1>6, <2>1 DEF Ended
    <2>3. Continued(task)
        BY <2>1, <2>2 DEF Continued, CommandOK
    <2> QED BY <1>1, <1>6, <2>3, CommandTypes DEF TypeOK, ProvisionInv, ExitOK
<1> QED BY <1>4, <1>5, <1>6 DEF Open

\* What is captured is the registration that was found and the state the
\* service was in.
LEMMA CaptureStep ==
    ASSUME TypeOK, ProvisionInv, Capture
    PROVE  TypeOK' /\ ProvisionInv' /\ task # None /\ Continued(task)
<1>1. /\ task # None /\ Step = "capture"
      /\ UNCHANGED <<reg, proc, pending, corrupt, disturbed, faults, meddling,
                     commands>>
    BY DEF Capture, idle, service
<1>2. /\ task \in Tasks /\ OriginOK(task) /\ StandingOK(task, ToDo(task), reg)
      /\ PlanOK(task)
      /\ task.held # {} => corrupt = {}
      /\ disturbed \/ Stops(task) \/ ServiceOK(task, ToDo(task), proc, pending)
      /\ Provisions(task) /\ task.origin = "none" /\ ~ task.recovering
    BY <1>1, StepPlace DEF Settable, Fields
<1> DEFINE q == <<"capture", "change">> \o Settings(task)
<1>3. /\ q \in Seq(Steps) /\ Len(q) > 1 /\ Head(q) = "capture"
      /\ Range(Tail(q)) \subseteq {"change", "running"} \cup Settable
      /\ {"change"} \cup Settable \subseteq Range(Tail(q))
    BY ChangePlanned
<1>4. task.todo = q
    <2>1. task.todo # <<"open">>
        BY <1>1 DEF Step
    <2> HIDE DEF q
    <2>2. task.todo \in {<<"open">>, q}
        BY <1>2 DEF PlanOK, q
    <2> QED BY <2>1, <2>2
<1> HIDE DEF q
<1>5. /\ Tail(q) \in Seq(Steps) /\ Tail(q) # <<>>
      /\ Range(q) = {Head(q)} \cup Range(Tail(q))
    BY <1>3, StepDone
<1>6. ~ task.failed /\ task.op # "uninstall" /\ reg = task.before
      /\ reg # None /\ reg \in Registry
    <2>1. "change" \in ToDo(task)
        BY <1>3, <1>4, <1>5 DEF ToDo
    <2> QED BY <1>2, <2>1
            DEF OriginOK, StandingOK, Provisions, Calls, TypeOK
<1>7. CASE /\ \/ task.call = "query" /\ proc.state \in {"running", "stopped"}
              \/ task.call = proc.state
           /\ GoOn([task EXCEPT !.captured = reg, !.state = proc.state,
                                !.origin = "existing"])
    <2> DEFINE t == [task EXCEPT !.captured = reg, !.state = proc.state,
                                 !.origin = "existing"]
               u == task'
    <2>1. proc.state \in {"running", "stopped"}
        BY <1>2, <1>7 DEF Tasks, TypeOK
    <2>2. /\ t \in Tasks /\ t.todo = q /\ t.op = task.op
          /\ t.before = task.before /\ t.origin = "existing"
          /\ t.captured = reg
          /\ t.recovering = task.recovering /\ t.failed = task.failed
          /\ t.held = task.held
        BY <1>2, <1>4, <1>6, <2>1 DEF Tasks
    <2>3. GoOn(t)
        BY <1>7
    <2> HIDE DEF t
    <2>4. u = Doing(t, Tail(q), "query") /\ UNCHANGED outcome
        BY <1>3, <2>2, <2>3 DEF GoOn, Doing
    <2>5. u \in Tasks /\ u.todo = Tail(q) /\ SameCommand(t, u)
        BY <1>5, <2>2, <2>4, DoingTask
    <2> HIDE DEF u
    <2>6. /\ Provisions(u) /\ ~ u.recovering /\ ~ u.failed
          /\ u.origin = "existing" /\ u.captured = reg /\ u.before = reg
          /\ u.op \notin {"start", "stop", "uninstall"} /\ u.held = task.held
          /\ Changing(u) /\ ~ Removing(u) /\ ~ Restoring(u)
        BY <1>2, <1>6, <2>2, <2>5
           DEF SameCommand, Provisions, Changing, Removing, Restoring
    <2>7. /\ ToDo(u) \subseteq {"change", "running"} \cup Settable
          /\ {"change"} \cup Settable \subseteq ToDo(u)
        BY <1>3, <2>5 DEF ToDo
    <2>8. PlanOK(u)
        BY <2>6, <2>7 DEF PlanOK
    <2>9. OriginOK(u)
        BY <1>6, <2>6 DEF OriginOK
    <2>10. StandingOK(u, ToDo(u), reg)
        BY <1>6, <2>6, <2>7 DEF StandingOK
    <2>11. ServiceOK(u, ToDo(u), proc, pending)
        BY <2>6 DEF ServiceOK
    <2>12. u # None
        BY <2>5, ProvisioningAssumption
    <2>13. Continued(task)
        BY <1>1, <1>2, <1>5, <1>6, <2>4, <2>5, <2>6, <2>8, <2>9, <2>10, <2>11,
           <2>12 DEF Continued, CommandOK, u
    <2> QED BY <1>1, <2>13, CommandTypes DEF TypeOK, ProvisionInv, ExitOK
<1>8. CASE /\ task.call = "query" /\ proc.state \in {"starting", "stopping"}
           /\ task' = [task EXCEPT !.call = IF proc.state = "starting"
                                            THEN "running" ELSE "stopped"]
           /\ UNCHANGED outcome
    <2> DEFINE c == IF proc.state = "starting" THEN "running" ELSE "stopped"
    <2>1. task' = [task EXCEPT !.call = c]
          /\ c \in {"query", "act", "running", "stopped"}
        BY <1>8
    <2> HIDE DEF c
    <2>2. Continued(task)
        BY <1>1, <1>2, <1>8, <2>1, CallMade
    <2> QED BY <1>1, <2>2, CommandTypes DEF TypeOK, ProvisionInv, ExitOK
<1> QED BY <1>7, <1>8 DEF Capture
-----------------------------------------------------------------------------
\* A step that says nothing of the service leaves what is known of it.
LEMMA ServiceKept ==
    ASSUME NEW t, NEW ahead, NEW p, NEW j,
           ToDo(t) = {Head(t.todo)} \cup ahead,
           Head(t.todo) \notin {"stopped", "exit", "load", "placement",
                                "background", "config", "running"},
           ServiceOK(t, ToDo(t), p, j)
    PROVE  ServiceOK(t, ahead, p, j)
<1>1. /\ "stopped" \in ahead <=> "stopped" \in ToDo(t)
      /\ "exit" \in ahead <=> "exit" \in ToDo(t)
      /\ "load" \in ahead <=> "load" \in ToDo(t)
      /\ "placement" \in ahead <=> "placement" \in ToDo(t)
      /\ "background" \in ahead <=> "background" \in ToDo(t)
      /\ "config" \in ahead <=> "config" \in ToDo(t)
      /\ "running" \in ahead <=> "running" \in ToDo(t)
    OBVIOUS
<1> QED BY <1>1 DEF ServiceOK

\* A step that says nothing of the registration leaves how far it is.
LEMMA StandingKept ==
    ASSUME NEW t, NEW ahead, NEW r,
           ToDo(t) = {Head(t.todo)} \cup ahead,
           Head(t.todo) \notin Calls, StandingOK(t, ToDo(t), r)
    PROVE  StandingOK(t, ahead, r)
<1>1. /\ ahead \cap Calls = ToDo(t) \cap Calls
      /\ Settable \ ahead = Settable \ ToDo(t)
      /\ "change" \in ahead <=> "change" \in ToDo(t)
      /\ "config" \in ahead <=> "config" \in ToDo(t)
      /\ "disabled" \in ahead <=> "disabled" \in ToDo(t)
    BY DEF Calls, Settable
<1>2. ahead \cap {"config", "disabled"} = ToDo(t) \cap {"config", "disabled"}
    BY <1>1
<1> QED BY <1>1, <1>2 DEF StandingOK

\* The last step is ahead until it is taken.
LEMMA FinalAhead ==
    ASSUME NEW t, t.todo \in Seq(Steps), t.todo # <<>>
    PROVE  Final(t) \in ToDo(t)
<1>1. Len(t.todo) \in DOMAIN t.todo
    OBVIOUS
<1> QED BY <1>1 DEF Final, ToDo, Range

\* A write of the change that a provisioning makes.
LEMMA ChangeWritten ==
    ASSUME NEW t \in Tasks, NEW r \in Registry, NEW s, Changing(t), OriginOK(t),
           ~ r.doomed, NEW ahead, ToDo(t) = {Head(t.todo)} \cup ahead,
           StandingOK(t, ToDo(t), r),
           \/ /\ Head(t.todo) = "change"
              /\ s = [r EXCEPT !.image = "new", !.start = "auto"]
           \/ /\ Head(t.todo) \in Settable
              /\ s = [r EXCEPT ![Head(t.todo)] = "new"]
    PROVE  s \in Registry /\ StandingOK(t, ahead, s)
<1>1. /\ \A f \in Settable \ ToDo(t) : r[f] = "new"
      /\ "change" \notin ToDo(t) =>
            r.image = "new" /\ r.start = "auto" /\ ~ r.doomed
      /\ t.origin = "existing" => /\ r.doomed = t.captured.doomed
                                  /\ r.start \in {t.captured.start, "auto"}
    BY DEF StandingOK
<1>2. /\ t.origin # "none" /\ t.op # "uninstall" /\ ~ Removing(t)
      /\ ~ Restoring(t) /\ t.recovering = FALSE
    BY DEF Changing, OriginOK, Provisions, Removing, Restoring, Tasks
<1>3. CASE /\ Head(t.todo) = "change"
           /\ s = [r EXCEPT !.image = "new", !.start = "auto"]
    <2>1. /\ s \in Registry /\ s.image = "new" /\ s.start = "auto" /\ ~ s.doomed
          /\ s.doomed = r.doomed /\ \A f \in Settable : s[f] = r[f]
        BY <1>3 DEF Registry, Versions, StartTypes, Settable, Fields
    <2>2. Settable \ ahead = Settable \ ToDo(t)
        BY <1>3 DEF Settable, Fields
    <2>3. s # None
        BY <2>1, ProvisioningAssumption
    <2>4. /\ \A f \in Settable \ ahead : s[f] = "new"
          /\ t.origin = "existing" => /\ s.doomed = t.captured.doomed
                                      /\ s.start \in {t.captured.start, "auto"}
        BY <1>1, <2>1, <2>2
    <2> QED BY <1>2, <2>1, <2>3, <2>4 DEF StandingOK
<1>4. CASE /\ Head(t.todo) \in Settable
           /\ s = [r EXCEPT ![Head(t.todo)] = "new"]
    <2>1. /\ s \in Registry /\ s.image = r.image /\ s.start = r.start
          /\ s.doomed = r.doomed
          /\ \A f \in Settable :
                s[f] = IF f = Head(t.todo) THEN "new" ELSE r[f]
        BY <1>4 DEF Registry, Versions, Settable, Fields
    <2>2. \A f \in Settable \ ahead : f = Head(t.todo) \/ f \notin ToDo(t)
        OBVIOUS
    <2>3. "change" \in ahead <=> "change" \in ToDo(t)
        BY <1>4 DEF Settable, Fields
    <2>4. s # None
        BY <2>1, ProvisioningAssumption
    <2>5. /\ \A f \in Settable \ ahead : s[f] = "new"
          /\ "change" \notin ahead =>
                s.image = "new" /\ s.start = "auto" /\ ~ s.doomed
          /\ t.origin = "existing" => /\ s.doomed = t.captured.doomed
                                      /\ s.start \in {t.captured.start, "auto"}
        BY <1>1, <2>1, <2>2, <2>3
    <2> QED BY <1>2, <2>1, <2>4, <2>5 DEF StandingOK
<1> QED BY <1>3, <1>4

\* A write of the recovery.
LEMMA RestorationWritten ==
    ASSUME NEW t \in Tasks, NEW r \in Registry, NEW s, Restoring(t), OriginOK(t),
           NEW ahead, ToDo(t) = {Head(t.todo)} \cup ahead,
           StandingOK(t, ToDo(t), r), t.captured \in Registry,
           Head(t.todo) \in {"demand", "disabled"}
                => t.captured.start = "disabled",
           Head(t.todo) = "demand" => "disabled" \in ToDo(t),
           \/ /\ Head(t.todo) = "config"
              /\ s = [r EXCEPT !.image = t.captured.image,
                               !.start = IF t.captured.start # "auto"
                                         THEN t.captured.start ELSE @]
           \/ /\ Head(t.todo) \in {"demand", "disabled"}
              /\ s = [r EXCEPT !.start = Head(t.todo)]
           \/ /\ Head(t.todo) \in Settable
              /\ s = [r EXCEPT ![Head(t.todo)] = t.captured[Head(t.todo)]]
    PROVE  s \in Registry /\ StandingOK(t, ahead, s)
<1>1. t.failed \/
      /\ r.doomed = t.captured.doomed
      /\ \A f \in Settable \ ToDo(t) : r[f] = t.captured[f]
      /\ "config" \notin ToDo(t) => r.image = t.captured.image
      /\ t.captured.start = "auto" => r.start = "auto"
      /\ ToDo(t) \cap {"config", "disabled"} = {}
                => r.start = t.captured.start
    BY DEF StandingOK
<1>2. /\ t.origin # "none" /\ t.op # "uninstall" /\ ~ Removing(t)
      /\ ~ Changing(t)
    BY DEF Changing, OriginOK, Provisions, Removing, Restoring
<1>3. /\ t.captured.image \in Versions /\ t.captured.start \in StartTypes
      /\ \A f \in Settable : t.captured[f] \in Versions
    BY DEF Registry, Settable, Fields
<1> SUFFICES /\ s \in Registry
             /\ t.failed \/
                /\ s.doomed = t.captured.doomed
                /\ \A f \in Settable \ ahead : s[f] = t.captured[f]
                /\ "config" \notin ahead => s.image = t.captured.image
                /\ t.captured.start = "auto" => s.start = "auto"
                /\ ahead \cap {"config", "disabled"} = {}
                        => s.start = t.captured.start
    <2>1. ASSUME s \in Registry PROVE s # None
        BY <2>1, ProvisioningAssumption
    <2> QED BY <1>2, <2>1 DEF StandingOK
<1>4. CASE /\ Head(t.todo) = "config"
           /\ s = [r EXCEPT !.image = t.captured.image,
                            !.start = IF t.captured.start # "auto"
                                      THEN t.captured.start ELSE @]
    <2>1. /\ s \in Registry /\ s.image = t.captured.image
          /\ s.start = IF t.captured.start # "auto" THEN t.captured.start
                       ELSE r.start
          /\ s.doomed = r.doomed /\ \A f \in Settable : s[f] = r[f]
        BY <1>3, <1>4 DEF Registry, Settable, Fields
    <2>2. Settable \ ahead = Settable \ ToDo(t)
        BY <1>4 DEF Settable, Fields
    <2> QED BY <1>1, <2>1, <2>2
<1>5. CASE /\ Head(t.todo) \in {"demand", "disabled"}
           /\ s = [r EXCEPT !.start = Head(t.todo)]
    <2>1. /\ s \in Registry /\ s.image = r.image /\ s.start = Head(t.todo)
          /\ s.doomed = r.doomed /\ \A f \in Settable : s[f] = r[f]
        BY <1>5 DEF Registry, StartTypes, Settable, Fields
    <2>2. /\ Settable \ ahead = Settable \ ToDo(t)
          /\ "config" \in ahead <=> "config" \in ToDo(t)
        BY <1>5 DEF Settable, Fields
    <2>3. ahead \cap {"config", "disabled"} = {} => s.start = t.captured.start
        BY <1>5, <2>1
    <2>4. t.captured.start # "auto"
        BY <1>5
    <2> QED BY <1>1, <2>1, <2>2, <2>3, <2>4
<1>6. CASE /\ Head(t.todo) \in Settable
           /\ s = [r EXCEPT ![Head(t.todo)] = t.captured[Head(t.todo)]]
    <2>1. /\ s \in Registry /\ s.image = r.image /\ s.start = r.start
          /\ s.doomed = r.doomed
          /\ \A f \in Settable :
                s[f] = IF f = Head(t.todo) THEN t.captured[f] ELSE r[f]
        BY <1>3, <1>6 DEF Registry, Settable, Fields
    <2>2. \A f \in Settable \ ahead : f = Head(t.todo) \/ f \notin ToDo(t)
        OBVIOUS
    <2>3. /\ "config" \in ahead <=> "config" \in ToDo(t)
          /\ ahead \cap {"config", "disabled"}
                = ToDo(t) \cap {"config", "disabled"}
        BY <1>6 DEF Settable, Fields
    <2> QED BY <1>1, <2>1, <2>2, <2>3
<1> QED BY <1>4, <1>5, <1>6

\* A write to the registration is refused when it is marked for deletion, and
\* is otherwise the step it was.
LEMMA WritesStep ==
    ASSUME TypeOK, ProvisionInv, Writes
    PROVE  TypeOK' /\ ProvisionInv' /\ task # None /\ Continued(task)
<1>1. /\ task # None /\ Step \in Calls
      /\ UNCHANGED <<proc, pending, corrupt, disturbed, faults, meddling,
                     commands>>
    BY DEF Writes, idle, service
<1>2. /\ task \in Tasks /\ task.todo # <<>> /\ task.todo \in Seq(Steps)
      /\ PlanOK(task) /\ OriginOK(task) /\ StandingOK(task, ToDo(task), reg)
      /\ task.held # {} => corrupt = {}
      /\ disturbed \/ Stops(task) \/ ServiceOK(task, ToDo(task), proc, pending)
      /\ Step \in ToDo(task)
    BY <1>1, StepPlace
<1>3. /\ \/ /\ Changing(task) /\ ~ Removing(task) /\ ~ Restoring(task)
            /\ Step \in {"change"} \cup Settable
         \/ /\ Removing(task) /\ ~ Changing(task) /\ ~ Restoring(task)
            /\ Step = "delete"
         \/ /\ Restoring(task) /\ ~ Changing(task) /\ ~ Removing(task)
            /\ Step \in {"config", "demand", "disabled"} \cup Settable
         \/ /\ task.op = "uninstall" /\ task.origin = "none" /\ Step = "delete"
            /\ ~ Changing(task) /\ ~ Removing(task) /\ ~ Restoring(task)
      /\ Provisions(task) => task.origin # "none"
    BY <1>1, StepPlace DEF Calls, Settable, Fields, Provisions
<1>4. reg # None /\ reg \in Registry
    BY <1>1, <1>2 DEF StandingOK, TypeOK
<1>5. Step = Head(task.todo)
    BY DEF Step
<1>6. CASE (reg.doomed /\ Step # "delete") /\ GiveUp /\ UNCHANGED reg
    <2>1. Continued(task)
        BY <1>1, <1>6, GaveUp
    <2> QED BY <1>1, <1>6, <2>1, CommandTypes DEF TypeOK, ProvisionInv, ExitOK
<1>7. CASE /\ ~ (reg.doomed /\ Step # "delete") /\ GoOn(task)
           /\ reg' =
                CASE Step = "change" ->
                        [reg EXCEPT !.image = "new", !.start = "auto"]
                  [] Step = "config" -> ConfigRestored(task)
                  [] Step \in {"demand", "disabled"} ->
                        [reg EXCEPT !.start = Step]
                  [] Step = "delete" -> Doom(reg)
                  [] OTHER ->
                        [reg EXCEPT ![Step] = IF task.recovering
                                              THEN task.captured[Step]
                                              ELSE "new"]
    <2>1. ASSUME NEW ahead, ToDo(task) = {Step} \cup ahead
          PROVE  reg' \in Registry /\ StandingOK(task, ahead, reg')
        <3>1. CASE Changing(task) /\ Step \in {"change"} \cup Settable
            <4>1. ~ reg.doomed /\ task.recovering = FALSE
                BY <1>2, <1>7, <3>1 DEF Settable, Fields, Changing, Tasks
            <4>2. \/ /\ Step = "change"
                     /\ reg' = [reg EXCEPT !.image = "new", !.start = "auto"]
                  \/ Step \in Settable /\ reg' = [reg EXCEPT ![Step] = "new"]
                BY <1>7, <3>1, <4>1 DEF Settable, Fields
            <4> QED BY <1>2, <1>4, <1>5, <2>1, <3>1, <4>1, <4>2, ChangeWritten
        <3>2. CASE Removing(task) /\ Step = "delete"
            <4>1. reg' = Doom(reg)
                BY <1>7, <3>2
            <4>2. reg' \in Registry
                BY <1>4, <4>1 DEF Doom, Registry
            <4>3. reg' # None
                BY <4>2, ProvisioningAssumption
            <4>4. /\ ~ Changing(task) /\ ~ Restoring(task)
                  /\ task.origin # "none" /\ task.op # "uninstall"
                BY <1>2, <3>2
                   DEF Changing, Restoring, Removing, OriginOK, Provisions
            <4> QED BY <3>2, <4>2, <4>3, <4>4 DEF StandingOK
        <3>3. CASE /\ Restoring(task)
                   /\ Step \in {"config", "demand", "disabled"} \cup Settable
            <4>1. task.captured \in Registry /\ task.recovering = TRUE
                <5>1. /\ task.origin = "existing" /\ task.recovering
                      /\ task.captured \in {None} \cup Registry
                      /\ task.recovering \in BOOLEAN
                    BY <1>2, <3>3 DEF Restoring, Tasks
                <5> QED BY <1>2, <5>1 DEF OriginOK
            <4>2. \/ /\ Step = "config"
                     /\ reg' = [reg EXCEPT !.image = task.captured.image,
                                    !.start = IF task.captured.start # "auto"
                                              THEN task.captured.start ELSE @]
                  \/ /\ Step \in {"demand", "disabled"}
                     /\ reg' = [reg EXCEPT !.start = Step]
                  \/ /\ Step \in Settable
                     /\ reg' = [reg EXCEPT ![Step] = task.captured[Step]]
                <5>1. CASE Step = "config"
                    BY <1>7, <5>1 DEF ConfigRestored
                <5>2. CASE Step \in {"demand", "disabled"}
                    BY <1>7, <5>2
                <5>3. CASE Step \in Settable
                    BY <1>7, <4>1, <5>3 DEF Settable, Fields
                <5> QED BY <3>3, <5>1, <5>2, <5>3
            <4>3. /\ Step \in {"demand", "disabled"}
                        => task.captured.start = "disabled"
                  /\ Step = "demand" => "disabled" \in ToDo(task)
                BY <1>2, <3>3, FinalAhead DEF PlanOK
            <4> QED BY <1>2, <1>4, <1>5, <2>1, <3>3, <4>1, <4>2, <4>3,
                       RestorationWritten
        <3>4. CASE /\ task.op = "uninstall" /\ task.origin = "none"
                   /\ Step = "delete"
                   /\ ~ Changing(task) /\ ~ Removing(task) /\ ~ Restoring(task)
            <4>1. reg' = Doom(reg)
                BY <1>7, <3>4
            <4>2. reg' \in Registry
                BY <1>4, <4>1 DEF Doom, Registry
            <4>3. reg' # None
                BY <4>2, ProvisioningAssumption
            <4>4. task.before # None
                BY <1>2, <3>4 DEF PlanOK
            <4>5. reg \in {task.before, Doom(task.before)}
                BY <1>2, <1>4, <3>4, <4>4 DEF StandingOK
            <4>6. task.before \in Registry
                BY <1>2, <4>4 DEF Tasks
            <4>7. Doom(Doom(task.before)) = Doom(task.before)
                BY <4>6 DEF Doom, Registry
            <4> QED BY <3>4, <4>1, <4>2, <4>3, <4>4, <4>5, <4>7 DEF StandingOK
        <3> QED BY <1>3, <3>1, <3>2, <3>3, <3>4
    <2>2. ASSUME NEW ahead, ToDo(task) = {Step} \cup ahead, ~ disturbed'
          PROVE  ServiceOK(task, ahead, proc', pending')
        <3>1. ServiceOK(task, ToDo(task), proc', pending')
            BY <1>1, <1>2, <1>5, <2>2 DEF Stops, Calls, Fields
        <3>2. CASE Step # "config"
            <4>1. Step \notin {"stopped", "exit", "load", "placement",
                               "background", "config", "running"}
                BY <1>1, <3>2 DEF Calls, Fields
            <4> QED BY <1>5, <2>2, <3>1, <4>1, ServiceKept
        <3>3. CASE Step = "config"
            <4>1. Restoring(task) /\ task.op \notin {"stop", "uninstall"}
                BY <1>2, <1>3, <3>3
                   DEF Restoring, OriginOK, Provisions, Settable, Fields
            <4>2. "config" \in ToDo(task)
                BY <1>2, <3>3
            <4>3. "running" \in ahead <=> "running" \in ToDo(task)
                BY <2>2, <3>3
            <4> QED BY <3>1, <4>1, <4>2, <4>3 DEF ServiceOK
        <3> QED BY <3>2, <3>3
    <2>3. \E ahead : ToDo(task) = {Step} \cup ahead
        <3>1. ToDo(task) = {Step} \cup ToDo(task)
            BY <1>2
        <3> QED BY <3>1
    <2>4. reg' \in Registry
        BY <2>1, <2>3
    <2>5. reg' # None
        BY <2>4, ProvisioningAssumption
    <2>6. Step # "absent"
        BY <1>1 DEF Calls, Fields
    <2>7. \A ahead : ToDo(task) = {Head(task.todo)} \cup ahead =>
               /\ StandingOK(task, ahead, reg')
               /\ ~ disturbed' => ServiceOK(task, ahead, proc', pending')
        BY <1>5, <2>1, <2>2
    <2>8. task.held # {} => corrupt' = {}
        BY <1>1, <1>2
    <2>9. GoOn(task) /\ Head(task.todo) # "absent" /\ reg' \in {None} \cup Registry
        BY <1>5, <1>7, <2>4, <2>6
    <2>10. Continued(task)
        BY <1>2, <1>3, <2>7, <2>8, <2>9, StepTaken
    <2> QED BY <1>1, <2>4, <2>5, <2>10, CommandTypes
            DEF TypeOK, ProvisionInv, ExitOK
<1> QED BY <1>6, <1>7 DEF Writes
-----------------------------------------------------------------------------
\* The service is made to run or to stop.
LEMMA EnsuresStep ==
    ASSUME TypeOK, ProvisionInv, Ensures
    PROVE  TypeOK' /\ ProvisionInv' /\ task # None /\ Continued(task)
<1>1. /\ task # None /\ Step \in {"running", "stopped"}
      /\ UNCHANGED <<reg, pending, corrupt, disturbed, faults, meddling,
                     commands>>
    BY DEF Ensures
<1>2. /\ task \in Tasks /\ task.todo # <<>> /\ task.todo \in Seq(Steps)
      /\ PlanOK(task) /\ OriginOK(task) /\ StandingOK(task, ToDo(task), reg)
      /\ task.held # {} => corrupt = {}
      /\ disturbed \/ Stops(task) \/ ServiceOK(task, ToDo(task), proc, pending)
      /\ Step \in ToDo(task)
    BY <1>1, StepPlace
<1>3. /\ Provisions(task) => task.origin # "none"
      /\ Step = "running" => task.op \notin {"stop", "uninstall"}
    BY <1>1, StepPlace DEF Provisions
<1>4. Step = Head(task.todo)
    BY DEF Step
<1>5. /\ task.state \in {"running", "stopped"}
      /\ Restoring(task) => task.op \notin {"stop", "uninstall"}
    BY <1>2 DEF Tasks, Restoring, OriginOK, Provisions
<1>6. CASE proc.state = Step /\ GoOn(task) /\ UNCHANGED proc
    <2>1. ASSUME NEW ahead, ToDo(task) = {Step} \cup ahead
          PROVE  StandingOK(task, ahead, reg')
        <3>1. Step \notin Calls
            BY <1>1 DEF Calls, Fields
        <3>2. StandingOK(task, ahead, reg)
            BY <1>2, <1>4, <2>1, <3>1, StandingKept
        <3> QED BY <1>1, <3>2
    <2>2. ASSUME NEW ahead, ToDo(task) = {Step} \cup ahead, ~ disturbed'
          PROVE  ServiceOK(task, ahead, proc', pending')
        <3>1. Stops(task) \/ ServiceOK(task, ToDo(task), proc, pending)
            BY <1>1, <1>2, <2>2
        <3>2. CASE Step = "stopped"
            <4>1. task.op = "stop" => "exit" \in ahead
                <5>1. task.op = "stop" => "exit" \in ToDo(task)
                    BY <1>2, FinalAhead DEF PlanOK
                <5> QED BY <2>2, <3>2, <5>1
            <4>2. task.op = "uninstall" => "load" \in ahead
                <5>1. task.op = "uninstall" => "load" \in ToDo(task)
                    BY <1>2, <3>2 DEF PlanOK, Ahead
                <5> QED BY <2>2, <3>2, <5>1
            <4>3. Restoring(task) /\ ~ task.failed /\ task.state = "running"
                    => "running" \in ahead
                <5>1. ASSUME Restoring(task), ~ task.failed,
                             task.state = "running"
                      PROVE  "running" \in ToDo(task)
                    <6>1. CASE Stops(task)
                        BY <1>2, <5>1, <6>1 DEF Stops, PlanOK, Ahead
                    <6>2. CASE ServiceOK(task, ToDo(task), proc, pending)
                        BY <1>6, <3>2, <5>1, <6>2 DEF ServiceOK
                    <6> QED BY <3>1, <6>1, <6>2
                <5> QED BY <2>2, <3>2, <5>1
            <4>4. proc'.state = "stopped"
                BY <1>6, <3>2
            <4> QED BY <1>5, <4>1, <4>2, <4>3, <4>4 DEF ServiceOK
        <3>3. CASE Step = "running"
            <4>1. ServiceOK(task, ToDo(task), proc, pending)
                BY <1>4, <3>1, <3>3 DEF Stops
            <4>2. proc'.state = "running" /\ proc' = proc
                BY <1>6, <3>3
            <4>3. "config" \in ahead <=> "config" \in ToDo(task)
                BY <2>2, <3>3
            <4> QED BY <1>3, <3>3, <4>1, <4>2, <4>3 DEF ServiceOK
        <3> QED BY <1>1, <3>2, <3>3
    <2>3. \A ahead : ToDo(task) = {Head(task.todo)} \cup ahead =>
               /\ StandingOK(task, ahead, reg')
               /\ ~ disturbed' => ServiceOK(task, ahead, proc', pending')
        BY <1>4, <2>1, <2>2
    <2>4. /\ reg' \in {None} \cup Registry /\ Head(task.todo) # "absent"
          /\ task.held # {} => corrupt' = {}
        BY <1>1, <1>2, <1>4 DEF TypeOK
    <2>5. Continued(task)
        BY <1>2, <1>3, <1>6, <2>3, <2>4, StepTaken
    <2> QED BY <1>1, <1>6, <2>5, CommandTypes DEF TypeOK, ProvisionInv, ExitOK
<1>7. ASSUME NEW c \in {"query", "act", "running", "stopped"},
             task' = [task EXCEPT !.call = c], UNCHANGED <<proc, outcome>>
      PROVE  TypeOK' /\ ProvisionInv' /\ task # None /\ Continued(task)
    <2>1. Continued(task)
        BY <1>1, <1>2, <1>7, CallMade
    <2> QED BY <1>1, <1>7, <2>1, CommandTypes DEF TypeOK, ProvisionInv, ExitOK
<1>8. CASE /\ Step = "running" /\ Startable /\ proc' = Starting
           /\ task' = [task EXCEPT !.call = "running"] /\ UNCHANGED outcome
    <2>1. /\ reg # None /\ reg \in Registry
          /\ proc' = [state |-> "starting", image |-> reg.image, exit |-> 0]
        BY <1>8 DEF Startable, Starting, TypeOK
    <2>2. reg.image \in Versions
        BY <2>1 DEF Registry
    <2>3. ASSUME ~ disturbed'
          PROVE  ServiceOK(task, ToDo(task), proc', pending')
        <3>1. ASSUME Restoring(task), ~ task.failed
              PROVE  /\ "config" \notin ToDo(task) /\ task.state = "running"
                     /\ reg.image = task.captured.image
            <4>1. task.state = "running"
                BY <1>2, <1>5, <1>8, <3>1 DEF PlanOK
            <4>2. Ahead(task, "config", Head(task.todo))
                BY <1>2, <1>4, <1>8, <3>1, <4>1 DEF PlanOK
            <4>3. "config" \notin ToDo(task)
                BY <1>2, <4>2, AheadOfHead
            <4> QED BY <1>2, <3>1, <4>1, <4>3 DEF StandingOK
        <3>2. "running" \in ToDo(task)
            BY <1>2, <1>8
        <3> QED BY <1>3, <1>8, <2>1, <3>1, <3>2 DEF ServiceOK
    <2>4. Continued(task)
        BY <1>1, <1>8, <2>3, CallMade
    <2>5. /\ proc' \in [state : {"stopped", "starting", "running", "stopping"},
                        image : Versions, exit : {0, 1}]
          /\ proc'.state # "stopped" => reg' # None
          /\ ExitOK'
        BY <1>1, <2>1, <2>2 DEF ExitOK
    <2> QED BY <1>1, <2>4, <2>5, CommandTypes DEF TypeOK
<1>9. CASE /\ Step = "stopped" /\ proc.state = "running"
           /\ proc' = [proc EXCEPT !.state = "stopping"]
           /\ task' = [task EXCEPT !.call = "stopped"] /\ UNCHANGED outcome
    <2>1. /\ proc'.state = "stopping" /\ reg # None
          /\ proc' \in [state : {"stopped", "starting", "running", "stopping"},
                        image : Versions, exit : {0, 1}]
        BY <1>9 DEF TypeOK
    <2>2. ASSUME ~ disturbed', ~ Stops(task)
          PROVE  ServiceOK(task, ToDo(task), proc', pending')
        <3>1. ServiceOK(task, ToDo(task), proc, pending)
            BY <1>1, <1>2, <2>2
        <3>2. "stopped" \in ToDo(task)
            BY <1>2, <1>9
        <3>3. ~ (Restoring(task) /\ ~ task.failed)
            <4> SUFFICES ASSUME Restoring(task), ~ task.failed PROVE FALSE
                OBVIOUS
            <4>1. "config" \notin ToDo(task) /\ task.state = "running"
                BY <1>9, <3>1 DEF ServiceOK
            <4> QED BY <1>2, <3>2, <4>1 DEF PlanOK, Ahead
        <3> QED BY <3>2, <3>3 DEF ServiceOK
    <2>3. Continued(task)
        BY <1>1, <1>9, <2>2, CallMade
    <2>4. ExitOK'
        BY <2>1 DEF ExitOK
    <2> QED BY <1>1, <2>1, <2>3, <2>4, CommandTypes DEF TypeOK
<1>10. CASE GiveUp /\ UNCHANGED proc
    <2>1. Continued(task)
        BY <1>1, <1>10, GaveUp
    <2> QED BY <1>1, <1>10, <2>1, CommandTypes DEF TypeOK, ProvisionInv, ExitOK
<1> QED BY <1>6, <1>7, <1>8, <1>9, <1>10 DEF Ensures

\* A step after which what is known is what was known before.
LEMMA PlainStep ==
    ASSUME TypeOK, ProvisionInv, task # None, GoOn(task),
           Step \in {"exit", "absent"}, Step = "absent" => reg = None,
           Step = "exit" => proc.exit = 0,
           UNCHANGED <<reg, proc, pending, corrupt, disturbed, faults, meddling,
                       commands>>
    PROVE  TypeOK' /\ ProvisionInv' /\ Continued(task)
<1>1. /\ task \in Tasks /\ task.todo # <<>> /\ task.todo \in Seq(Steps)
      /\ PlanOK(task) /\ OriginOK(task) /\ StandingOK(task, ToDo(task), reg)
      /\ task.held # {} => corrupt = {}
      /\ disturbed \/ Stops(task) \/ ServiceOK(task, ToDo(task), proc, pending)
    BY StepPlace
<1>2. /\ Provisions(task) => task.origin # "none"
      /\ Step = "exit" => task.op = "stop" /\ task.origin = "none"
    BY StepPlace DEF Provisions, Settable, Fields
<1>3. Step = Head(task.todo) /\ Step \notin Calls /\ ~ Stops(task)
    BY DEF Step, Calls, Fields, Stops
<1>4. ASSUME NEW ahead, ToDo(task) = {Step} \cup ahead
      PROVE  /\ StandingOK(task, ahead, reg')
             /\ ~ disturbed' => ServiceOK(task, ahead, proc', pending')
    <2>1. StandingOK(task, ahead, reg)
        BY <1>1, <1>3, <1>4, StandingKept
    <2>2. ASSUME ~ disturbed
          PROVE  ServiceOK(task, ahead, proc, pending)
        <3>1. ServiceOK(task, ToDo(task), proc, pending)
            BY <1>1, <1>3, <2>2
        <3>2. CASE Step = "absent"
            BY <1>3, <1>4, <3>1, <3>2, ServiceKept
        <3>3. CASE Step = "exit"
            <4>1. task.op = "stop" /\ ~ Restoring(task)
                BY <1>2, <3>3 DEF Restoring
            <4>2. "stopped" \in ahead <=> "stopped" \in ToDo(task)
                BY <1>4, <3>3
            <4>3. proc.state = "stopped" => pending = {}
                BY <3>3 DEF ProvisionInv, ExitOK
            <4> QED BY <3>1, <4>1, <4>2, <4>3 DEF ServiceOK
        <3> QED BY <3>2, <3>3
    <2> QED BY <2>1, <2>2
<1>5. task.held # {} => corrupt' = {}
    BY <1>1
<1>6. \A ahead : ToDo(task) = {Head(task.todo)} \cup ahead =>
           /\ StandingOK(task, ahead, reg')
           /\ ~ disturbed' => ServiceOK(task, ahead, proc', pending')
    BY <1>3, <1>4
<1>7. reg' \in {None} \cup Registry /\ (Head(task.todo) = "absent" => reg' = None)
    BY <1>3 DEF TypeOK
<1>8. Continued(task)
    BY <1>1, <1>2, <1>5, <1>6, <1>7, StepTaken
<1> QED BY <1>8, CommandTypes DEF TypeOK, ProvisionInv, ExitOK

LEMMA AbsentStep ==
    ASSUME TypeOK, ProvisionInv, Absent
    PROVE  TypeOK' /\ ProvisionInv' /\ task # None /\ Continued(task)
BY PlainStep DEF Absent, idle, service

\* A stop that reads an exit code of 0 knows that nothing is pending.
LEMMA ExitCodeStep ==
    ASSUME TypeOK, ProvisionInv, ExitCode
    PROVE  TypeOK' /\ ProvisionInv' /\ task # None /\ Continued(task)
<1>1. /\ task # None /\ Step = "exit"
      /\ UNCHANGED <<reg, proc, pending, corrupt, disturbed, faults, meddling,
                     commands>>
    BY DEF ExitCode, idle, service
<1>2. CASE proc.exit = 0 /\ GoOn(task)
    BY <1>1, <1>2, PlainStep
<1>3. CASE Finish("error")
    <2>1. task' = None /\ outcome' = [op |-> task.op, result |-> "error"]
        BY <1>3 DEF Finish
    <2>2. /\ task.op = "stop" /\ task.origin = "none"
          /\ StandingOK(task, ToDo(task), reg)
        BY <1>1, StepPlace DEF Settable, Fields
    <2>3. Ended(task, reg', proc', pending')
        BY <1>1, <2>1, <2>2 DEF Ended, StandingOK, Provisions
    <2>4. Continued(task)
        BY <2>1, <2>3 DEF Continued, CommandOK
    <2> QED BY <1>1, <2>4, CommandTypes DEF TypeOK, ProvisionInv, ExitOK
<1> QED BY <1>2, <1>3 DEF ExitCode
-----------------------------------------------------------------------------
\* An uninstall that notes what it has loaded and what is left.
LEMMA Noted ==
    ASSUME NEW t \in Tasks, NEW held \in SUBSET Journals,
           NEW left \in SUBSET Journals, t.op = "uninstall",
           PlanOK(t), OriginOK(t)
    PROVE  LET u == [t EXCEPT !.held = held, !.left = left]
           IN  /\ u \in Tasks /\ u.todo = t.todo /\ u.op = "uninstall"
               /\ u.held = held /\ u.left = left /\ u.before = t.before
               /\ u.origin = "none" /\ t.origin = "none"
               /\ ToDo(u) = ToDo(t) /\ PlanOK(u) /\ OriginOK(u)
               /\ \A ahead, r : StandingOK(t, ahead, r) => StandingOK(u, ahead, r)
               /\ ~ Restoring(u)
<1> DEFINE u == [t EXCEPT !.held = held, !.left = left]
<1>1. /\ u \in Tasks /\ u.todo = t.todo /\ u.op = t.op /\ u.held = held
      /\ u.left = left /\ u.before = t.before /\ u.origin = t.origin
      /\ u.recovering = t.recovering /\ u.failed = t.failed
    BY DEF Tasks
<1> HIDE DEF u
<1>2. t.origin = "none" /\ ~ Provisions(u) /\ ~ Provisions(t)
    BY <1>1 DEF OriginOK, Provisions, Tasks
<1>3. /\ ToDo(u) = ToDo(t) /\ Final(u) = Final(t)
      /\ \A a, b : Ahead(u, a, b) = Ahead(t, a, b)
    BY <1>1 DEF ToDo, Final, Ahead
<1>4. /\ ~ Changing(u) /\ ~ Removing(u) /\ ~ Restoring(u)
      /\ ~ Changing(t) /\ ~ Removing(t) /\ ~ Restoring(t)
    BY <1>1, <1>2 DEF Changing, Removing, Restoring
<1>5. PlanOK(u)
    BY <1>1, <1>2, <1>3, <1>4 DEF PlanOK
<1>6. OriginOK(u)
    BY <1>1, <1>2 DEF OriginOK
<1>7. \A ahead, r : StandingOK(t, ahead, r) => StandingOK(u, ahead, r)
    BY <1>1, <1>2, <1>4 DEF StandingOK
<1> QED BY <1>1, <1>2, <1>3, <1>4, <1>5, <1>6, <1>7 DEF u

\* A step of the cleanup: what the journals are left with and what is noted.
LEMMA CleanupTaken ==
    ASSUME TypeOK, ProvisionInv, task # None, task.op = "uninstall",
           Step \in {"load", "placement", "background"},
           NEW held \in SUBSET Journals, NEW left \in SUBSET Journals,
           GoOn([task EXCEPT !.held = held, !.left = left]),
           held # {} => corrupt = {},
           UNCHANGED <<reg, proc, corrupt, disturbed, faults, meddling, commands>>,
           corrupt \subseteq pending', pending' \subseteq pending,
           \A ahead : /\ ToDo(task) = {Step} \cup ahead /\ ~ disturbed
                      /\ "load" \notin ahead
                      /\ ServiceOK(task, ToDo(task), proc, pending)
               => /\ pending' \subseteq held
                  /\ "placement" \notin ahead
                        => pending' \cap {"placement"} \subseteq left
                  /\ "background" \notin ahead => pending' = {}
    PROVE  TypeOK' /\ ProvisionInv' /\ Continued(task)
<1>1. /\ task \in Tasks /\ task.todo # <<>> /\ task.todo \in Seq(Steps)
      /\ PlanOK(task) /\ OriginOK(task) /\ StandingOK(task, ToDo(task), reg)
      /\ disturbed \/ Stops(task) \/ ServiceOK(task, ToDo(task), proc, pending)
    BY StepPlace
<1>2. Step = Head(task.todo) /\ Step \notin Calls /\ ~ Stops(task)
      /\ Step # "absent"
    BY DEF Step, Calls, Fields, Stops
<1> DEFINE t == [task EXCEPT !.held = held, !.left = left]
<1>3. /\ t \in Tasks /\ t.todo = task.todo /\ t.op = "uninstall"
      /\ t.held = held /\ t.left = left /\ t.before = task.before
      /\ t.origin = "none" /\ task.origin = "none"
      /\ ToDo(t) = ToDo(task) /\ PlanOK(t) /\ OriginOK(t)
      /\ \A ahead, r : StandingOK(task, ahead, r) => StandingOK(t, ahead, r)
      /\ ~ Restoring(t)
    BY <1>1, Noted
<1>4. GoOn(t)
    OBVIOUS
<1> HIDE DEF t
<1>5. ASSUME NEW ahead, ToDo(t) = {Step} \cup ahead
      PROVE  /\ StandingOK(t, ahead, reg')
             /\ ~ disturbed' => ServiceOK(t, ahead, proc', pending')
    <2>1. StandingOK(task, ahead, reg)
        BY <1>1, <1>2, <1>3, <1>5, StandingKept
    <2>2. StandingOK(t, ahead, reg')
        BY <1>3, <2>1
    <2>3. ASSUME ~ disturbed
          PROVE  ServiceOK(t, ahead, proc, pending')
        <3>1. ServiceOK(task, ToDo(task), proc, pending)
            BY <1>1, <1>2, <2>3
        <3>2. "stopped" \notin ahead => proc.state = "stopped"
            <4>1. "stopped" \in ahead <=> "stopped" \in ToDo(task)
                BY <1>3, <1>5
            <4> QED BY <3>1, <4>1 DEF ServiceOK
        <3>3. "load" \notin ahead =>
                  /\ pending' \subseteq held
                  /\ "placement" \notin ahead
                        => pending' \cap {"placement"} \subseteq left
                  /\ "background" \notin ahead => pending' = {}
            BY <1>3, <1>5, <2>3, <3>1
        <3> QED BY <1>3, <3>2, <3>3 DEF ServiceOK
    <2> QED BY <2>2, <2>3
<1>6. \A ahead : ToDo(t) = {Head(t.todo)} \cup ahead =>
           /\ StandingOK(t, ahead, reg')
           /\ ~ disturbed' => ServiceOK(t, ahead, proc', pending')
    BY <1>2, <1>3, <1>5
<1>7. /\ t.todo # <<>> /\ task.op = t.op /\ ~ Provisions(t)
      /\ reg' \in {None} \cup Registry /\ Head(t.todo) # "absent"
      /\ t.held # {} => corrupt' = {}
    BY <1>1, <1>2, <1>3 DEF TypeOK, Provisions
<1>8. Continued(t)
    BY <1>3, <1>4, <1>6, <1>7, StepTaken
<1>9. Continued(task)
    BY <1>3, <1>8 DEF Continued, Ended, Provisions
<1>10. ExitOK' /\ pending' \subseteq Journals
    BY DEF ProvisionInv, ExitOK, TypeOK
<1> QED BY <1>9, <1>10, CommandTypes DEF TypeOK

\* An uninstall that refuses to go on has at most marked the registration.
LEMMA CleanupRefused ==
    ASSUME TypeOK, ProvisionInv, task # None, task.op = "uninstall",
           Finish("error"), pending' \subseteq pending,
           corrupt \subseteq pending',
           UNCHANGED <<reg, proc, corrupt, disturbed, faults, meddling, commands>>
    PROVE  TypeOK' /\ ProvisionInv' /\ Continued(task)
<1>1. task' = None /\ outcome' = [op |-> task.op, result |-> "error"]
    BY DEF Finish
<1>2. /\ task \in Tasks /\ OriginOK(task) /\ StandingOK(task, ToDo(task), reg)
    BY StepPlace
<1>3. task.origin = "none"
    BY <1>2 DEF OriginOK, Provisions, Tasks
<1>4. Ended(task, reg', proc', pending')
    BY <1>1, <1>2, <1>3 DEF Ended, StandingOK, Provisions
<1>5. Continued(task)
    BY <1>1, <1>4 DEF Continued, CommandOK
<1> QED BY <1>5, CommandTypes DEF TypeOK, ProvisionInv, ExitOK

LEMMA LoadStep ==
    ASSUME TypeOK, ProvisionInv, Load
    PROVE  TypeOK' /\ ProvisionInv' /\ task # None /\ Continued(task)
<1>1. /\ task # None /\ Step = "load"
      /\ UNCHANGED <<reg, proc, corrupt, disturbed, faults, meddling, commands>>
    BY DEF Load
<1>2. task \in Tasks /\ task.op = "uninstall" /\ PlanOK(task) /\ Step \in ToDo(task)
    BY <1>1, StepPlace DEF Settable, Fields
<1>3. CASE /\ corrupt = {} /\ pending' = pending
           /\ GoOn([task EXCEPT !.held = pending])
    <2>1. task.left \in SUBSET Journals /\ pending \in SUBSET Journals
        BY <1>2 DEF Tasks, TypeOK
    <2>2. [task EXCEPT !.held = pending]
            = [task EXCEPT !.held = pending, !.left = task.left]
        BY <1>2 DEF Tasks
    <2>3. GoOn([task EXCEPT !.held = pending, !.left = task.left])
        BY <1>3, <2>2
    <2>4. ASSUME NEW ahead, ToDo(task) = {Step} \cup ahead
          PROVE  "placement" \in ahead /\ "background" \in ahead
        <3>1. "placement" \in ToDo(task) /\ "background" \in ToDo(task)
            BY <1>1, <1>2 DEF PlanOK, Ahead
        <3> QED BY <1>1, <2>4, <3>1
    <2> QED BY <1>1, <1>2, <1>3, <2>1, <2>3, <2>4, CleanupTaken DEF TypeOK
<1>4. CASE /\ pending' \in IF corrupt = Journals THEN {pending}
                           ELSE {pending, corrupt}
           /\ Finish("error")
    <2>1. pending' \subseteq pending /\ corrupt \subseteq pending'
        BY <1>4 DEF TypeOK
    <2> QED BY <1>1, <1>2, <1>4, <2>1, CleanupRefused
<1> QED BY <1>3, <1>4 DEF Load

LEMMA CleanupStep ==
    ASSUME TypeOK, ProvisionInv, Cleanup
    PROVE  TypeOK' /\ ProvisionInv' /\ task # None /\ Continued(task)
<1>1. /\ task # None /\ Step \in Journals
      /\ UNCHANGED <<reg, proc, corrupt, disturbed, faults, meddling, commands>>
    BY DEF Cleanup
<1>2. /\ task \in Tasks /\ task.todo \in Seq(Steps) /\ task.todo # <<>>
      /\ task.op = "uninstall" /\ PlanOK(task) /\ Step \in ToDo(task)
      /\ task.held # {} => corrupt = {}
      /\ Step \in {"placement", "background"}
    BY <1>1, StepPlace DEF Settable, Fields, Journals
<1>3. PICK left \in SUBSET (task.held \cap {Step}) :
        /\ pending' = pending \ ((task.held \cap {Step}) \ left)
        /\ IF Step = "background" /\ Refuses(task.left \cup left)
           THEN Finish("error")
           ELSE GoOn([task EXCEPT !.left = @ \cup left])
    BY DEF Cleanup
<1>4. /\ pending' \subseteq pending /\ corrupt \subseteq pending'
      /\ task.held \in SUBSET Journals /\ task.left \cup left \in SUBSET Journals
    BY <1>2, <1>3 DEF Tasks, TypeOK
<1>5. CASE Finish("error")
    BY <1>1, <1>2, <1>4, <1>5, CleanupRefused
<1>6. CASE /\ ~ (Step = "background" /\ Refuses(task.left \cup left))
           /\ GoOn([task EXCEPT !.left = @ \cup left])
    <2>1. [task EXCEPT !.left = @ \cup left]
            = [task EXCEPT !.held = task.held, !.left = task.left \cup left]
        BY <1>2 DEF Tasks
    <2>2. GoOn([task EXCEPT !.held = task.held, !.left = task.left \cup left])
        BY <1>6, <2>1
    <2>3. ASSUME NEW ahead, ToDo(task) = {Step} \cup ahead, "load" \notin ahead,
                 ServiceOK(task, ToDo(task), proc, pending)
          PROVE  /\ pending' \subseteq task.held
                 /\ "placement" \notin ahead
                        => pending' \cap {"placement"} \subseteq task.left \cup left
                 /\ "background" \notin ahead => pending' = {}
        <3>1. "load" \notin ToDo(task) /\ "stopped" \notin ToDo(task)
            BY <1>2, <2>3 DEF PlanOK, Ahead
        <3>2. /\ pending \subseteq task.held
              /\ "placement" \notin ToDo(task)
                    => pending \cap {"placement"} \subseteq task.left
            BY <1>2, <2>3, <3>1 DEF ServiceOK
        <3>3. CASE Step = "placement"
            <4>1. "background" \in ahead
                <5>1. "background" \in ToDo(task)
                    BY <1>2, <3>3 DEF PlanOK, Ahead
                <5> QED BY <2>3, <3>3, <5>1
            <4>2. pending' \cap {"placement"} \subseteq left
                BY <1>3, <3>2, <3>3
            <4> QED BY <1>4, <3>2, <4>1, <4>2
        <3>4. CASE Step = "background"
            <4>1. Ahead(task, "placement", Head(task.todo))
                BY <1>2, <3>4 DEF PlanOK, Step
            <4>2. "placement" \notin ToDo(task)
                BY <1>2, <4>1, AheadOfHead
            <4>3. task.left \cup left = {}
                BY <1>6, <3>4 DEF Refuses
            <4>4. "placement" \notin pending
                BY <3>2, <4>2, <4>3
            <4>5. "background" \notin pending'
                BY <1>3, <3>2, <3>4, <4>3
            <4>6. pending' = {}
                BY <1>4, <4>4, <4>5 DEF TypeOK, Journals
            <4> QED BY <4>6
        <3> QED BY <1>2, <3>3, <3>4
    <2> QED BY <1>1, <1>2, <1>4, <2>2, <2>3, CleanupTaken
<1> QED BY <1>3, <1>5, <1>6
-----------------------------------------------------------------------------
LEMMA InitStep == Init => TypeOK /\ ProvisionInv
<1> SUFFICES ASSUME Init PROVE TypeOK /\ ProvisionInv
    OBVIOUS
<1>1. reg \in {None} \cup Registry
    <2>1. ASSUME NEW s \in Priors PROVE Registered("prior", s) \in Registry
        <3>1. s \in StartTypes
            BY ProvisioningAssumption
        <3> QED BY <3>1 DEF Registered, Registry, Versions
    <2>2. reg \in {None} \cup Registrations
        BY DEF Init
    <2> QED BY <2>1, <2>2 DEF Registrations
<1>2. /\ proc \in [state : {"stopped", "starting", "running", "stopping"},
                   image : Versions, exit : {0, 1}]
      /\ proc.state # "stopped" => reg # None
      /\ corrupt \subseteq pending /\ pending \subseteq Journals
    BY DEF Init, Versions
<1>3. /\ task = None /\ outcome = [op |-> "none", result |-> "ok"]
      /\ disturbed \in BOOLEAN /\ faults \in 0..MaxFaults
      /\ meddling \in 0..MaxMeddling /\ commands \in 0..MaxCommands
    <2>1. /\ MaxFaults \in Nat /\ MaxMeddling \in Nat /\ MaxCommands \in Nat
        BY ProvisioningAssumption
    <2>2. /\ task = None /\ outcome = [op |-> "none", result |-> "ok"]
          /\ disturbed = FALSE
          /\ faults = 0 /\ meddling = 0 /\ commands = 0
        BY DEF Init
    <2>3. \A n \in Nat : 0 \in 0..n
        OBVIOUS
    <2> QED BY <2>1, <2>2, <2>3
<1>4. ExitOK
    BY DEF Init, ExitOK
<1> QED BY <1>1, <1>2, <1>3, <1>4 DEF TypeOK, ProvisionInv, CommandOK

\* Every step of the program, and what it does to the command under way.
LEMMA EveryStep ==
    ASSUME TypeOK, ProvisionInv, [Next]_vars
    PROVE  /\ TypeOK' /\ ProvisionInv'
           /\ \/ UNCHANGED <<reg, task, outcome>>
              \/ /\ UNCHANGED <<task, outcome>>
                 /\ reg # None /\ reg = Doom(reg) /\ reg' = None
              \/ /\ UNCHANGED <<reg, outcome>>
                 /\ task = None /\ task' # None /\ task'.before = reg
              \/ task # None /\ Continued(task)
<1>1. CASE Started \/ Manages \/ Stopped \/ Fails \/ StartedByOthers
    BY <1>1, ServiceStep
<1>2. CASE Vanishes
    BY <1>2, VanishStep
<1>3. CASE Begin
    BY <1>3, BeginStep
<1>4. CASE CallFails \/ TimesOut
    BY <1>4, FailureStep
<1>5. CASE Open
    BY <1>5, OpenStep
<1>6. CASE Capture
    BY <1>6, CaptureStep
<1>7. CASE Writes
    BY <1>7, WritesStep
<1>8. CASE Ensures
    BY <1>8, EnsuresStep
<1>9. CASE Absent
    BY <1>9, AbsentStep
<1>10. CASE ExitCode
    BY <1>10, ExitCodeStep
<1>11. CASE Load
    BY <1>11, LoadStep
<1>12. CASE Cleanup
    BY <1>12, CleanupStep
<1>13. CASE UNCHANGED vars
    BY <1>13 DEF vars, TypeOK, ProvisionInv, ExitOK, CommandOK
<1> QED BY <1>1, <1>2, <1>3, <1>4, <1>5, <1>6, <1>7, <1>8, <1>9, <1>10, <1>11,
           <1>12, <1>13 DEF Next

\* A command ends with its promise, or goes on.
LEMMA CommandEnds ==
    ASSUME TypeOK, ProvisionInv, [Next]_vars, task # None, task' = None
    PROVE  Ended(task, reg', proc', pending')
BY EveryStep DEF Continued

\* Nobody starts the service in the step that ends a command.
LEMMA EndsUndisturbed ==
    ASSUME [Next]_vars, task # None, task' = None, ~ disturbed
    PROVE  ~ disturbed'
<1>1. CASE Started \/ Manages \/ Stopped \/ Fails \/ StartedByOthers \/ Vanishes
    BY <1>1 DEF Started, Manages, Stopped, Fails, StartedByOthers, Vanishes,
                command
<1>2. CASE Begin \/ CallFails \/ Open \/ Capture \/ Writes
    BY <1>2 DEF Begin, CallFails, Open, Capture, Writes, idle
<1>3. CASE Ensures \/ TimesOut \/ Absent \/ ExitCode \/ Load \/ Cleanup
    BY <1>3 DEF Ensures, TimesOut, Absent, ExitCode, Load, Cleanup, idle
<1>4. CASE UNCHANGED vars
    BY <1>4 DEF vars
<1> QED BY <1>1, <1>2, <1>3, <1>4 DEF Next

LEMMA InvariantHolds == Spec => [](TypeOK /\ ProvisionInv)
<1>1. ASSUME TypeOK /\ ProvisionInv, [Next]_vars
      PROVE  TypeOK' /\ ProvisionInv'
    BY <1>1, EveryStep
<1> QED BY <1>1, InitStep, PTL DEF Spec

\* Only what is registered is run by the manager, a command under way has
\* something left to do, and every record has its type.
THEOREM ProvisionTypes == Spec => []TypeOK
BY InvariantHolds, PTL

\* Whatever calls fail and whoever starts the service meanwhile, provision,
\* register and uninstall leave the registration asked for, the one that was
\* there, or say that they could not put it back: every step of the commands
\* is a step of the abstract registration or leaves it as it is.
THEOREM AllOrNothingProved == Spec => AllOrNothing
<1> DEFINE r == IF task = None THEN reg ELSE task.before
<1>1. Init => Abstract!Init
    BY DEF Init, Abstract!Init
<1>2. ASSUME TypeOK, ProvisionInv, [Next]_vars
      PROVE  [Abstract!Next]_(Abstract!vars)
    <2>1. CASE UNCHANGED <<reg, task, outcome>>
        BY <2>1 DEF Abstract!vars
    <2>2. CASE /\ UNCHANGED <<task, outcome>>
               /\ reg # None /\ reg = Doom(reg) /\ reg' = None
        <3>1. CASE task = None
            BY <2>2, <3>1 DEF Abstract!Next, Abstract!Vanished
        <3>2. CASE task # None
            BY <2>2, <3>2 DEF Abstract!vars
        <3> QED BY <3>1, <3>2
    <2>3. CASE /\ UNCHANGED <<reg, outcome>>
               /\ task = None /\ task' # None /\ task'.before = reg
        BY <2>3 DEF Abstract!vars
    <2>4. CASE task # None /\ Continued(task) /\ task' # None
        BY <2>4 DEF Abstract!vars, Continued
    <2>5. CASE task # None /\ Continued(task) /\ task' = None
        <3>1. /\ Ended(task, reg', proc', pending')
              /\ task.op \in {"provision", "register", "uninstall", "start",
                              "stop"}
            BY <1>2, <2>5 DEF Continued, TypeOK, Tasks
        <3>2. r = task.before /\ r' = reg'
            BY <2>5
        <3> HIDE DEF r
        <3>3. CASE outcome'.result = "ok"
            <4>1. outcome' = [op |-> task.op, result |-> "ok"]
                BY <3>1, <3>3 DEF Ended
            <4>2. CASE Provisions(task)
                BY <3>1, <3>2, <3>3, <4>1, <4>2
                   DEF Ended, Provisions, Abstract!Next, Abstract!Provisioned,
                       Abstract!Provisioning, r
            <4>3. CASE task.op = "uninstall"
                BY <3>1, <3>2, <3>3, <4>1, <4>3
                   DEF Ended, Abstract!Next, Abstract!Uninstalled, r
            <4>4. CASE task.op \in {"start", "stop"}
                BY <3>1, <3>2, <3>3, <4>1, <4>4
                   DEF Ended, Abstract!Next, Abstract!Untouched, r
            <4> QED BY <3>1, <4>2, <4>3, <4>4 DEF Provisions
        <3>4. CASE outcome'.result = "error"
            <4>1. outcome' = [op |-> task.op, result |-> "error"]
                BY <3>1, <3>4 DEF Ended
            <4>2. CASE Provisions(task)
                <5>1. reg' = task.before
                    BY <3>1, <3>4, <4>2 DEF Ended, Provisions
                <5> QED BY <3>2, <4>1, <4>2, <5>1
                        DEF Provisions, Abstract!Next, Abstract!Refused,
                            Abstract!Provisioning, r
            <4>3. CASE task.op = "uninstall" /\ reg' = task.before
                BY <3>2, <4>1, <4>3
                   DEF Abstract!Next, Abstract!Refused, r
            <4>4. CASE /\ task.op = "uninstall" /\ task.before # None
                       /\ reg' \in {None, Doom(task.before)}
                BY <3>2, <4>1, <4>4
                   DEF Abstract!Next, Abstract!DeletionPending, r
            <4>5. CASE task.op \in {"start", "stop"}
                <5>1. reg' = task.before
                    BY <3>1, <3>4, <4>5 DEF Ended
                <5> QED BY <3>2, <4>1, <4>5, <5>1
                        DEF Abstract!Next, Abstract!Untouched, r
            <4> QED BY <3>1, <3>4, <4>2, <4>3, <4>4, <4>5 DEF Ended, Provisions
        <3>5. CASE outcome'.result = "recovery"
            BY <3>1, <3>5
               DEF Ended, Provisions, Abstract!Next, Abstract!Unrecovered,
                   Abstract!Provisioning
        <3>6. outcome'.result \in {"ok", "error", "recovery"}
            BY <3>1 DEF Ended
        <3> QED BY <3>3, <3>4, <3>5, <3>6
    <2> QED BY <1>2, <2>1, <2>2, <2>3, <2>4, <2>5, EveryStep
<1> QED BY <1>1, <1>2, InvariantHolds, PTL
        DEF Spec, AllOrNothing, Abstract!Spec

\* A provisioning that fails and recovers leaves the service in the state it
\* was captured in, running from the image it was registered with, whatever
\* its start type, unless somebody else started it or it failed meanwhile.
THEOREM PriorStateIsRestored == Spec => PriorStateRestored
<1>1. ASSUME TypeOK, ProvisionInv, [Next]_vars
      PROVE  [task # None /\ task' = None /\ task.origin = "existing"
                /\ ~ disturbed /\ outcome'.result = "error"
              => /\ proc'.state = task.state
                 /\ task.state = "running"
                        => proc'.image = task.captured.image]_vars
    <2> SUFFICES ASSUME task # None, task' = None, task.origin = "existing",
                        ~ disturbed, outcome'.result = "error"
                 PROVE  /\ proc'.state = task.state
                        /\ task.state = "running"
                                => proc'.image = task.captured.image
        OBVIOUS
    <2>1. Ended(task, reg', proc', pending')
        BY <1>1, CommandEnds
    <2>2. ~ disturbed'
        BY <1>1, EndsUndisturbed
    <2> QED BY <2>1, <2>2 DEF Ended
<1> QED BY <1>1, InvariantHolds, PTL DEF Spec, PriorStateRestored

\* An uninstall that succeeds leaves no registration, no process of the
\* service and no journal with entries.
THEOREM RemovedIsClean == Spec => RemovedClean
<1>1. ASSUME TypeOK, ProvisionInv, [Next]_vars
      PROVE  [task # None /\ task' = None /\ ~ disturbed
                /\ outcome' = [op |-> "uninstall", result |-> "ok"]
              => reg' = None /\ proc'.state = "stopped" /\ pending' = {}]_vars
    <2> SUFFICES ASSUME task # None, task' = None, ~ disturbed,
                        outcome' = [op |-> "uninstall", result |-> "ok"]
                 PROVE  reg' = None /\ proc'.state = "stopped" /\ pending' = {}
        OBVIOUS
    <2>1. Ended(task, reg', proc', pending')
        BY <1>1, CommandEnds
    <2>2. ~ disturbed'
        BY <1>1, EndsUndisturbed
    <2>3. task.op = "uninstall" /\ outcome'.result = "ok"
        BY <2>1 DEF Ended
    <2> QED BY <2>1, <2>2, <2>3 DEF Ended
<1> QED BY <1>1, InvariantHolds, PTL DEF Spec, RemovedClean

\* A stop that succeeds says that everything the service had changed is
\* restored.
THEOREM StopLeavesNothing == Spec => StopMeansClean
<1>1. ASSUME TypeOK, ProvisionInv, [Next]_vars
      PROVE  [task # None /\ task' = None /\ ~ disturbed
                /\ outcome' = [op |-> "stop", result |-> "ok"]
              => proc'.state = "stopped" /\ pending' = {}]_vars
    <2> SUFFICES ASSUME task # None, task' = None, ~ disturbed,
                        outcome' = [op |-> "stop", result |-> "ok"]
                 PROVE  proc'.state = "stopped" /\ pending' = {}
        OBVIOUS
    <2>1. Ended(task, reg', proc', pending')
        BY <1>1, CommandEnds
    <2>2. ~ disturbed'
        BY <1>1, EndsUndisturbed
    <2>3. task.op = "stop" /\ outcome'.result = "ok"
        BY <2>1 DEF Ended
    <2> QED BY <2>1, <2>2, <2>3 DEF Ended
<1> QED BY <1>1, InvariantHolds, PTL DEF Spec, StopMeansClean
=============================================================================
