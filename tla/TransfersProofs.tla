-------------------------- MODULE TransfersProofs --------------------------
(***************************************************************************)
(* Theorems about Transfers, for every finite set of players, any hubs and *)
(* parties, any capacity, and any number of commands and faults; and, at   *)
(* the end, about the drain of the proxy that carries the commands out     *)
(* (module Proxies), for any backends and players.                         *)
(***************************************************************************)
EXTENDS Transfers, FiniteSetTheorems, TLAPS

-----------------------------------------------------------------------------
(* Types                                                                   *)

Commands == [target : Places, wait : SUBSET Players, age : Ages]

WorldType ==
    /\ at \in [Players -> Places \cup {None}] /\ present \subseteq Places \X Players
    /\ up \subseteq Hubs /\ flights \in [Players -> Places \cup {None}]

\* The commands, of which there are finitely many.
CommandsType == cmds \subseteq Commands /\ IsFiniteSet(cmds)

GameType ==
    /\ session \in {"OPEN", "CANCELLED"} /\ left \subseteq Players
    /\ faults \in 0..MaxFaults

Typed == WorldType /\ CommandsType /\ GameType

LEMMA FaultType ==
    ASSUME faults \in 0..MaxFaults, Fault PROVE faults' \in 0..MaxFaults
BY TransferBounds DEF Fault

\* A command that is enqueued is one for players, to a place.
LEMMA CommandType ==
    ASSUME NEW i \in Places, NEW ps \in SUBSET Players
    PROVE  /\ Command(i, ps) \in Commands
           /\ Command(i, ps).target = i /\ Command(i, ps).wait = ps
           /\ Command(i, ps).age = "NEW"
BY DEF Command, Commands, Ages

\* What is made of the members of a finite set is finite.
LEMMA ReplacedAreFinite ==
    ASSUME NEW S, NEW T, IsFiniteSet(S), NEW g, \A t \in T : \E s \in S : t = g[s]
    PROVE  IsFiniteSet(T)
<1> DEFINE R == {s \in S : g[s] \in T}
           f == [s \in R |-> g[s]]
<1>1. IsFiniteSet(R)
  BY FS_Subset
<1>2. f \in Surjection(R, T)
  BY DEF Surjection
<1> HIDE DEF R, f
<1> QED
  BY <1>1, <1>2, FS_Surjection

-----------------------------------------------------------------------------
(* Commands before and after a step                                        *)

\* The players on their way to h, once per command.
Waiting(h, cs) ==
    {cp \in Live(cs) \X Players : cp[1].target = h /\ cp[2] \in cp[1].wait}

\* Every command of ds that is still in time is what is left of one of cs that
\* was, each of another one: nothing has been enqueued.
Descends(cs, ds) ==
    \E f \in [Live(ds) -> Live(cs)] :
        /\ \A d \in Live(ds) : d.target = f[d].target /\ d.wait \subseteq f[d].wait
        /\ \A c, d \in Live(ds) : f[c] = f[d] => c = d

LEMMA WaitingFinite ==
    ASSUME NEW h, NEW cs, IsFiniteSet(cs)
    PROVE  /\ IsFiniteSet(Live(cs)) /\ IsFiniteSet(Waiting(h, cs))
           /\ Expected(h, cs) = Cardinality(Waiting(h, cs)) /\ Expected(h, cs) \in Nat
<1>1. IsFiniteSet(Live(cs))
  BY FS_Subset DEF Live
<1>2. IsFiniteSet(Live(cs) \X Players)
  BY <1>1, PlayersAssumption, FS_Product
<1>3. IsFiniteSet(Waiting(h, cs))
  BY <1>2, FS_Subset DEF Waiting
<1>4. Expected(h, cs) = Cardinality(Waiting(h, cs))
  BY DEF Expected, Waiting
<1> QED
  BY <1>1, <1>3, <1>4, FS_CardinalityType

LEMMA SubsetDescends ==
    ASSUME NEW cs, NEW ds, Live(ds) \subseteq Live(cs) PROVE Descends(cs, ds)
<1> DEFINE f == [d \in Live(ds) |-> d]
<1>1. f \in [Live(ds) -> Live(cs)]
  OBVIOUS
<1>2. \A d \in Live(ds) : d.target = f[d].target /\ d.wait \subseteq f[d].wait
  OBVIOUS
<1>3. \A c, d \in Live(ds) : f[c] = f[d] => c = d
  OBVIOUS
<1> HIDE DEF f
<1> QED
  BY <1>1, <1>2, <1>3 DEF Descends

\* Commands that are replaced by what g makes of them.
LEMMA ReplacedDescend ==
    ASSUME NEW cs, NEW ds, NEW g,
           \A d \in Live(ds) : \E c \in Live(cs) :
               /\ d = g[c]
               /\ d.target = c.target /\ d.wait \subseteq c.wait
    PROVE  Descends(cs, ds)
<1> DEFINE Origin(d) == CHOOSE c \in Live(cs) :
                          d = g[c] /\ d.target = c.target /\ d.wait \subseteq c.wait
           f == [d \in Live(ds) |-> Origin(d)]
<1>1. \A d \in Live(ds) : /\ Origin(d) \in Live(cs) /\ d = g[Origin(d)]
                          /\ d.target = Origin(d).target /\ d.wait \subseteq Origin(d).wait
  OBVIOUS
<1> HIDE DEF Origin
<1>2. f \in [Live(ds) -> Live(cs)]
  BY <1>1
<1>3. \A d \in Live(ds) : d.target = f[d].target /\ d.wait \subseteq f[d].wait
  BY <1>1
<1>4. \A c, d \in Live(ds) : f[c] = f[d] => c = d
  BY <1>1
<1> HIDE DEF f
<1> QED
  BY <1>2, <1>3, <1>4 DEF Descends

\* What is left of commands competes only if they did.
LEMMA DescendCompete ==
    ASSUME NEW p, NEW cs, NEW ds, NEW hubs, Descends(cs, ds), Competing(p, ds, hubs)
    PROVE  Competing(p, cs, hubs)
<1>1. PICK f \in [Live(ds) -> Live(cs)] :
        /\ \A d \in Live(ds) : d.target = f[d].target /\ d.wait \subseteq f[d].wait
        /\ \A c, d \in Live(ds) : f[c] = f[d] => c = d
  BY DEF Descends
<1>2. PICK c \in Live(ds), d \in Live(ds) :
        c # d /\ {c.target, d.target} \subseteq hubs /\ p \in c.wait \cap d.wait
  BY DEF Competing
<1>3. f[c] \in Live(cs) /\ f[d] \in Live(cs) /\ f[c] # f[d]
  BY <1>1, <1>2
<1>4. {f[c].target, f[d].target} \subseteq hubs /\ p \in f[c].wait \cap f[d].wait
  BY <1>1, <1>2
<1> QED
  BY <1>3, <1>4 DEF Competing

\* Whoever waits after such a step waited before, once for each time he does now.
LEMMA DescendMap ==
    ASSUME NEW h, NEW cs, NEW ds, Descends(cs, ds)
    PROVE  \E m \in Injection(Waiting(h, ds), Waiting(h, cs)) :
              \A x \in Waiting(h, ds) : m[x][2] = x[2]
<1>1. PICK f \in [Live(ds) -> Live(cs)] :
        /\ \A d \in Live(ds) : d.target = f[d].target /\ d.wait \subseteq f[d].wait
        /\ \A c, d \in Live(ds) : f[c] = f[d] => c = d
  BY DEF Descends
<1> DEFINE m == [x \in Waiting(h, ds) |-> <<f[x[1]], x[2]>>]
<1>2. ASSUME NEW x \in Waiting(h, ds)
      PROVE  /\ x = <<x[1], x[2]>> /\ x[1] \in Live(ds)
             /\ m[x] \in Waiting(h, cs) /\ m[x][1] = f[x[1]] /\ m[x][2] = x[2]
  <2>1. x \in Live(ds) \X Players /\ x[1].target = h /\ x[2] \in x[1].wait
    BY <1>2 DEF Waiting
  <2>2. f[x[1]] \in Live(cs) /\ f[x[1]].target = h /\ x[2] \in f[x[1]].wait
    BY <1>1, <2>1
  <2>3. m[x] = <<f[x[1]], x[2]>>
    OBVIOUS
  <2> QED
    BY <2>1, <2>2, <2>3 DEF Waiting
<1>3. m \in [Waiting(h, ds) -> Waiting(h, cs)]
  BY <1>2
<1>4. \A x, y \in Waiting(h, ds) : m[x] = m[y] => x = y
  BY <1>1, <1>2
<1> HIDE DEF m
<1> QED
  BY <1>2, <1>3, <1>4 DEF Injection, IsInjective

LEMMA DescendLoad ==
    ASSUME NEW h, NEW cs, NEW ds, IsFiniteSet(cs), Descends(cs, ds)
    PROVE  Expected(h, ds) \in Nat /\ Expected(h, ds) <= Expected(h, cs)
<1>1. PICK m \in Injection(Waiting(h, ds), Waiting(h, cs)) : TRUE
  BY DescendMap
<1>2. IsFiniteSet(Waiting(h, ds)) /\ Cardinality(Waiting(h, ds)) <= Cardinality(Waiting(h, cs))
  BY <1>1, WaitingFinite, FS_Injection
<1>3. Cardinality(Waiting(h, ds)) \in Nat
  BY <1>2, FS_CardinalityType
<1>4. Expected(h, ds) = Cardinality(Waiting(h, ds)) /\ Expected(h, cs) = Cardinality(Waiting(h, cs))
  BY DEF Expected, Waiting
<1> QED
  BY <1>2, <1>3, <1>4

\* A player somebody waited for, and nobody waits for any more, is one less.
LEMMA ArrivalFreesPlace ==
    ASSUME NEW h, NEW cs, NEW ds, IsFiniteSet(cs), Descends(cs, ds),
           NEW p \in Players, NEW c \in Live(cs), c.target = h, p \in c.wait,
           \A d \in Live(ds) : d.target = h => p \notin d.wait
    PROVE  Expected(h, ds) \in Nat /\ Expected(h, ds) + 1 <= Expected(h, cs)
<1> DEFINE less == Waiting(h, cs) \ {<<c, p>>}
<1>1. PICK m \in Injection(Waiting(h, ds), Waiting(h, cs)) :
              \A x \in Waiting(h, ds) : m[x][2] = x[2]
  BY DescendMap
<1>2. \A x \in Waiting(h, ds) : x[2] # p
  BY DEF Waiting
<1>3. m \in Injection(Waiting(h, ds), less)
  BY <1>1, <1>2 DEF Injection, IsInjective
<1>4. IsFiniteSet(Waiting(h, cs)) /\ <<c, p>> \in Waiting(h, cs)
  <2>1. IsFiniteSet(Waiting(h, cs))
    BY WaitingFinite
  <2> QED
    BY <2>1 DEF Waiting
<1>5. IsFiniteSet(less) /\ Cardinality(less) = Cardinality(Waiting(h, cs)) - 1
  BY <1>4, FS_RemoveElement
<1> HIDE DEF less
<1>6. IsFiniteSet(Waiting(h, ds)) /\ Cardinality(Waiting(h, ds)) <= Cardinality(less)
  BY <1>3, <1>5, FS_Injection
<1>7. Cardinality(Waiting(h, ds)) \in Nat /\ Cardinality(Waiting(h, cs)) \in Nat
  BY <1>4, <1>6, FS_CardinalityType
<1>8. Expected(h, ds) = Cardinality(Waiting(h, ds)) /\ Expected(h, cs) = Cardinality(Waiting(h, cs))
  BY DEF Expected, Waiting
<1> QED
  BY <1>5, <1>6, <1>7, <1>8

-----------------------------------------------------------------------------
(* What a step may do to the commands and to the hubs                      *)

\* NoCompetingCommand and NeverOverbooked of one step.
Apart ==
    \A p \in Players : Competing(p, cmds', up') => Competing(p, cmds, up) \/ up' # up

BookedAt(h) ==
    EffectiveLoad(h, present', cmds') > EffectiveLoad(h, present, cmds)
        => EffectiveLoad(h, present', cmds') <= Capacity \/ Uninvited(h)

Orderly == Apart /\ \A h \in Hubs : BookedAt(h)

LEMMA CountType ==
    ASSUME NEW h, NEW rows
    PROVE  IsFiniteSet({p \in Players : <<h, p>> \in rows}) /\ PlayerCount(h, rows) \in Nat
<1>1. IsFiniteSet({p \in Players : <<h, p>> \in rows})
  BY PlayersAssumption, FS_Subset
<1> QED
  BY <1>1, FS_CardinalityType DEF PlayerCount

LEMMA FewerRows ==
    ASSUME NEW h, NEW rows, NEW fewer \in SUBSET rows
    PROVE  PlayerCount(h, fewer) <= PlayerCount(h, rows)
<1> DEFINE here(r) == {p \in Players : <<h, p>> \in r}
<1>1. here(fewer) \in SUBSET here(rows)
  OBVIOUS
<1>2. IsFiniteSet(here(rows))
  BY CountType
<1>3. PlayerCount(h, fewer) = Cardinality(here(fewer))
      /\ PlayerCount(h, rows) = Cardinality(here(rows))
  BY DEF PlayerCount
<1> HIDE DEF here
<1> QED
  BY <1>1, <1>2, <1>3, FS_Subset

\* A step that enqueues nothing and reports nobody.
LEMMA DescendOrderly ==
    ASSUME Typed, Descends(cmds, cmds'), present' \subseteq present
    PROVE  Orderly
<1>1. Apart
  BY DescendCompete DEF Apart
<1>2. ASSUME NEW h \in Hubs PROVE BookedAt(h)
  <2>1. IsFiniteSet(cmds)
    BY DEF Typed, CommandsType
  <2>2. Expected(h, cmds') \in Nat /\ Expected(h, cmds') <= Expected(h, cmds)
    BY <2>1, DescendLoad
  <2>3. Expected(h, cmds) \in Nat
    BY <2>1, WaitingFinite
  <2>4. PlayerCount(h, present') <= PlayerCount(h, present)
    BY FewerRows
  <2>5. PlayerCount(h, present') \in Nat /\ PlayerCount(h, present) \in Nat
    BY CountType
  <2> QED
    BY <2>2, <2>3, <2>4, <2>5 DEF BookedAt, EffectiveLoad
<1> QED
  BY <1>1, <1>2 DEF Orderly

LEMMA UnchangedOrderly ==
    ASSUME Typed, cmds' = cmds, present' \subseteq present PROVE Orderly
<1>1. Live(cmds') \subseteq Live(cmds)
  OBVIOUS
<1> QED
  BY <1>1, SubsetDescends, DescendOrderly

-----------------------------------------------------------------------------
(* The router                                                              *)

\* What the players of a route are told: the player p to go to to[p].
Given(route, to, i) == {q \in route : to[q] = i}
NewCommands(route, to) ==
    {Command(to[p], Given(route, to, to[p])) : p \in {q \in route : to[q] # None}}

LEMMA NewCommandsType ==
    ASSUME NEW route \in SUBSET Players, NEW targets \in SUBSET Hubs,
           NEW to \in [route -> targets \cup {None}]
    PROVE  /\ NewCommands(route, to) \subseteq Commands
           /\ IsFiniteSet(NewCommands(route, to))
           /\ \A c \in NewCommands(route, to) :
                 /\ c.target \in targets
                 /\ c = Command(c.target, Given(route, to, c.target))
                 /\ c.wait = Given(route, to, c.target) /\ c.wait # {}
<1> DEFINE sent == {q \in route : to[q] # None}
           g == [p \in sent |-> Command(to[p], Given(route, to, to[p]))]
<1>1. ASSUME NEW p \in sent
      PROVE  /\ g[p] \in Commands /\ g[p].target = to[p] /\ to[p] \in targets
             /\ g[p] = Command(to[p], Given(route, to, to[p]))
             /\ g[p].wait = Given(route, to, to[p]) /\ p \in Given(route, to, to[p])
  <2>1. to[p] \in targets /\ to[p] \in Places /\ Given(route, to, to[p]) \in SUBSET Players
    BY DEF Given, Places
  <2>2. p \in Given(route, to, to[p])
    BY DEF Given
  <2> QED
    BY <2>1, <2>2, CommandType
<1>2. \A c \in NewCommands(route, to) : \E p \in sent : c = g[p]
  BY DEF NewCommands
<1>3. IsFiniteSet(sent)
  BY PlayersAssumption, FS_Subset
<1> HIDE DEF sent, g
<1>4. IsFiniteSet(NewCommands(route, to))
  BY <1>2, <1>3, ReplacedAreFinite
<1>5. NewCommands(route, to) \subseteq Commands
  BY <1>1, <1>2
<1> QED
  BY <1>1, <1>2, <1>4, <1>5

\* Nobody is sent to a hub above its maximum, whatever its load was.
LEMMA AllocationFits ==
    ASSUME NEW route, NEW targets, NEW load, DOMAIN load = targets,
           NEW to \in AllocateHubPlayers(route, load), NEW h \in targets,
           Given(route, to, h) # {}
    PROVE  load[h] + Cardinality(Given(route, to, h)) <= Capacity
BY DEF AllocateHubPlayers, Given

\* What the router enqueues, it is in one transaction with what it has read.
LEMMA RouteStep ==
    ASSUME Typed, NEW source \in Places, NEW requested \in SUBSET Players,
           TransferPlayers(source, requested)
    PROVE  Typed' /\ Orderly
<1> DEFINE route == Connected(source, requested) \ (OnHub \cup PendingHubPlayers)
           targets == up \ {source}
           load == [h \in targets |-> EffectiveLoad(h, present, cmds)]
<1>1. PICK to \in AllocateHubPlayers(route, load) :
        Enqueue({Command(to[p], {q \in route : to[q] = to[p]}) :
                    p \in {q \in route : to[q] # None}})
  BY DEF TransferPlayers
<1> DEFINE new == NewCommands(route, to)
<1>2. cmds' = cmds \cup new
  BY <1>1 DEF Enqueue, NewCommands, Given
<1>3. UNCHANGED <<at, present, up, session, left, flights, faults>>
  BY DEF TransferPlayers, world, game
<1>4. route \in SUBSET Players /\ targets \in SUBSET Hubs /\ DOMAIN load = targets
  BY DEF Connected, Typed, WorldType
<1>5. to \in [route -> targets \cup {None}]
  BY <1>1, <1>4 DEF AllocateHubPlayers
<1>6. \A h \in targets : load[h] = EffectiveLoad(h, present, cmds)
  OBVIOUS
<1>7. \A p \in route : \A c \in Live(cmds) : c.target \in up => p \notin c.wait
  BY DEF PendingHubPlayers
<1>8. targets \subseteq up
  OBVIOUS
<1> HIDE DEF route, targets, load
<1>9. /\ new \subseteq Commands /\ IsFiniteSet(new)
      /\ \A c \in new : /\ c.target \in targets
                        /\ c = Command(c.target, Given(route, to, c.target))
                        /\ c.wait = Given(route, to, c.target) /\ c.wait # {}
  BY <1>4, <1>5, NewCommandsType
<1> HIDE DEF new
<1>10. Typed'
  <2>1. IsFiniteSet(cmds \cup new)
    BY <1>9, FS_Union DEF Typed, CommandsType
  <2>2. CommandsType'
    BY <1>2, <1>9, <2>1 DEF Typed, CommandsType
  <2>3. WorldType' /\ GameType'
    BY <1>3 DEF Typed, WorldType, GameType
  <2> QED
    BY <2>2, <2>3 DEF Typed
<1>11. Apart
  <2> SUFFICES ASSUME NEW p \in Players, Competing(p, cmds', up)
               PROVE  Competing(p, cmds, up)
    BY <1>3 DEF Apart
  <2>1. PICK c \in Live(cmds'), d \in Live(cmds') :
          c # d /\ {c.target, d.target} \subseteq up /\ p \in c.wait \cap d.wait
    BY DEF Competing
  <2>2. \A a \in new : p \in a.wait => p \in route /\ a.target = to[p]
    BY <1>9 DEF Given
  <2>3. ~ (c \in new /\ d \in new)
    BY <1>9, <2>1, <2>2
  <2>4. ~ (c \in new /\ d \in Live(cmds)) /\ ~ (d \in new /\ c \in Live(cmds))
    BY <1>7, <2>1, <2>2
  <2>5. \A a \in Live(cmds') : a \in new \/ a \in Live(cmds)
    BY <1>2 DEF Live
  <2>6. c \in Live(cmds) /\ d \in Live(cmds)
    BY <2>1, <2>3, <2>4, <2>5
  <2> QED
    BY <2>1, <2>6 DEF Competing
<1>12. ASSUME NEW h \in Hubs PROVE BookedAt(h)
  <2> DEFINE given == Given(route, to, h)
             pairs == {Command(h, given)} \X given
  <2>1. IsFiniteSet(Waiting(h, cmds)) /\ IsFiniteSet(Waiting(h, cmds'))
    BY <1>10, WaitingFinite DEF Typed, CommandsType
  <2>2. /\ Expected(h, cmds) = Cardinality(Waiting(h, cmds))
        /\ Expected(h, cmds') = Cardinality(Waiting(h, cmds'))
    BY DEF Expected, Waiting
  <2>3. /\ PlayerCount(h, present) \in Nat /\ PlayerCount(h, present') = PlayerCount(h, present)
        /\ Cardinality(Waiting(h, cmds)) \in Nat /\ Cardinality(Waiting(h, cmds')) \in Nat
    BY <1>3, <2>1, CountType, FS_CardinalityType
  <2>4. \A x \in Waiting(h, cmds') : x \in Waiting(h, cmds) \/ (x \in pairs /\ h \in targets)
    <3>1. SUFFICES ASSUME NEW x \in Waiting(h, cmds'), x \notin Waiting(h, cmds)
                   PROVE  x \in pairs /\ h \in targets
      OBVIOUS
    <3>2. x \in Live(cmds') \X Players /\ x[1].target = h /\ x[2] \in x[1].wait
      BY DEF Waiting
    <3>3. x[1] \in new
      BY <1>2, <3>1, <3>2 DEF Waiting, Live
    <3>4. x[1] = Command(h, given) /\ x[2] \in given /\ h \in targets
      BY <1>9, <3>2, <3>3
    <3> QED
      BY <3>2, <3>4
  <2>5. CASE given = {} \/ h \notin targets
    <3>1. Waiting(h, cmds') \in SUBSET Waiting(h, cmds)
      BY <2>4, <2>5
    <3>2. Cardinality(Waiting(h, cmds')) <= Cardinality(Waiting(h, cmds))
      BY <2>1, <3>1, FS_Subset
    <3> QED
      BY <2>2, <2>3, <3>2 DEF BookedAt, EffectiveLoad
  <2>6. CASE given # {} /\ h \in targets
    <3>1. EffectiveLoad(h, present, cmds) + Cardinality(given) <= Capacity
      BY <1>1, <1>4, <1>6, <2>6, AllocationFits
    <3>2. IsFiniteSet(given)
      BY <1>4, PlayersAssumption, FS_Subset DEF Given
    <3>3. IsFiniteSet({Command(h, given)}) /\ Cardinality({Command(h, given)}) = 1
      BY FS_Singleton
    <3>4. IsFiniteSet(pairs) /\ Cardinality(pairs) = 1 * Cardinality(given)
      BY <3>2, <3>3, FS_Product
    <3>5. Cardinality(given) \in Nat
      BY <3>2, FS_CardinalityType
    <3> HIDE DEF pairs, given
    <3>6. Waiting(h, cmds') \in SUBSET (Waiting(h, cmds) \cup pairs)
      BY <2>4
    <3>7. /\ IsFiniteSet(Waiting(h, cmds) \cup pairs)
          /\ Cardinality(Waiting(h, cmds) \cup pairs) = Cardinality(Waiting(h, cmds))
                + Cardinality(pairs) - Cardinality(Waiting(h, cmds) \cap pairs)
      BY <2>1, <3>4, FS_Union
    <3>8. Cardinality(Waiting(h, cmds) \cap pairs) \in Nat
      BY <2>1, FS_Intersection, FS_CardinalityType
    <3>9. Cardinality(Waiting(h, cmds')) <= Cardinality(Waiting(h, cmds) \cup pairs)
      BY <3>6, <3>7, FS_Subset
    <3>10. Cardinality(Waiting(h, cmds')) <= Cardinality(Waiting(h, cmds)) + Cardinality(given)
      BY <2>3, <3>4, <3>5, <3>7, <3>8, <3>9
    <3> QED
      BY <2>2, <2>3, <3>1, <3>5, <3>10, TransferBounds DEF BookedAt, EffectiveLoad
  <2> QED
    BY <2>5, <2>6
<1> QED
  BY <1>10, <1>11, <1>12 DEF Orderly

LEMMA SendStep ==
    ASSUME Typed, NEW ps \in Parties, SendToSession(ps) PROVE Typed' /\ Orderly
<1>1. cmds' = cmds \cup {Command(Game, ps)}
      /\ UNCHANGED <<at, present, up, session, left, flights, faults>>
  BY DEF SendToSession, Enqueue, world, game
<1>2. ps \in SUBSET Players /\ Game \in Places
  BY PartiesAssumption DEF Places
<1>3. Command(Game, ps) \in Commands /\ Command(Game, ps).target = Game
  BY <1>2, CommandType
<1>4. Typed'
  <2>1. IsFiniteSet(cmds \cup {Command(Game, ps)})
    BY FS_AddElement DEF Typed, CommandsType
  <2>2. CommandsType'
    BY <1>1, <1>3, <2>1 DEF Typed, CommandsType
  <2>3. WorldType' /\ GameType'
    BY <1>1 DEF Typed, WorldType, GameType
  <2> QED
    BY <2>2, <2>3 DEF Typed
<1>5. \A c \in Live(cmds') : c.target \in Hubs => c \in Live(cmds)
  BY <1>1, <1>3, PlacesAssumption DEF Live
<1>6. up \subseteq Hubs
  BY DEF Typed, WorldType
<1>7. Apart
  <2> SUFFICES ASSUME NEW p \in Players, Competing(p, cmds', up)
               PROVE  Competing(p, cmds, up)
    BY <1>1 DEF Apart
  <2>1. PICK c \in Live(cmds'), d \in Live(cmds') :
          c # d /\ {c.target, d.target} \subseteq up /\ p \in c.wait \cap d.wait
    BY DEF Competing
  <2>2. c \in Live(cmds) /\ d \in Live(cmds)
    BY <1>5, <1>6, <2>1
  <2> QED
    BY <2>1, <2>2 DEF Competing
<1>8. ASSUME NEW h \in Hubs PROVE BookedAt(h)
  <2>1. Live(cmds) \subseteq Live(cmds')
    BY <1>1 DEF Live
  <2>2. Waiting(h, cmds') = Waiting(h, cmds)
    BY <1>5, <2>1 DEF Waiting
  <2>3. Expected(h, cmds') = Expected(h, cmds)
    BY <2>2 DEF Expected, Waiting
  <2>4. EffectiveLoad(h, present', cmds') = EffectiveLoad(h, present, cmds)
    BY <1>1, <2>3 DEF EffectiveLoad
  <2>5. EffectiveLoad(h, present, cmds) \in Nat
    <3>1. PlayerCount(h, present) \in Nat
      BY CountType
    <3>2. Expected(h, cmds) \in Nat
      BY WaitingFinite DEF Typed, CommandsType
    <3> QED
      BY <3>1, <3>2 DEF EffectiveLoad
  <2> QED
    BY <2>4, <2>5 DEF BookedAt
<1> QED
  BY <1>4, <1>7, <1>8 DEF Orderly

-----------------------------------------------------------------------------
(* The tick, the reports and the rest                                      *)

\* What is left of a command that the tick has observed and published.
Published(c) ==
    [[c EXCEPT !.wait = {p \in @ : ~ Observed(c, p)}] EXCEPT !.age = "TRIED"]

LEMMA TickCommands ==
    ASSUME Typed, NEW lost \in SUBSET {c.target : c \in cmds}, TransferTick(lost)
    PROVE  \A d \in cmds' : \E c \in Live(cmds) : d = Published(c)
<1> DEFINE due == ExpireTransfers(CompleteTransfers(ObserveTransfers(cmds)))
<1>1. cmds' = {[c EXCEPT !.age = "TRIED"] : c \in due}
  BY DEF TransferTick, Publish
<1>2. ASSUME NEW e \in due
      PROVE  \E c \in Live(cmds) : e = [c EXCEPT !.wait = {p \in @ : ~ Observed(c, p)}]
  <2>1. e \in ObserveTransfers(cmds) /\ e.age # "LATE"
    BY DEF ExpireTransfers, CompleteTransfers, Live
  <2>2. PICK c \in cmds : e = [c EXCEPT !.wait = {p \in @ : ~ Observed(c, p)}]
    BY <2>1 DEF ObserveTransfers
  <2>3. c \in Commands
    BY DEF Typed, CommandsType
  <2>4. e.age = c.age
    BY <2>2, <2>3 DEF Commands
  <2> QED
    BY <2>1, <2>2, <2>4 DEF Live
<1> HIDE DEF due
<1> TAKE d \in cmds'
<1>3. PICK e \in due : d = [e EXCEPT !.age = "TRIED"]
  BY <1>1
<1>4. PICK c \in Live(cmds) : e = [c EXCEPT !.wait = {p \in @ : ~ Observed(c, p)}]
  BY <1>2
<1>5. d = Published(c)
  BY <1>3, <1>4 DEF Published
<1> QED
  BY <1>5

LEMMA PublishedType ==
    ASSUME NEW c \in Commands
    PROVE  /\ Published(c) \in Commands /\ Published(c).target = c.target
           /\ Published(c).wait \subseteq c.wait
BY DEF Published, Commands, Ages

LEMMA TickStep ==
    ASSUME Typed, NEW lost \in SUBSET {c.target : c \in cmds}, TransferTick(lost)
    PROVE  Typed' /\ Orderly
<1> DEFINE g == [c \in cmds |-> Published(c)]
<1>1. \A d \in cmds' : \E c \in Live(cmds) :
        d = g[c] /\ d.target = c.target /\ d.wait \subseteq c.wait
  <2>1. \A c \in Live(cmds) : c \in cmds /\ c \in Commands /\ g[c] = Published(c)
    BY DEF Live, Typed, CommandsType
  <2> QED
    BY <2>1, TickCommands, PublishedType
<1>2. cmds' \subseteq Commands
  BY TickCommands, PublishedType DEF Live, Typed, CommandsType
<1>3. UNCHANGED <<at, present, up, session, left>>
  BY DEF TransferTick, world, game
<1> HIDE DEF g
<1>4. IsFiniteSet(cmds')
  <2>1. \A d \in cmds' : \E c \in cmds : d = g[c]
    BY <1>1 DEF Live
  <2> QED
    BY <2>1, ReplacedAreFinite DEF Typed, CommandsType
<1>5. Descends(cmds, cmds')
  <2>1. \A d \in Live(cmds') : \E c \in Live(cmds) :
          d = g[c] /\ d.target = c.target /\ d.wait \subseteq c.wait
    BY <1>1 DEF Live
  <2> QED
    BY <2>1, ReplacedDescend
<1>6. flights' \in [Players -> Places \cup {None}]
  BY DEF TransferTick, Publish, Deliver
<1>7. faults' \in 0..MaxFaults
  BY FaultType DEF TransferTick, Publish, Typed, GameType
<1>8. WorldType' /\ CommandsType' /\ GameType'
  BY <1>2, <1>3, <1>4, <1>6, <1>7 DEF Typed, WorldType, CommandsType, GameType
<1>9. Orderly
  BY <1>3, <1>5, DescendOrderly
<1> QED
  BY <1>8, <1>9 DEF Typed

\* A report ends the waiting for the player it is about.
LEMMA JoinStep ==
    ASSUME Typed, NEW i \in Places, NEW p \in Players, PlayerJoined(i, p)
    PROVE  Typed' /\ Orderly
<1> DEFINE left_of(c) == IF c.target = i THEN [c EXCEPT !.wait = @ \ {p}] ELSE c
           g == [c \in cmds |-> left_of(c)]
<1>1. cmds' = {left_of(c) : c \in cmds} /\ present' = present \cup {<<i, p>>}
      /\ UNCHANGED <<at, up, session, flights, faults>> /\ left' \subseteq left
  BY DEF PlayerJoined, RecordTransferArrival
<1>2. ASSUME NEW c \in cmds
      PROVE  /\ left_of(c) \in Commands /\ left_of(c).target = c.target
             /\ left_of(c).wait \subseteq c.wait /\ left_of(c).age = c.age
             /\ c.target = i => p \notin left_of(c).wait
  <2>1. c \in Commands
    BY DEF Typed, CommandsType
  <2> QED
    BY <2>1 DEF Commands
<1>3. \A d \in cmds' : \E c \in cmds : d = g[c] /\ d = left_of(c)
  BY <1>1
<1> HIDE DEF left_of, g
<1>4. \A d \in Live(cmds') : \E c \in Live(cmds) :
        d = g[c] /\ d.target = c.target /\ d.wait \subseteq c.wait
  BY <1>2, <1>3 DEF Live
<1>5. Descends(cmds, cmds')
  BY <1>4, ReplacedDescend
<1>6. IsFiniteSet(cmds) /\ IsFiniteSet(cmds')
  <2>1. \A d \in cmds' : \E c \in cmds : d = g[c]
    BY <1>3
  <2> QED
    BY <2>1, ReplacedAreFinite DEF Typed, CommandsType
<1>7. Typed'
  <2>1. cmds' \subseteq Commands
    BY <1>2, <1>3
  <2>2. WorldType' /\ CommandsType' /\ GameType'
    BY <1>1, <1>6, <2>1 DEF Typed, WorldType, CommandsType, GameType
  <2> QED
    BY <2>2 DEF Typed
<1>8. Apart
  BY <1>5, DescendCompete, <1>1 DEF Apart
<1>9. ASSUME NEW h \in Hubs PROVE BookedAt(h)
  <2> DEFINE here(r) == {q \in Players : <<h, q>> \in r}
  <2>1. /\ Expected(h, cmds) \in Nat /\ Expected(h, cmds') \in Nat
        /\ Expected(h, cmds') <= Expected(h, cmds)
        /\ PlayerCount(h, present) \in Nat /\ PlayerCount(h, present') \in Nat
    BY <1>5, <1>6, WaitingFinite, DescendLoad, CountType
  <2>2. /\ PlayerCount(h, present) = Cardinality(here(present))
        /\ PlayerCount(h, present') = Cardinality(here(present'))
        /\ IsFiniteSet(here(present))
    BY CountType DEF PlayerCount
  <2>3. CASE i # h
    <3>1. here(present') = here(present)
      BY <1>1, <2>3
    <3> HIDE DEF here
    <3>2. PlayerCount(h, present') = PlayerCount(h, present)
      BY <2>2, <3>1
    <3> QED
      BY <2>1, <3>2 DEF BookedAt, EffectiveLoad
  <2>4. CASE i = h /\ \E c \in Live(cmds) : c.target = h /\ p \in c.wait
    <3>1. PICK c \in Live(cmds) : c.target = h /\ p \in c.wait
      BY <2>4
    <3>2. \A d \in Live(cmds') : d.target = h => p \notin d.wait
      BY <1>2, <1>3, <2>4 DEF Live
    <3>3. Expected(h, cmds') + 1 <= Expected(h, cmds)
      BY <1>5, <1>6, <3>1, <3>2, ArrivalFreesPlace
    <3>4. here(present') = here(present) \cup {p}
      BY <1>1, <2>4
    <3> HIDE DEF here
    <3>5. Cardinality(here(present')) = IF p \in here(present) THEN Cardinality(here(present))
                                        ELSE Cardinality(here(present)) + 1
      BY <2>2, <3>4, FS_AddElement
    <3>6. PlayerCount(h, present') <= PlayerCount(h, present) + 1
      BY <2>1, <2>2, <3>5
    <3> QED
      BY <2>1, <3>3, <3>6 DEF BookedAt, EffectiveLoad
  <2>5. CASE i = h /\ ~ \E c \in Live(cmds) : c.target = h /\ p \in c.wait
    <3>1. <<h, p>> \in present' \ present
      BY <1>1, <2>5 DEF PlayerJoined
    <3> QED
      BY <2>5, <3>1 DEF BookedAt, Uninvited
  <2> QED
    BY <2>3, <2>4, <2>5
<1> QED
  BY <1>7, <1>8, <1>9 DEF Orderly

LEMMA LeaveStep ==
    ASSUME Typed, NEW i \in Places, NEW p \in Players, PlayerLeft(i, p)
    PROVE  Typed' /\ Orderly
<1>1. WorldType' /\ CommandsType' /\ GameType'
  BY DEF PlayerLeft, Typed, WorldType, CommandsType, GameType
<1>2. cmds' = cmds /\ present' \subseteq present
  BY DEF PlayerLeft
<1> QED
  BY <1>1, <1>2, UnchangedOrderly DEF Typed

\* Commands that expire or are cancelled are no longer in time.
LEMMA CancelStep ==
    ASSUME Typed, CancelSession PROVE Typed' /\ Orderly
<1>1. UNCHANGED <<at, present, up, flights, faults>> /\ cmds' \in SUBSET cmds
      /\ session' = "CANCELLED" /\ left' = {}
  BY DEF CancelSession, CancelForInstance, world
<1>2. IsFiniteSet(cmds')
  BY <1>1, FS_Subset DEF Typed, CommandsType
<1>3. WorldType' /\ CommandsType' /\ GameType'
  BY <1>1, <1>2 DEF Typed, WorldType, CommandsType, GameType
<1>4. Live(cmds') \subseteq Live(cmds)
  BY <1>1 DEF Live
<1> QED
  BY <1>1, <1>3, <1>4, SubsetDescends, DescendOrderly DEF Typed

LEMMA DeadlineStep ==
    ASSUME Typed, NEW i \in Places, Deadline(i) PROVE Typed' /\ Orderly
<1>1. PICK c \in Live(cmds) : /\ cmds' = (cmds \ {c}) \cup {[c EXCEPT !.age = "LATE"]}
                              /\ IF c.age = "NEW" THEN Fault ELSE UNCHANGED faults
                              /\ UNCHANGED <<at, present, up, session, left, flights>>
  BY DEF Deadline, world, game
<1>2. c \in Commands
  BY DEF Live, Typed, CommandsType
<1>3. [c EXCEPT !.age = "LATE"] \in Commands /\ [c EXCEPT !.age = "LATE"].age = "LATE"
  BY <1>2 DEF Commands, Ages
<1>4. IsFiniteSet(cmds')
  <2>1. IsFiniteSet(cmds \ {c})
    BY FS_RemoveElement DEF Typed, CommandsType
  <2> QED
    BY <1>1, <2>1, FS_AddElement
<1>5. faults' \in 0..MaxFaults
  BY <1>1, FaultType DEF Typed, GameType
<1>6. WorldType' /\ CommandsType' /\ GameType'
  BY <1>1, <1>3, <1>4, <1>5 DEF Typed, WorldType, CommandsType, GameType
<1>7. Live(cmds') \subseteq Live(cmds)
  BY <1>1, <1>3 DEF Live
<1> QED
  BY <1>1, <1>6, <1>7, SubsetDescends, DescendOrderly DEF Typed

\* Players and hubs that come and go by themselves.
LEMMA PlayerStep ==
    ASSUME Typed, NEW p \in Players,
           Arrive(p) \/ Disconnect(p) \/ \E h \in Hubs : InitialServer(p, h)
    PROVE  Typed' /\ Orderly
<1>1. UNCHANGED <<present, up, cmds, session>>
  BY DEF Arrive, Disconnect, InitialServer, game
<1>2. Orderly
  BY <1>1, UnchangedOrderly
<1>3. CASE Arrive(p)
  <2>1. at' \in [Players -> Places \cup {None}] /\ flights' \in [Players -> Places \cup {None}]
    BY <1>3 DEF Arrive, Typed, WorldType
  <2>2. left' = left /\ faults' \in 0..MaxFaults
    BY <1>3, FaultType DEF Arrive, game, Typed, GameType
  <2> QED
    BY <1>1, <1>2, <2>1, <2>2 DEF Typed, WorldType, CommandsType, GameType
<1>4. CASE Disconnect(p)
  <2>1. at' \in [Players -> Places \cup {None}] /\ flights' \in [Players -> Places \cup {None}]
    BY <1>4 DEF Disconnect, Typed, WorldType
  <2>2. left' \subseteq Players /\ faults' \in 0..MaxFaults
    BY <1>4, FaultType DEF Disconnect, Typed, GameType
  <2> QED
    BY <1>1, <1>2, <2>1, <2>2 DEF Typed, WorldType, CommandsType, GameType
<1>5. CASE \E h \in Hubs : InitialServer(p, h)
  <2>1. at' \in [Players -> Places \cup {None}] /\ UNCHANGED <<flights, left, faults>>
    BY <1>5 DEF InitialServer, game, Typed, WorldType, Places
  <2> QED
    BY <1>1, <1>2, <2>1 DEF Typed, WorldType, CommandsType, GameType
<1> QED
  BY <1>3, <1>4, <1>5

LEMMA HubStep ==
    ASSUME Typed, NEW h \in Hubs, HubDown(h) \/ HubUp(h) PROVE Typed' /\ Orderly
<1>1. UNCHANGED <<at, present, cmds, session, left, flights>> /\ up' \subseteq Hubs
  BY DEF HubDown, HubUp, game, Typed, WorldType
<1>2. faults' \in 0..MaxFaults
  BY FaultType DEF HubDown, HubUp, Typed, GameType
<1>3. Orderly
  BY <1>1, UnchangedOrderly
<1> QED
  BY <1>1, <1>2, <1>3 DEF Typed, WorldType, CommandsType, GameType

-----------------------------------------------------------------------------
(* Theorems                                                                *)

LEMMA InitTyped == Init => Typed
<1> SUFFICES ASSUME Init PROVE Typed
  OBVIOUS
<1>1. WorldType
  BY DEF Init, WorldType, Places
<1>2. CommandsType
  BY FS_EmptySet DEF Init, CommandsType
<1>3. GameType
  BY TransferBounds DEF Init, GameType
<1> QED
  BY <1>1, <1>2, <1>3 DEF Typed

LEMMA NextStep == Typed /\ [Next]_vars => Typed' /\ Orderly
<1> SUFFICES ASSUME Typed, [Next]_vars PROVE Typed' /\ Orderly
  OBVIOUS
<1>1. CASE \E lost \in SUBSET {c.target : c \in cmds} : TransferTick(lost)
  BY <1>1, TickStep
<1>2. CASE EvacuateCancelledMinigame
  <2>1. Game \in Places /\ Connected(Game, Players) \in SUBSET Players
    BY DEF Places, Connected
  <2>2. TransferPlayers(Game, Connected(Game, Players))
    BY <1>2 DEF EvacuateCancelledMinigame, TransferConnectedPlayers
  <2> QED
    BY <2>1, <2>2, RouteStep
<1>3. CASE RequestHub
  BY <1>3, RouteStep DEF RequestHub
<1>4. CASE \E ps \in Parties : SendToSession(ps)
  BY <1>4, SendStep
<1>5. CASE \E i \in Places : Report(i)
  BY <1>5, JoinStep, LeaveStep DEF Report
<1>6. CASE CancelSession
  BY <1>6, CancelStep
<1>7. CASE \E p \in Players : Arrive(p) \/ Disconnect(p) \/ \E h \in Hubs : InitialServer(p, h)
  BY <1>7, PlayerStep
<1>8. CASE \E h \in Hubs : HubDown(h) \/ HubUp(h)
  BY <1>8, HubStep
<1>9. CASE \E i \in Places : Deadline(i)
  BY <1>9, DeadlineStep
<1>10. CASE UNCHANGED vars
  <2>1. UNCHANGED <<at, present, up, cmds, session, left, flights, faults>>
    BY <1>10 DEF vars, world, game
  <2>2. Orderly
    BY <2>1, UnchangedOrderly
  <2> QED
    BY <2>1, <2>2 DEF Typed, WorldType, CommandsType, GameType
<1> QED
  BY <1>1, <1>2, <1>3, <1>4, <1>5, <1>6, <1>7, <1>8, <1>9, <1>10 DEF Next

\* The tables keep their types, and there are never infinitely many commands:
\* what the loads are counted over is finite.
THEOREM TypeCorrect == Spec => [](TypeOK /\ IsFiniteSet(cmds))
<1>1. Typed => TypeOK /\ IsFiniteSet(cmds)
  BY DEF Typed, WorldType, CommandsType, GameType, TypeOK, Commands
<1> QED
  BY <1>1, InitTyped, NextStep, PTL DEF Spec

\* Nobody gets a second command to a routable hub while one is on its way, in
\* whatever order requests, evacuations, ticks, reports and deadlines come: only a
\* hub that comes back can make two commands compete (transferPlayers).
THEOREM CommandsDoNotCompete == Spec => NoCompetingCommand
<1>1. Typed /\ [Next]_vars =>
        [\A p \in Players :
            Competing(p, cmds', up') => Competing(p, cmds, up) \/ up' # up]_vars
  BY NextStep DEF Orderly, Apart
<1> QED
  BY <1>1, InitTyped, NextStep, PTL DEF Spec, NoCompetingCommand

\* A hub's players and the players on their way to it exceed its maximum only
\* through players the router did not send, for any number of players sent at
\* once and any capacity (allocateHubPlayers, selectTargets).
THEOREM HubsAreNotOverbooked == Spec => NeverOverbooked
<1>1. Typed /\ [Next]_vars =>
        [\A h \in Hubs :
            LET load == EffectiveLoad(h, present, cmds)
                next == EffectiveLoad(h, present', cmds')
            IN next > load => next <= Capacity \/ Uninvited(h)]_vars
  BY NextStep DEF Orderly, BookedAt
<1> QED
  BY <1>1, InitTyped, NextStep, PTL DEF Spec, NeverOverbooked

-----------------------------------------------------------------------------
(* The other half of the Velocity plugin: a proxy that is drained          *)

CONSTANTS Backends, MaxPlayers
VARIABLES life, msgs, reg, snaps, sub, ready, sync, extra, plife, listener,
          admission, hb, late, row, players

Proxy == INSTANCE Proxies

\* A heartbeat on its way that says ready and empty is still true of its proxy;
\* so is the one stored since the drain, unless its proxy had given it up, and for
\* it there is moreover no reply left that would open the proxy again; and nothing
\* counts as closed but in a drain.
ReportsHold ==
    /\ hb.step = "sent" /\ hb.ready /\ hb.empty => players = 0 /\ admission # "open"
    /\ row.closed /\ row.ready /\ ~row.late =>
          players = 0 /\ admission # "open" /\ hb.step # "RUNNING"
    /\ row.closed => plife = "DRAINING"
    /\ plife \in {"STARTING", "RUNNING", "DRAINING", "STOPPED"}

\* Players, and what the proxy may admit.
LEMMA PlayersHold ==
    ASSUME ReportsHold,
           \/ Proxy!Login \/ Proxy!Logout \/ Proxy!LeaseExpires
           \/ Proxy!BeginDrain \/ \E deadline \in BOOLEAN : Proxy!StopProxy(deadline)
    PROVE  ReportsHold'
<1>1. CASE Proxy!Login
  BY <1>1 DEF Proxy!Login, Proxy!AcceptingConnections, ReportsHold
<1>2. CASE Proxy!Logout
  BY <1>2 DEF Proxy!Logout, ReportsHold
<1>3. CASE Proxy!LeaseExpires
  BY <1>3 DEF Proxy!LeaseExpires, ReportsHold
<1>4. CASE Proxy!BeginDrain
  BY <1>4 DEF Proxy!BeginDrain, ReportsHold
<1>5. CASE \E deadline \in BOOLEAN : Proxy!StopProxy(deadline)
  BY <1>5 DEF Proxy!StopProxy, Proxy!NoHeartbeat, Proxy!NotClosed, ReportsHold
<1> QED
  BY <1>1, <1>2, <1>3, <1>4, <1>5

\* Heartbeats and their replies.
LEMMA HeartbeatsHold ==
    ASSUME ReportsHold,
           \/ Proxy!SendHeartbeat \/ Proxy!ProxyHeartbeat \/ Proxy!ApplyControl
           \/ Proxy!HeartbeatFails \/ \E h \in Proxy!Reports : Proxy!LateHeartbeat(h)
    PROVE  ReportsHold'
<1>1. CASE Proxy!SendHeartbeat
  BY <1>1 DEF Proxy!SendHeartbeat, Proxy!Alive, Proxy!AcceptingConnections, ReportsHold
<1>2. CASE Proxy!ProxyHeartbeat
  <2>1. hb'.step # "sent"
    BY <1>2 DEF Proxy!ProxyHeartbeat, Proxy!StoreHeartbeat, Proxy!NoHeartbeat,
       ReportsHold
  <2>2. CASE row'.closed
    <3>1. plife = "DRAINING" /\ hb.empty /\ row'.ready = hb.ready
      BY <1>2, <2>2 DEF Proxy!ProxyHeartbeat, Proxy!StoreHeartbeat, Proxy!Stored,
         Proxy!Report, Proxy!NotClosed
    <3>2. plife' = "DRAINING" /\ hb'.step = "DRAINING"
      BY <1>2, <3>1 DEF Proxy!ProxyHeartbeat, Proxy!StoreHeartbeat
    <3> QED
      BY <1>2, <2>1, <3>1, <3>2 DEF Proxy!ProxyHeartbeat, ReportsHold
  <2>3. /\ row'.closed => plife' = "DRAINING"
        /\ plife' \in {"STARTING", "RUNNING", "DRAINING", "STOPPED"}
    BY <1>2 DEF Proxy!ProxyHeartbeat, Proxy!StoreHeartbeat, Proxy!Stored,
       Proxy!NotClosed, ReportsHold
  <2> QED
    BY <2>1, <2>2, <2>3 DEF ReportsHold
<1>3. CASE Proxy!ApplyControl
  BY <1>3 DEF Proxy!ApplyControl, Proxy!NoHeartbeat, ReportsHold
<1>4. CASE Proxy!HeartbeatFails
  BY <1>4 DEF Proxy!HeartbeatFails, Proxy!NoHeartbeat, ReportsHold
<1>5. CASE \E h \in Proxy!Reports : Proxy!LateHeartbeat(h)
  <2>1. PICK h \in Proxy!Reports : Proxy!LateHeartbeat(h)
    BY <1>5
  <2>2. row'.closed => row'.late /\ plife = "DRAINING"
    BY <2>1 DEF Proxy!LateHeartbeat, Proxy!StoreHeartbeat, Proxy!Stored, Proxy!NotClosed
  <2>3. /\ plife = "DRAINING" => plife' = "DRAINING"
        /\ plife' \in {"STARTING", "RUNNING", "DRAINING", "STOPPED"}
    BY <2>1 DEF Proxy!LateHeartbeat, Proxy!StoreHeartbeat, ReportsHold
  <2> QED
    BY <2>1, <2>2, <2>3 DEF Proxy!LateHeartbeat, ReportsHold
<1> QED
  BY <1>1, <1>2, <1>3, <1>4, <1>5

LEMMA ProxyStep == ReportsHold /\ [Proxy!Next]_(Proxy!vars) => ReportsHold'
<1> SUFFICES ASSUME ReportsHold, [Proxy!Next]_(Proxy!vars) PROVE ReportsHold'
  OBVIOUS
<1>1. CASE UNCHANGED <<plife, admission, hb, row, players>>
  BY <1>1 DEF ReportsHold
<1>2. CASE ~ UNCHANGED <<plife, admission, hb, row, players>>
  <2>1. \/ Proxy!Login \/ Proxy!Logout \/ Proxy!LeaseExpires \/ Proxy!BeginDrain
        \/ \E deadline \in BOOLEAN : Proxy!StopProxy(deadline)
        \/ Proxy!SendHeartbeat \/ Proxy!ProxyHeartbeat \/ Proxy!ApplyControl
        \/ Proxy!HeartbeatFails \/ \E h \in Proxy!Reports : Proxy!LateHeartbeat(h)
    BY <1>2 DEF Proxy!Next, Proxy!vars, Proxy!proxy, Proxy!MarkReady,
       Proxy!PublishRoutingUpdate, Proxy!UnregisterBackend, Proxy!HandleMessages,
       Proxy!HandleRedisMessage, Proxy!MessageLost, Proxy!RefreshRegistry,
       Proxy!ReloadForTransfer, Proxy!RedisDisconnected, Proxy!RedisConnected,
       Proxy!SyncStep, Proxy!ExtraStep, Proxy!ReloadFails, Proxy!ListenerBound
  <2> QED
    BY <2>1, PlayersHold, HeartbeatsHold
<1> QED
  BY <1>1, <1>2

\* A stop on a heartbeat of a proxy that was ready, in a request it had not given
\* up, finds nobody on it, although it was judged by what it had been some time ago
\* and its permission to admit players ran out by itself or with a reply that may
\* have been lost (reconciler).  Of other heartbeats nothing is said: they stop a
\* proxy as well, and may cut players off.
THEOREM StoppedProxiesAreEmpty == Proxy!Spec => Proxy!StoppedEmpty
<1>1. Proxy!Init => ReportsHold
  BY DEF Proxy!Init, Proxy!NoHeartbeat, Proxy!NotClosed, ReportsHold
<1>2. ReportsHold /\ [Proxy!Next]_(Proxy!vars) =>
        [plife = "DRAINING" /\ plife' = "STOPPED" /\ row.closed
            => players = 0 \/ ~row.ready \/ row.late]_(Proxy!vars)
  BY DEF ReportsHold
<1> QED
  BY <1>1, <1>2, ProxyStep, PTL DEF Proxy!Spec, Proxy!StoppedEmpty
=============================================================================
