----------------------- MODULE ProjectRuntimesProofs -----------------------
(***************************************************************************)
(* Proofs about the project runtimes of one server process, for any set of *)
(* projects, requests, sessions, job workers and sweepers, any cache limit *)
(* and any number of builds at a time.                                     *)
(***************************************************************************)
EXTENDS ProjectRuntimes, SequenceLemmas, TLAPS

(***************************************************************************)
(* What the operators return.                                              *)
(***************************************************************************)
(* A list of scopes without repetition that holds the scopes of S. *)
Lists(order, S) == order \in Seq(Scopes) /\ IsInjective(order) /\ Range(order) = S

(* A scope that is touched is listed once, as the last one. *)
LEMMA TouchedLists ==
  ASSUME NEW order, NEW S, Lists(order, S), NEW s \in Scopes
  PROVE  Lists(Touched(order, s), S \cup {s})
<1> DEFINE d == Dropping(order, {s})
<1>1. d \in Seq(Scopes) /\ Range(d) = S \ {s} /\ IsInjective(d)
  <2>1. d \in Seq(Scopes \ {s}) /\ Range(d) = S \ {s} /\ IsInjective(d)
    BY DroppingProperties DEF Lists
  <2> QED BY <2>1, SeqMonotonic
<1>2. <<s>> \in Seq(Scopes) /\ Range(<<s>>) = {s} /\ IsInjective(<<s>>)
  BY DEF Range, IsInjective
<1> HIDE DEF d
<1>3. Append(d, s) = d \o <<s>>
  BY <1>1, AppendIsConcat
<1>4. /\ d \o <<s>> \in Seq(Scopes)
      /\ Range(d \o <<s>>) = Range(d) \cup Range(<<s>>)
      /\ IsInjective(d \o <<s>>)
  <2>1. Range(d) \cap Range(<<s>>) = {}
    BY <1>1, <1>2
  <2> QED BY <1>1, <1>2, <2>1, ConcatElements
<1>5. Lists(d \o <<s>>, S \cup {s})
  BY <1>1, <1>2, <1>4 DEF Lists
<1> QED BY <1>3, <1>5 DEF Touched, d

(* What is forgotten is not listed any more. *)
LEMMA DroppingLists ==
  ASSUME NEW order, NEW S, Lists(order, S), NEW gone
  PROVE  Lists(Dropping(order, gone), S \ gone)
<1>1. /\ Dropping(order, gone) \in Seq(Scopes \ gone)
      /\ Range(Dropping(order, gone)) = S \ gone
      /\ IsInjective(Dropping(order, gone))
  BY DroppingProperties DEF Lists
<1> QED BY <1>1, SeqMonotonic DEF Lists

(* The eviction loop drops what it evicts and keeps the others, each once. *)
LEMMA RotatedLists ==
  ASSUME NEW order, NEW S, Lists(order, S), NEW gone
  PROVE  Lists(Rotated(order, gone), S \ gone)
<1> DEFINE n == Len(order)
           IsLast(i) == /\ \A k \in DOMAIN order : order[k] \in gone => k <= i
                        /\ i > 0 => order[i] \in gone
           last == CHOOSE i \in 0..n : IsLast(i)
           a == SubSeq(order, 1, last)
           b == SubSeq(order, last + 1, n)
           d == Dropping(a, gone)
<1>1. order \in Seq(Scopes) /\ n \in Nat /\ DOMAIN order = 1..n
  BY LenProperties DEF Lists
<1>2. \E i \in 0..n : IsLast(i)
  <2> DEFINE T == {k \in 1..n : order[k] \in gone}
  <2>1. CASE T = {}
    <3>1. IsLast(0) /\ 0 \in 0..n
      BY <1>1, <2>1
    <3> QED BY <3>1
  <2>2. CASE T # {}
    <3>1. T \in SUBSET (0..n)
      BY <1>1
    <3> HIDE DEF T
    <3>2. PICK i \in T : \A k \in T : k <= i
      BY <1>1, <2>2, <3>1, GreatestNumber
    <3>3. IsLast(i)
      BY <1>1, <3>2 DEF T
    <3> QED BY <3>1, <3>2, <3>3
  <2> QED BY <2>1, <2>2
<1>3. last \in 0..n /\ IsLast(last)
  <2> HIDE DEF IsLast
  <2> QED BY <1>2
<1>4. /\ a \in Seq(Scopes) /\ b \in Seq(Scopes)
      /\ Range(a) = {order[i] : i \in 1..last}
      /\ Range(b) = {order[i] : i \in last + 1..n}
      /\ IsInjective(a) /\ IsInjective(b) /\ Range(a) \cap Range(b) = {}
  <2> HIDE DEF last
  <2> QED BY <1>1, <1>3, PartsElements DEF Lists
<1>5. Range(a) \cup Range(b) = S
  <2>1. S = {order[i] : i \in 1..n}
    BY <1>1 DEF Lists, Range
  <2>2. \A i \in Int : i \in 1..n <=> i \in 1..last \/ i \in last + 1..n
    <3> HIDE DEF last, n
    <3> QED BY <1>1, <1>3
  <2> HIDE DEF last, n, a, b
  <2> QED BY <1>4, <2>1, <2>2
<1>6. Range(b) \cap gone = {}
  <2>1. \A i \in last + 1..n : i \in 1..n /\ ~ (i <= last)
    <3> HIDE DEF last, n
    <3> QED BY <1>1, <1>3
  <2> HIDE DEF last, a, b
  <2> QED BY <1>1, <1>3, <1>4, <2>1
<1>7. d \in Seq(Scopes) /\ Range(d) = Range(a) \ gone /\ IsInjective(d)
  <2> HIDE DEF a
  <2>1. d \in Seq(Scopes \ gone) /\ Range(d) = Range(a) \ gone /\ IsInjective(d)
    BY <1>4, DroppingProperties
  <2> QED BY <2>1, SeqMonotonic
<1>8. Rotated(order, gone) = b \o d
  BY DEF Rotated
<1> HIDE DEF a, b, d
<1>9. /\ b \o d \in Seq(Scopes)
      /\ Range(b \o d) = Range(b) \cup Range(d)
      /\ IsInjective(b \o d)
  <2>1. Range(b) \cap Range(d) = {}
    BY <1>4, <1>7
  <2> QED BY <1>4, <1>7, <2>1, ConcatElements
<1> QED BY <1>5, <1>6, <1>7, <1>8, <1>9 DEF Lists

(* Only listed scopes are evicted that are not protected and whose runtime nobody
   was lent. *)
LEMMA VictimsAreLoose ==
  ASSUME NEW t, NEW order, NEW s, NEW x \in Victims(t, order, s)
  PROVE  x \in Range(order) /\ Evictable(t, x, s)
BY DEF Victims, Range

(* The first unused slot of a scope. *)
LEMMA SpawnedBuild ==
  ASSUME NEW s \in Scopes,
         {i \in Slots : builds[<<s, i>>] = Blank} # {}
  PROVE  LET unused == {i \in Slots : builds[<<s, i>>] = Blank}
             b == <<s, CHOOSE i \in unused : \A j \in unused : i <= j>>
         IN  b \in Builds /\ ScopeOf(b) = s /\ builds[b] = Blank
<1> DEFINE unused == {i \in Slots : builds[<<s, i>>] = Blank}
           first == CHOOSE i \in unused : \A j \in unused : i <= j
<1>1. unused \subseteq Nat /\ unused # {}
  BY RuntimesAssumption DEF RuntimesAssumption
<1>2. first \in unused
  <2> HIDE DEF unused
  <2>1. \E i \in unused : \A j \in unused : i <= j
    BY <1>1, LeastNumber
  <2> QED BY <2>1
<1> HIDE DEF first
<1>3. first \in Slots /\ builds[<<s, first>>] = Blank
  BY <1>2
<1>4. <<s, first>> \in Builds /\ ScopeOf(<<s, first>>) = s
  BY <1>3 DEF Builds, ScopeOf
<1> QED BY <1>3, <1>4 DEF first

(***************************************************************************)
(* The inductive invariant.                                                *)
(***************************************************************************)
(* What a thread t holds at each point of its work. *)
Fits(t, k) ==
  /\ k.pc = "idle" => k = Idle
  /\ k.pc \in {"collect", "take", "lookup", "sweep"} => k.ticket = None /\ k.ctx = None
  /\ k.pc \in {"wait", "await"} =>
       k.ticket # None /\ k.ctx = None /\ ScopeOf(k.ticket) = k.scope
  /\ k.pc \in {"install", "retire", "use"} => k.ctx # None
  /\ k.pc = "use" => k.ticket = None
  /\ k.pc = "use" \/ (k.pc \in {"install", "retire"} /\ k.ticket # None) =>
       ScopeOf(k.ctx) = k.scope
  /\ k.pc # "retire" => k.junk = {}
  /\ t \in Sweepers => k.ticket = None /\ k.pc \notin {"lookup", "wait", "await", "use"}
  /\ t \in Requests /\ k.pc # "idle" => k.scope \in Scopes

ThreadsFit == \A t \in Threads : Fits(t, thread[t])

(* A ticket and a runtime are those of the scope they are filed under. *)
FiledUnderScope ==
  \A s \in Scopes : /\ entries[s] # None => ScopeOf(entries[s]) = s
                    /\ inFlight[s] # None => ScopeOf(inFlight[s]) = s

(* A runtime that is referred to has been taken out of its ticket; a ticket somebody
   waits for is that of a build. *)
HeldIsTaken ==
  \A b \in Builds : /\ ContextHeld(b) => builds[b].stage = "taken"
                    /\ TicketHeld(b) => builds[b].stage # "unused"

(* Nobody else has the runtime a thread is about to install. *)
InstalledOnce ==
  \A t \in Threads : thread[t].pc = "install" =>
    LET b == thread[t].ctx IN
    /\ b # active
    /\ \A s \in Scopes : entries[s] # b
    /\ \A u \in Threads : b \notin thread[u].junk /\ (u # t => thread[u].ctx # b)

(* Nobody else has a runtime a thread is about to shut down. *)
JunkIsLoose ==
  \A t \in Threads : \A b \in thread[t].junk :
    /\ b # active
    /\ \A s \in Scopes : entries[s] # b
    /\ \A u \in Threads : thread[u].ctx # b /\ (u # t => b \notin thread[u].junk)

(* Nobody has one that was shut down, nor will get one out of a ticket. *)
StoppedIsFree ==
  \A b \in Builds : builds[b].stopped => (builds[b].stage = "taken" /\ ~ContextHeld(b))

(* A runtime in use is the cached one, unless its directory is gone. *)
LentIsCached ==
  \A b \in Builds :
    b = active \/ (\E t \in Threads : thread[t].pc \in {"use", "retire"} /\ thread[t].ctx = b)
      => builds[b].reaped \/ entries[ScopeOf(b)] = b

(* A session is bound to the project it has asked for last. *)
SessionsScope == \A t \in Sessions : thread[t].pc # "idle" => thread[t].scope = pins[t]

Inv == /\ TypeOK /\ ThreadsFit /\ FiledUnderScope /\ HeldIsTaken /\ InstalledOnce
       /\ JunkIsLoose /\ StoppedIsFree /\ LentIsCached /\ SessionsScope

(***************************************************************************)
(* What one step does to the references and to the builds.                 *)
(***************************************************************************)
(* None is none of the ids. *)
LEMMA Ids ==
  /\ None \notin Scopes /\ None \notin Builds
  /\ \A b \in Builds : ScopeOf(b) \in Scopes
  /\ Requests \subseteq Threads /\ Sweepers \subseteq Threads
  /\ Sessions \subseteq Requests /\ Switchers \subseteq Requests \ Sessions
  /\ Requests \cap Sweepers = {}
BY RuntimesAssumption DEF RuntimesAssumption, Builds, ScopeOf, Threads

(* Dropping what nobody refers to leaves alone what somebody does. *)
LEMMA KeptProperties ==
  ASSUME NEW bs \in [Builds -> Build], builds' \in {bs, Kept(bs)}
  PROVE  /\ builds' \in [Builds -> Build]
         /\ \A b \in Builds : ContextHeld(b)' => builds'[b] = bs[b]
         /\ \A b \in Builds : TicketHeld(b)' => builds'[b].stage = bs[b].stage
         /\ \A b \in Builds : builds'[b].stopped =>
              bs[b].stopped /\ builds'[b].stage = bs[b].stage
<1>1. CASE builds' = bs
  BY <1>1
<1>2. CASE builds' = Kept(bs)
  <2>1. ASSUME NEW b \in Builds
        PROVE  /\ builds'[b] \in Build
               /\ ContextHeld(b)' => builds'[b] = bs[b]
               /\ TicketHeld(b)' => builds'[b].stage = bs[b].stage
               /\ builds'[b].stopped => bs[b].stopped /\ builds'[b].stage = bs[b].stage
    <3> DEFINE c == ContextHeld(b)'
               w == TicketHeld(b)'
    <3>1. builds'[b] = IF bs[b].stage \in {"spawned", "building"} \/ c THEN bs[b]
                       ELSE IF ~w THEN Blank
                       ELSE IF bs[b].stage = "taken" THEN [bs[b] EXCEPT !.role = "none"]
                       ELSE bs[b]
      BY <1>2 DEF Kept
    <3>2. bs[b] \in Build /\ Blank \in Build /\ Blank.stopped = FALSE
      BY DEF Build, Blank
    <3>3. /\ [bs[b] EXCEPT !.role = "none"] \in Build
          /\ [bs[b] EXCEPT !.role = "none"].stage = bs[b].stage
          /\ [bs[b] EXCEPT !.role = "none"].stopped = bs[b].stopped
      BY <3>2 DEF Build
    <3> HIDE DEF c, w
    <3>4. /\ builds'[b] \in Build
          /\ c => builds'[b] = bs[b]
          /\ w => builds'[b].stage = bs[b].stage
          /\ builds'[b].stopped => bs[b].stopped /\ builds'[b].stage = bs[b].stage
      BY <3>1, <3>2, <3>3
    <3> QED BY <3>4 DEF c, w
  <2>2. builds' = [b \in Builds |-> builds'[b]]
    BY <1>2 DEF Kept
  <2> QED BY <2>1, <2>2
<1> QED BY <1>1, <1>2

(* One thread goes on, and the references it takes are such that the invariant
   stays.  Every step of a thread is of this form. *)
LEMMA MoveKeeps ==
  ASSUME Inv, TypeOK',
         NEW t \in Threads, NEW k \in Task, Becomes(t, k), Fits(t, k),
         NEW bs \in [Builds -> Build], builds' \in {bs, Kept(bs)},
         \A b \in Builds :
           /\ builds[b].stage = "taken" => bs[b].stage = "taken"
           /\ builds[b].stage # "unused" => bs[b].stage # "unused"
           /\ builds[b].reaped => bs[b].reaped
           /\ bs[b].stopped => \/ builds[b].stopped
                               \/ b \in thread[t].junk \ k.junk,
         \A b \in k.todo \cup ({k.ticket} \ {None}) : bs[b].stage # "unused",
         \A s \in Scopes : inFlight'[s] # None =>
           ScopeOf(inFlight'[s]) = s /\ bs[inFlight'[s]].stage # "unused",
         active' \in {None, active} \/ (thread[t].pc = "use" /\ active' = thread[t].ctx),
         \A s \in Scopes :
           \/ entries'[s] \in {None, entries[s]}
           \/ /\ thread[t].pc = "install" /\ k.pc # "install"
              /\ entries'[s] = thread[t].ctx /\ ScopeOf(entries'[s]) = s,
         \A s \in Scopes :
           \/ entries[s] \in {None, entries'[s]}
           \/ bs[entries[s]].reaped
           \/ (entries[s] # active' /\ \A u \in Threads : thread'[u].ctx # entries[s]),
         k.ctx # None =>
           \/ /\ k.pc = "install" /\ thread[t].pc # "install"
              /\ builds[k.ctx].stage = "ready" /\ bs[k.ctx].stage = "taken"
           \/ /\ k.pc # "install"
              /\ \/ k.ctx \in {thread[t].ctx, active}
                 \/ \E s \in Scopes : entries[s] = k.ctx,
         k.pc \in {"use", "retire"} => bs[k.ctx].reaped \/ entries'[ScopeOf(k.ctx)] = k.ctx,
         \A b \in k.junk :
           \/ b \in thread[t].junk
           \/ /\ bs[b].stage = "taken" /\ b # active'
              /\ \A s \in Scopes : entries'[s] # b
              /\ \A u \in Threads : thread'[u].ctx # b /\ (u # t => b \notin thread[u].junk)
              /\ ~bs[b].stopped,
         \A x \in Sessions \ {t} : pins'[x] = pins[x],
         t \in Sessions /\ k.pc # "idle" => k.scope = pins'[t]
  PROVE  Inv'
<1>0. /\ TypeOK /\ ThreadsFit /\ FiledUnderScope /\ HeldIsTaken /\ InstalledOnce
      /\ JunkIsLoose /\ StoppedIsFree /\ LentIsCached /\ SessionsScope
  BY DEF Inv
<1>1. /\ thread'[t] = k /\ \A u \in Threads \ {t} : thread'[u] = thread[u]
      /\ thread \in [Threads -> Task] /\ thread' \in [Threads -> Task]
  BY <1>0 DEF Becomes, TypeOK
<1>2. /\ \A u \in Threads : thread[u].ctx \in Builds \cup {None}
      /\ \A u \in Threads : thread[u].junk \subseteq Builds
      /\ k.ctx \in Builds \cup {None} /\ k.junk \subseteq Builds
  BY <1>1 DEF Task
<1>3. /\ builds \in [Builds -> Build] /\ builds' \in [Builds -> Build]
      /\ \A s \in Scopes : entries[s] \in Builds \cup {None}
      /\ active \in Builds \cup {None}
      /\ None \notin Builds /\ \A b \in Builds : ScopeOf(b) \in Scopes
  BY <1>0, Ids DEF TypeOK
<1>4. /\ \A b \in Builds : ContextHeld(b)' => builds'[b] = bs[b]
      /\ \A b \in Builds : TicketHeld(b)' => builds'[b].stage = bs[b].stage
      /\ \A b \in Builds : builds'[b].stopped => bs[b].stopped /\ builds'[b].stage = bs[b].stage
  BY KeptProperties
(* The contexts held after the step. *)
<1>5. ASSUME NEW b \in Builds
      PROVE  ContextHeld(b) <=> \/ b = active
                                \/ \E u \in Threads : thread[u].ctx = b
                                \/ \E s \in Scopes : entries[s] = b
                                \/ \E u \in Threads : b \in thread[u].junk
  BY DEF ContextHeld, Lent
<1>6. ASSUME NEW b \in Builds
      PROVE  ContextHeld(b)' <=> \/ b = active'
                                 \/ \E u \in Threads : thread'[u].ctx = b
                                 \/ \E s \in Scopes : entries'[s] = b
                                 \/ \E u \in Threads : b \in thread'[u].junk
  BY DEF ContextHeld, Lent
<1>7. ASSUME NEW b \in Builds, ContextHeld(b)'
      PROVE  \/ ContextHeld(b)
             \/ b = k.ctx /\ k.pc = "install"
             \/ b \in k.junk \ thread[t].junk
  BY <1>1, <1>2, <1>3, <1>5, <1>6, <1>7
<1>18. /\ \A b \in Builds : ContextHeld(b) => builds[b].stage = "taken"
       /\ \A b \in Builds : TicketHeld(b) => builds[b].stage # "unused"
  <2>1. HeldIsTaken
    BY <1>0
  <2> QED BY <2>1, Zenon DEF HeldIsTaken
<1>8. ASSUME NEW b \in Builds, ContextHeld(b)' PROVE bs[b].stage = "taken"
  <2>1. CASE ContextHeld(b)
    BY <1>18, <2>1
  <2> QED BY <1>3, <1>7, <1>8, <2>1
<1>9. ThreadsFit'
  <2>1. ASSUME NEW u \in Threads PROVE Fits(u, thread'[u])
    BY <1>0, <1>1 DEF ThreadsFit
  <2> QED BY <2>1 DEF ThreadsFit, Fits
<1>10. FiledUnderScope'
  BY <1>0 DEF FiledUnderScope
<1>11. HeldIsTaken'
  <2>1. ASSUME NEW b \in Builds, TicketHeld(b)' PROVE bs[b].stage # "unused"
    <3>1. \/ \E s \in Scopes : inFlight'[s] = b
          \/ \E u \in Threads : thread'[u].ticket = b \/ b \in thread'[u].todo
      BY <2>1 DEF TicketHeld
    <3>2. CASE \E s \in Scopes : inFlight'[s] = b
      BY <1>3, <3>2
    <3>3. ASSUME NEW u \in Threads \ {t}, thread'[u].ticket = b \/ b \in thread'[u].todo
          PROVE  bs[b].stage # "unused"
      <4>1. TicketHeld(b)
        BY <1>1, <3>3 DEF TicketHeld
      <4> QED BY <1>18, <4>1
    <3>4. CASE k.ticket = b \/ b \in k.todo
      BY <1>3, <3>4
    <3> QED BY <1>1, <3>1, <3>2, <3>3, <3>4
  <2>2. ASSUME NEW b \in Builds
        PROVE  /\ ContextHeld(b)' => builds'[b].stage = "taken"
               /\ TicketHeld(b)' => builds'[b].stage # "unused"
    BY <1>4, <1>8, <2>1
  <2> QED BY <2>2 DEF HeldIsTaken
(* What is ready is nobody's yet. *)
<1>12. ASSUME k.ctx # None, k.pc = "install"
       PROVE  ~ContextHeld(k.ctx) /\ k.ctx \in Builds /\ thread[t].pc # "install"
  BY <1>2, <1>12, <1>18
<1>13. InstalledOnce'
  <2> SUFFICES ASSUME NEW u \in Threads, thread'[u].pc = "install"
               PROVE  LET b == thread'[u].ctx IN
                      /\ b # active'
                      /\ \A s \in Scopes : entries'[s] # b
                      /\ \A w \in Threads : b \notin thread'[w].junk /\ (w # u => thread'[w].ctx # b)
    BY DEF InstalledOnce
  <2> DEFINE b == thread'[u].ctx
  <2>1. b \in Builds
    BY <1>1, <1>2, <1>9 DEF ThreadsFit, Fits
  <2>2. CASE u = t
    <3>1. ~ContextHeld(b) /\ thread[t].pc # "install" /\ b = k.ctx /\ k.pc = "install"
      BY <1>1, <1>3, <1>12, <2>1, <2>2
    <3>2. k.junk = {}
      BY <3>1 DEF Fits
    <3> HIDE DEF b
    <3>3. b # active' /\ \A s \in Scopes : entries'[s] # b
      BY <1>3, <1>5, <2>1, <3>1
    <3>4. \A w \in Threads : b \notin thread'[w].junk /\ (w # t => thread'[w].ctx # b)
      BY <1>1, <1>5, <2>1, <3>1, <3>2
    <3> QED BY <2>2, <3>3, <3>4 DEF b
  <2>3. CASE u # t
    <3>1. thread[u].pc = "install" /\ b = thread[u].ctx
      BY <1>1, <2>3
    <3>2. /\ b # active
          /\ \A s \in Scopes : entries[s] # b
          /\ \A w \in Threads : b \notin thread[w].junk /\ (w # u => thread[w].ctx # b)
      BY <1>0, <3>1 DEF InstalledOnce
    <3>3. ContextHeld(b)
      BY <1>5, <2>1, <3>1
    <3>4. thread'[u].ctx = b /\ thread[t].ctx # b
      BY <2>3, <3>2
    <3> HIDE DEF b
    <3>5. b # active' /\ \A s \in Scopes : entries'[s] # b
      BY <1>3, <2>1, <3>2, <3>4
    <3>6. k.ctx # b /\ b \notin k.junk
      BY <1>3, <1>12, <2>1, <3>2, <3>3, <3>4
    <3>7. \A w \in Threads : b \notin thread'[w].junk /\ (w # u => thread'[w].ctx # b)
      BY <1>1, <3>2, <3>6
    <3> QED BY <3>5, <3>7 DEF b
  <2> QED BY <2>2, <2>3
<1>14. JunkIsLoose'
  <2> SUFFICES ASSUME NEW u \in Threads, NEW b \in thread'[u].junk
               PROVE  /\ b # active'
                      /\ \A s \in Scopes : entries'[s] # b
                      /\ \A w \in Threads : thread'[w].ctx # b /\ (w # u => b \notin thread'[w].junk)
    BY DEF JunkIsLoose
  <2>1. b \in Builds
    BY <1>1, <1>2
  <2>2. ASSUME NEW v \in Threads, b \in thread[v].junk
        PROVE  /\ b # active'
               /\ \A s \in Scopes : entries'[s] # b
               /\ \A w \in Threads : thread'[w].ctx # b
               /\ \A w \in Threads : w # v => b \notin thread[w].junk
    <3>1. /\ b # active
          /\ \A s \in Scopes : entries[s] # b
          /\ \A w \in Threads : thread[w].ctx # b /\ (w # v => b \notin thread[w].junk)
      BY <1>0, <2>2 DEF JunkIsLoose
    <3>2. ContextHeld(b)
      BY <1>5, <2>1, <2>2
    <3>3. k.ctx # b
      BY <1>12, <2>1, <1>3, <3>1, <3>2
    <3>4. \A w \in Threads : thread'[w].ctx # b
      BY <1>1, <3>1, <3>3
    <3>5. b # active' /\ \A s \in Scopes : entries'[s] # b
      BY <1>3, <2>1, <3>1
    <3> QED BY <3>1, <3>4, <3>5
  <2>3. CASE u # t
    <3>1. b \in thread[u].junk
      BY <1>1, <2>3
    <3>2. b \notin k.junk
      BY <2>2, <2>3, <3>1
    <3> QED BY <1>1, <2>2, <3>1, <3>2
  <2>4. CASE u = t /\ b \in thread[t].junk
    BY <1>1, <2>2, <2>4
  <2>5. CASE u = t /\ b \notin thread[t].junk
    BY <1>1, <2>5
  <2> QED BY <2>3, <2>4, <2>5
<1>15. StoppedIsFree'
  <2> SUFFICES ASSUME NEW b \in Builds, builds'[b].stopped
               PROVE  builds'[b].stage = "taken" /\ ~ContextHeld(b)'
    BY DEF StoppedIsFree
  <2>1. bs[b].stopped /\ builds'[b].stage = bs[b].stage
    BY <1>4
  <2>2. CASE builds[b].stopped
    <3>1. builds[b].stage = "taken" /\ ~ContextHeld(b)
      BY <1>0, <2>2 DEF StoppedIsFree
    <3>2. ~ContextHeld(b)'
      BY <1>3, <1>7, <2>1, <3>1
    <3> QED BY <2>1, <3>1, <3>2
  <2>3. CASE b \in thread[t].junk \ k.junk
    <3>1. /\ b # active
          /\ \A s \in Scopes : entries[s] # b
          /\ \A w \in Threads : thread[w].ctx # b /\ (w # t => b \notin thread[w].junk)
      BY <1>0, <2>3 DEF JunkIsLoose
    <3>2. ContextHeld(b)
      BY <1>5, <2>3
    <3>3. k.ctx # b
      BY <1>3, <1>12, <3>1, <3>2
    <3>4. \A w \in Threads : thread'[w].ctx # b /\ b \notin thread'[w].junk
      BY <1>1, <2>3, <3>1, <3>3
    <3>5. b # active' /\ \A s \in Scopes : entries'[s] # b
      BY <1>3, <3>1
    <3> QED BY <1>6, <1>18, <2>1, <3>2, <3>4, <3>5
  <2> QED BY <2>1, <2>2, <2>3
<1>16. LentIsCached'
  <2> SUFFICES ASSUME NEW b \in Builds,
                      \/ b = active'
                      \/ \E u \in Threads : thread'[u].pc \in {"use", "retire"} /\ thread'[u].ctx = b
               PROVE  builds'[b].reaped \/ entries'[ScopeOf(b)] = b
    BY DEF LentIsCached
  <2>1. builds'[b] = bs[b]
    BY <1>4, <1>6
  <2>2. CASE /\ b = active \/ \E u \in Threads : thread[u].pc \in {"use", "retire"} /\ thread[u].ctx = b
             /\ b = active' \/ \E u \in Threads : thread'[u].ctx = b
    <3>1. builds[b].reaped \/ entries[ScopeOf(b)] = b
      BY <1>0, <2>2 DEF LentIsCached
    <3>2. entries[ScopeOf(b)] = b => bs[b].reaped \/ entries'[ScopeOf(b)] = b
      BY <1>3, <2>2
    <3> QED BY <2>1, <3>1, <3>2
  <2>3. CASE k.pc \in {"use", "retire"} /\ k.ctx = b
    BY <2>1, <2>3
  <2> QED BY <1>1, <1>3, <2>2, <2>3
<1>17. SessionsScope'
  BY <1>0, <1>1, Ids DEF SessionsScope
<1> QED BY <1>9, <1>10, <1>11, <1>13, <1>14, <1>15, <1>16, <1>17 DEF Inv

(* The types, for the same steps. *)
LEMMA MoveType ==
  ASSUME TypeOK, NEW t \in Threads, NEW k \in Task, Becomes(t, k),
         NEW bs \in [Builds -> Build], builds' \in {bs, Kept(bs)},
         inFlight' \in [Scopes -> Builds \cup {None}],
         entries' \in [Scopes -> Builds \cup {None}],
         Lists(recency', Cached'), quiet' \subseteq Cached',
         active' \in Builds \cup {None},
         pins' \in [Sessions -> Scopes \cup {None}],
         served' \in [Sessions -> Builds \cup {None}],
         UNCHANGED worldVars
  PROVE  TypeOK'
<1>1. builds' \in [Builds -> Build]
  BY KeptProperties
<1>2. thread' \in [Threads -> Task]
  BY DEF Becomes, TypeOK
<1> QED BY <1>1, <1>2 DEF TypeOK, Lists, worldVars

(* A thread and the parts of what it does. *)
LEMMA Parts ==
  ASSUME Inv, NEW t \in Threads
  PROVE  /\ thread[t] \in Task /\ Fits(t, thread[t])
         /\ thread[t].scope \in Scopes \cup {None}
         /\ thread[t].ticket \in Builds \cup {None} /\ thread[t].ctx \in Builds \cup {None}
         /\ thread[t].todo \subseteq Builds /\ thread[t].junk \subseteq Builds
         /\ Lists(recency, Cached)
         /\ builds \in [Builds -> Build]
         /\ \A b \in Builds : builds[b] = [builds[b] EXCEPT !.stage = builds[b].stage]
         /\ \A b \in Builds : TicketHeld(b) => builds[b].stage # "unused"
         /\ \A b \in Builds : ContextHeld(b) => builds[b].stage = "taken"
<1>1. TypeOK /\ ThreadsFit /\ HeldIsTaken
  BY DEF Inv
<1>2. thread[t] \in Task
  BY <1>1 DEF TypeOK
<1>3. Fits(t, thread[t])
  BY <1>1 DEF ThreadsFit
<1>4. builds \in [Builds -> Build]
  BY <1>1 DEF TypeOK
<1>5. \A b \in Builds : builds[b] = [builds[b] EXCEPT !.stage = builds[b].stage]
  BY <1>4 DEF Build
<1>6. Lists(recency, Cached)
  BY <1>1 DEF TypeOK, Lists
<1>7. /\ \A b \in Builds : TicketHeld(b) => builds[b].stage # "unused"
      /\ \A b \in Builds : ContextHeld(b) => builds[b].stage = "taken"
  BY <1>1 DEF HeldIsTaken
<1>8. /\ thread[t].scope \in Scopes \cup {None}
      /\ thread[t].ticket \in Builds \cup {None} /\ thread[t].ctx \in Builds \cup {None}
      /\ thread[t].todo \subseteq Builds /\ thread[t].junk \subseteq Builds
  BY <1>2 DEF Task
<1> QED BY <1>2, <1>3, <1>4, <1>5, <1>6, <1>7, <1>8

(* A ticket in a scope's slot, or in a thread's hands, is that of a build. *)
LEMMA Tickets ==
  ASSUME Inv
  PROVE  /\ \A s \in Scopes : inFlight[s] # None =>
              /\ inFlight[s] \in Builds /\ ScopeOf(inFlight[s]) = s
              /\ builds[inFlight[s]].stage # "unused"
         /\ \A t \in Threads : \A b \in thread[t].todo \cup ({thread[t].ticket} \ {None}) :
              b \in Builds /\ builds[b].stage # "unused"
         /\ inFlight \in [Scopes -> Builds \cup {None}]
<1>1. TypeOK /\ FiledUnderScope /\ HeldIsTaken
  BY DEF Inv
<1>2. inFlight \in [Scopes -> Builds \cup {None}]
  BY <1>1 DEF TypeOK
<1>3. \A b \in Builds : TicketHeld(b) => builds[b].stage # "unused"
  BY <1>1 DEF HeldIsTaken
<1>4. ASSUME NEW s \in Scopes, inFlight[s] # None
      PROVE  /\ inFlight[s] \in Builds /\ ScopeOf(inFlight[s]) = s
             /\ builds[inFlight[s]].stage # "unused"
  <2>1. inFlight[s] \in Builds /\ ScopeOf(inFlight[s]) = s
    BY <1>1, <1>2, <1>4 DEF FiledUnderScope
  <2>2. TicketHeld(inFlight[s])
    BY DEF TicketHeld
  <2> QED BY <1>3, <2>1, <2>2
<1>5. ASSUME NEW t \in Threads, NEW b \in thread[t].todo \cup ({thread[t].ticket} \ {None})
      PROVE  b \in Builds /\ builds[b].stage # "unused"
  <2>1. b \in Builds
    BY <1>5, Parts
  <2>2. TicketHeld(b)
    BY <1>5 DEF TicketHeld
  <2> QED BY <1>3, <2>1, <2>2
<1> QED BY <1>2, <1>4, <1>5

(* The runtimes a thread, the cache and the server hold. *)
LEMMA Contexts ==
  ASSUME Inv
  PROVE  /\ \A s \in Scopes : entries[s] # None =>
              /\ entries[s] \in Builds /\ ScopeOf(entries[s]) = s
              /\ builds[entries[s]].stage = "taken"
         /\ \A t \in Threads : thread[t].ctx # None =>
              thread[t].ctx \in Builds /\ builds[thread[t].ctx].stage = "taken"
         /\ active # None => active \in Builds /\ builds[active].stage = "taken"
         /\ entries \in [Scopes -> Builds \cup {None}]
         /\ \A b \in Builds : builds[b].stopped =>
              builds[b].stage = "taken" /\ ~ContextHeld(b)
<1>1. TypeOK /\ FiledUnderScope /\ HeldIsTaken /\ StoppedIsFree
  BY DEF Inv
<1>2. entries \in [Scopes -> Builds \cup {None}] /\ active \in Builds \cup {None}
  BY <1>1 DEF TypeOK
<1>3. \A b \in Builds : ContextHeld(b) => builds[b].stage = "taken"
  BY <1>1 DEF HeldIsTaken
<1>4. ASSUME NEW s \in Scopes, entries[s] # None
      PROVE  /\ entries[s] \in Builds /\ ScopeOf(entries[s]) = s
             /\ builds[entries[s]].stage = "taken"
  <2>1. entries[s] \in Builds /\ ScopeOf(entries[s]) = s
    BY <1>1, <1>2, <1>4 DEF FiledUnderScope
  <2>2. ContextHeld(entries[s])
    BY DEF ContextHeld
  <2> QED BY <1>3, <2>1, <2>2
<1>5. ASSUME NEW t \in Threads, thread[t].ctx # None
      PROVE  thread[t].ctx \in Builds /\ builds[thread[t].ctx].stage = "taken"
  <2>1. thread[t].ctx \in Builds
    BY <1>5, Parts
  <2>2. ContextHeld(thread[t].ctx)
    BY DEF ContextHeld, Lent
  <2> QED BY <1>3, <2>1, <2>2
<1>6. ASSUME active # None PROVE active \in Builds /\ builds[active].stage = "taken"
  <2>1. ContextHeld(active)
    BY DEF ContextHeld, Lent
  <2> QED BY <1>2, <1>3, <1>6, <2>1
<1>7. \A b \in Builds : builds[b].stopped => builds[b].stage = "taken" /\ ~ContextHeld(b)
  BY <1>1 DEF StoppedIsFree
<1> QED BY <1>2, <1>4, <1>5, <1>6, <1>7

(* Through with one build. *)
LEMMA InstalledFits ==
  ASSUME NEW t \in Threads, NEW k \in Task,
         k.junk # {} \/ k.ticket # None => k.ctx # None,
         k.ticket # None => ScopeOf(k.ctx) = k.scope,
         t \in Sweepers => k.ticket = None,
         t \in Requests => k.scope \in Scopes
  PROVE  LET m == Installed(t, k) IN
         /\ m \in Task /\ Fits(t, m)
         /\ m.scope = k.scope /\ m.todo = k.todo /\ m.junk = k.junk
         /\ m.ticket \in {None, k.ticket} /\ m.ctx \in {None, k.ctx}
         /\ m.pc \in {"retire", "use", "take", "sweep", "lookup"}
         /\ m.pc \in {"retire", "use"} => m.ctx = k.ctx /\ k.ctx # None
<1> DEFINE m == Installed(t, k)
<1>1. CASE k.junk # {}
  <2>1. m = [k EXCEPT !.pc = "retire"]
    BY <1>1 DEF Installed
  <2> QED BY <1>1, <2>1 DEF Task, Fits
<1>2. CASE k.junk = {} /\ k.ticket # None
  <2>1. m = [k EXCEPT !.pc = "use", !.ticket = None]
    BY <1>2 DEF Installed
  <2> QED BY <1>2, <2>1 DEF Task, Fits
<1>3. CASE k.junk = {} /\ k.ticket = None /\ k.todo # {}
  <2>1. m = [k EXCEPT !.pc = "take", !.ctx = None]
    BY <1>3 DEF Installed
  <2> QED BY <1>3, <2>1 DEF Task, Fits
<1>4. CASE k.junk = {} /\ k.ticket = None /\ k.todo = {}
  <2>1. m = [k EXCEPT !.pc = IF t \in Sweepers THEN "sweep" ELSE "lookup", !.ctx = None]
    BY <1>4 DEF Installed, Collected, Task
  <2> QED BY <1>4, <2>1 DEF Task, Fits
<1> QED BY <1>1, <1>2, <1>3, <1>4

(***************************************************************************)
(* The invariant, action by action.                                        *)
(***************************************************************************)
LEMMA InitEstablishes ==
  ASSUME Init
  PROVE  Inv
<1>1. Idle \in Task /\ Blank \in Build
  BY DEF Idle, Task, Blank, Build
<1>2. <<>> \in Seq(Scopes) /\ IsInjective(<<>>) /\ Range(<<>>) = {} /\ Cached = {}
  BY DEF Init, Cached, IsInjective, Range
<1>3. TypeOK
  BY <1>1, <1>2, RuntimesAssumption DEF Init, TypeOK, RuntimesAssumption
<1>4. /\ \A b \in Builds : ~ContextHeld(b) /\ ~TicketHeld(b)
      /\ \A b \in Builds : builds[b].stopped = FALSE
      /\ \A t \in Threads : /\ thread[t] = Idle /\ thread[t].junk = {} /\ thread[t].ctx = None
                            /\ thread[t].pc = "idle"
      /\ active = None
  BY Ids DEF Init, ContextHeld, Lent, TicketHeld, Idle, Blank
<1>5. ThreadsFit
  <2>1. \A t : Fits(t, Idle)
    BY DEF Fits, Idle
  <2> QED BY <1>4, <2>1 DEF ThreadsFit
<1>6. FiledUnderScope
  BY DEF Init, FiledUnderScope
<1>7. HeldIsTaken /\ StoppedIsFree
  BY <1>4 DEF HeldIsTaken, StoppedIsFree
<1>8. InstalledOnce /\ JunkIsLoose /\ SessionsScope
  BY <1>4, Ids DEF InstalledOnce, JunkIsLoose, SessionsScope
<1>9. LentIsCached
  BY <1>4, Ids DEF LentIsCached
<1> QED BY <1>3, <1>5, <1>6, <1>7, <1>8, <1>9 DEF Inv

(* Taking the outcome out of a ticket. *)
TakenOut(b) == [builds EXCEPT ![b].stage =
                  CASE @ = "ready" -> "taken" [] @ = "failed" -> "told" [] OTHER -> @]

LEMMA TakenOutBuilds ==
  ASSUME NEW b \in Builds, builds \in [Builds -> Build]
  PROVE  /\ TakenOut(b) \in [Builds -> Build]
         /\ \A c \in Builds :
              /\ builds[c].stage = "taken" => TakenOut(b)[c].stage = "taken"
              /\ builds[c].stage # "unused" => TakenOut(b)[c].stage # "unused"
              /\ TakenOut(b)[c].reaped = builds[c].reaped
              /\ TakenOut(b)[c].stopped = builds[c].stopped
         /\ builds[b].stage = "ready" => TakenOut(b)[b].stage = "taken"
<1> DEFINE stage == CASE builds[b].stage = "ready" -> "taken"
                      [] builds[b].stage = "failed" -> "told"
                      [] OTHER -> builds[b].stage
<1>1. TakenOut(b) = [builds EXCEPT ![b] = [builds[b] EXCEPT !.stage = stage]]
  BY DEF TakenOut
<1>2. /\ builds[b] \in Build
      /\ stage \in {"taken", "told", builds[b].stage}
      /\ builds[b].stage = "taken" => stage = "taken"
      /\ builds[b].stage # "unused" => stage # "unused"
      /\ builds[b].stage = "ready" => stage = "taken"
  OBVIOUS
<1> HIDE DEF stage
<1>3. /\ [builds[b] EXCEPT !.stage = stage] \in Build
      /\ [builds[b] EXCEPT !.stage = stage].stage = stage
      /\ [builds[b] EXCEPT !.stage = stage].reaped = builds[b].reaped
      /\ [builds[b] EXCEPT !.stage = stage].stopped = builds[b].stopped
  BY <1>2 DEF Build, Finished
<1> QED BY <1>1, <1>2, <1>3

LEMMA TakeKeeps ==
  ASSUME Inv, NEW t \in Threads, Take(t)
  PROVE  Inv'
<1>1. PICK b \in thread[t].todo :
        LET rest == [thread[t] EXCEPT !.todo = @ \ {b}] IN
        /\ Becomes(t, IF builds[b].stage = "ready"
                        THEN [rest EXCEPT !.pc = "install", !.ctx = b]
                        ELSE Installed(t, rest))
        /\ UNCHANGED <<cacheVars, active, sessionVars, worldVars>>
        /\ builds' = Kept(TakenOut(b))
  BY DEF Take, TakenOut
<1> DEFINE rest == [thread[t] EXCEPT !.todo = @ \ {b}]
           k == IF builds[b].stage = "ready"
                  THEN [rest EXCEPT !.pc = "install", !.ctx = b]
                  ELSE Installed(t, rest)
<1>2. /\ thread[t].pc = "take" /\ Becomes(t, k) /\ builds' = Kept(TakenOut(b))
      /\ UNCHANGED <<inFlight, entries, recency, quiet, active, pins, served, worldVars>>
  BY <1>1 DEF Take, cacheVars, sessionVars
<1>3. /\ thread[t] \in Task /\ Fits(t, thread[t]) /\ b \in Builds
      /\ thread[t].ticket = None /\ thread[t].ctx = None /\ thread[t].junk = {}
      /\ t \in Requests => thread[t].scope \in Scopes
  BY <1>2, Parts DEF Fits
<1>4. /\ rest \in Task /\ rest.ticket = None /\ rest.ctx = None /\ rest.junk = {}
      /\ rest.scope = thread[t].scope /\ rest.todo \subseteq thread[t].todo
  BY <1>3 DEF Task
<1>5. /\ k \in Task /\ Fits(t, k) /\ k.scope = thread[t].scope
      /\ k.todo \subseteq thread[t].todo /\ k.junk = {} /\ k.ticket = None
      /\ \/ k.ctx = None /\ k.pc \notin {"install", "use", "retire"}
         \/ k.pc = "install" /\ k.ctx = b /\ builds[b].stage = "ready"
  <2>1. CASE builds[b].stage = "ready"
    <3>1. k = [rest EXCEPT !.pc = "install", !.ctx = b]
      BY <2>1
    <3> HIDE DEF k
    <3> QED BY <1>3, <1>4, <2>1, <3>1, Ids DEF Task, Fits
  <2>2. CASE builds[b].stage # "ready"
    <3>1. k = Installed(t, rest)
      BY <2>2
    <3> HIDE DEF k, rest
    <3>2. /\ k \in Task /\ Fits(t, k) /\ k.scope = rest.scope /\ k.todo = rest.todo
          /\ k.junk = rest.junk /\ k.ticket \in {None, rest.ticket}
          /\ k.ctx \in {None, rest.ctx}
          /\ k.pc \in {"retire", "use", "take", "sweep", "lookup"}
          /\ k.pc \in {"retire", "use"} => k.ctx = rest.ctx /\ rest.ctx # None
      BY <1>3, <1>4, <3>1, InstalledFits
    <3> QED BY <1>4, <3>2
  <2> QED BY <2>1, <2>2
<1>6. builds \in [Builds -> Build] /\ Lists(recency, Cached)
  BY Parts
<1>7. /\ TakenOut(b) \in [Builds -> Build]
      /\ \A c \in Builds :
              /\ builds[c].stage = "taken" => TakenOut(b)[c].stage = "taken"
              /\ builds[c].stage # "unused" => TakenOut(b)[c].stage # "unused"
              /\ TakenOut(b)[c].reaped = builds[c].reaped
              /\ TakenOut(b)[c].stopped = builds[c].stopped
      /\ builds[b].stage = "ready" => TakenOut(b)[b].stage = "taken"
  BY <1>3, <1>6, TakenOutBuilds
<1> HIDE DEF k
<1>8. TypeOK'
  <2>1. TypeOK
    BY DEF Inv
  <2>2. /\ inFlight' \in [Scopes -> Builds \cup {None}] /\ entries' \in [Scopes -> Builds \cup {None}]
        /\ quiet' \subseteq Cached' /\ active' \in Builds \cup {None}
        /\ pins' \in [Sessions -> Scopes \cup {None}]
        /\ served' \in [Sessions -> Builds \cup {None}]
        /\ Lists(recency', Cached')
    BY <1>2, <1>6, <2>1 DEF TypeOK, Cached, Lists
  <2> QED BY <1>2, <1>5, <1>7, <2>1, <2>2, MoveType
<1>9. /\ \A c \in k.todo \cup ({k.ticket} \ {None}) : TakenOut(b)[c].stage # "unused"
      /\ \A s \in Scopes : inFlight'[s] # None =>
           ScopeOf(inFlight'[s]) = s /\ TakenOut(b)[inFlight'[s]].stage # "unused"
  BY <1>2, <1>5, <1>7, Tickets
<1>10. t \in Sessions /\ k.pc # "idle" => k.scope = pins'[t]
  BY <1>2, <1>5 DEF Inv, SessionsScope
<1> QED BY <1>2, <1>5, <1>7, <1>8, <1>9, <1>10, MoveKeeps

(* The cache holds what it held; at most one of its scopes is touched. *)
LEMMA SameCache ==
  ASSUME Inv, UNCHANGED entries,
         \/ UNCHANGED <<recency, quiet>>
         \/ \E s \in Cached : recency' = Touched(recency, s) /\ quiet' = quiet \ {s}
  PROVE  /\ Lists(recency', Cached') /\ quiet' \subseteq Cached'
         /\ entries' \in [Scopes -> Builds \cup {None}]
<1>1. TypeOK /\ Lists(recency, Cached) /\ Cached' = Cached /\ Cached \subseteq Scopes
  BY DEF Inv, TypeOK, Lists, Cached
<1>2. Lists(recency', Cached)
  <2>1. ASSUME NEW s \in Cached, recency' = Touched(recency, s) PROVE Lists(recency', Cached)
    <3>1. Lists(Touched(recency, s), Cached \cup {s}) /\ Cached \cup {s} = Cached
      BY <1>1, TouchedLists
    <3> QED BY <2>1, <3>1
  <2>2. CASE recency' = recency
    BY <1>1, <2>2
  <2> QED BY <2>1, <2>2
<1> QED BY <1>1, <1>2 DEF TypeOK

LEMMA RetireKeeps ==
  ASSUME Inv, NEW t \in Threads, Retire(t)
  PROVE  Inv'
<1>1. PICK b \in thread[t].junk :
        /\ Becomes(t, Installed(t, [thread[t] EXCEPT !.junk = @ \ {b}]))
        /\ UNCHANGED <<cacheVars, active, sessionVars, worldVars>>
        /\ builds' = Kept([builds EXCEPT ![b].stopped = TRUE])
  BY DEF Retire
<1> DEFINE rest == [thread[t] EXCEPT !.junk = @ \ {b}]
           k == Installed(t, rest)
           bs == [builds EXCEPT ![b].stopped = TRUE]
<1>2. /\ thread[t].pc = "retire" /\ Becomes(t, k) /\ builds' = Kept(bs)
      /\ UNCHANGED <<inFlight, entries, recency, quiet, active, pins, served, worldVars>>
  BY <1>1 DEF Retire, cacheVars, sessionVars
<1>3. /\ thread[t] \in Task /\ Fits(t, thread[t]) /\ b \in Builds
      /\ builds \in [Builds -> Build] /\ builds[b] \in Build
      /\ \A c \in Builds : ContextHeld(c) => builds[c].stage = "taken"
  BY <1>2, Parts
<1>4. /\ rest \in Task /\ rest.ticket = thread[t].ticket /\ rest.ctx = thread[t].ctx
      /\ rest.scope = thread[t].scope /\ rest.todo = thread[t].todo
      /\ rest.junk = thread[t].junk \ {b} /\ rest.ctx # None
  BY <1>2, <1>3 DEF Task, Fits
<1>5. /\ k \in Task /\ Fits(t, k) /\ k.scope = thread[t].scope /\ k.todo = thread[t].todo
      /\ k.junk = thread[t].junk \ {b} /\ k.ticket \in {None, thread[t].ticket}
      /\ k.ctx \in {None, thread[t].ctx}
      /\ k.pc \in {"retire", "use", "take", "sweep", "lookup"}
      /\ k.pc \in {"retire", "use"} => k.ctx = thread[t].ctx
  <2> HIDE DEF rest
  <2>1. /\ rest.junk # {} \/ rest.ticket # None => rest.ctx # None
        /\ rest.ticket # None => ScopeOf(rest.ctx) = rest.scope
        /\ t \in Sweepers => rest.ticket = None
        /\ t \in Requests => rest.scope \in Scopes
    BY <1>2, <1>3, <1>4 DEF Fits
  <2>2. /\ k \in Task /\ Fits(t, k) /\ k.scope = rest.scope /\ k.todo = rest.todo
        /\ k.junk = rest.junk /\ k.ticket \in {None, rest.ticket}
        /\ k.ctx \in {None, rest.ctx}
        /\ k.pc \in {"retire", "use", "take", "sweep", "lookup"}
        /\ k.pc \in {"retire", "use"} => k.ctx = rest.ctx /\ rest.ctx # None
    BY <1>4, <2>1, InstalledFits
  <2> QED BY <1>4, <2>2
<1>6. /\ bs \in [Builds -> Build]
      /\ \A c \in Builds :
           /\ bs[c].stage = builds[c].stage /\ bs[c].reaped = builds[c].reaped
           /\ bs[c].stopped => builds[c].stopped \/ c \in thread[t].junk \ k.junk
  <2>1. bs = [builds EXCEPT ![b] = [builds[b] EXCEPT !.stopped = TRUE]]
    OBVIOUS
  <2>2. /\ [builds[b] EXCEPT !.stopped = TRUE] \in Build
        /\ [builds[b] EXCEPT !.stopped = TRUE].stage = builds[b].stage
        /\ [builds[b] EXCEPT !.stopped = TRUE].reaped = builds[b].reaped
    BY <1>3 DEF Build
  <2> HIDE DEF k
  <2> QED BY <1>3, <1>5, <2>1, <2>2
<1> HIDE DEF k, bs
<1>7. TypeOK'
  <2>1. TypeOK
    BY DEF Inv
  <2>2. /\ inFlight' \in [Scopes -> Builds \cup {None}] /\ active' \in Builds \cup {None}
        /\ pins' \in [Sessions -> Scopes \cup {None}]
        /\ served' \in [Sessions -> Builds \cup {None}]
    BY <1>2, <2>1 DEF TypeOK
  <2> QED BY <1>2, <1>5, <1>6, <2>1, <2>2, SameCache, MoveType
<1>8. /\ \A c \in k.todo \cup ({k.ticket} \ {None}) : bs[c].stage # "unused"
      /\ \A s \in Scopes : inFlight'[s] # None =>
           ScopeOf(inFlight'[s]) = s /\ bs[inFlight'[s]].stage # "unused"
  BY <1>2, <1>5, <1>6, Tickets
<1>9. t \in Sessions /\ k.pc # "idle" => k.scope = pins'[t]
  BY <1>2, <1>5 DEF Inv, SessionsScope
<1>10. k.pc \in {"use", "retire"} => bs[k.ctx].reaped \/ entries'[ScopeOf(k.ctx)] = k.ctx
  <2> SUFFICES ASSUME k.pc \in {"use", "retire"}
               PROVE  bs[k.ctx].reaped \/ entries'[ScopeOf(k.ctx)] = k.ctx
    OBVIOUS
  <2>1. k.ctx = thread[t].ctx /\ k.ctx \in Builds
    BY <1>4, <1>5, Parts
  <2>2. builds[k.ctx].reaped \/ entries[ScopeOf(k.ctx)] = k.ctx
    BY <1>2, <2>1 DEF Inv, LentIsCached
  <2> QED BY <1>2, <1>6, <2>1, <2>2
<1> QED BY <1>2, <1>5, <1>6, <1>7, <1>8, <1>9, <1>10, MoveKeeps

(* A request gets the runtime of its scope, out of the cache. *)
LEMMA FoundKeeps ==
  ASSUME Inv, NEW t \in Threads, Found(t)
  PROVE  Inv'
<1> DEFINE s == thread[t].scope
           k == Uses(thread[t], entries[s])
<1>1. /\ thread[t].pc \in {"lookup", "await"} /\ s \in Cached
      /\ recency' = Touched(recency, s) /\ quiet' = quiet \ {s}
      /\ Becomes(t, k) /\ builds' = Kept(builds)
      /\ UNCHANGED <<inFlight, entries, active, pins, served, worldVars>>
  BY DEF Found, sessionVars
<1>2. /\ thread[t] \in Task /\ Fits(t, thread[t]) /\ builds \in [Builds -> Build]
      /\ s \in Scopes /\ entries[s] \in Builds /\ ScopeOf(entries[s]) = s
      /\ None \notin Builds
  BY <1>1, Parts, Contexts, Ids DEF Cached
<1>3. /\ k \in Task /\ Fits(t, k) /\ k.scope = s /\ k.todo = thread[t].todo
      /\ k.junk = {} /\ k.ticket = None /\ k.ctx = entries[s] /\ k.pc = "use"
  BY <1>1, <1>2 DEF Uses, Task, Fits
<1> HIDE DEF k, s
<1>4. TypeOK'
  <2>1. TypeOK
    BY DEF Inv
  <2>2. /\ inFlight' \in [Scopes -> Builds \cup {None}] /\ active' \in Builds \cup {None}
        /\ pins' \in [Sessions -> Scopes \cup {None}]
        /\ served' \in [Sessions -> Builds \cup {None}]
    BY <1>1, <2>1 DEF TypeOK
  <2> QED BY <1>1, <1>2, <1>3, <2>1, <2>2, SameCache, MoveType
<1>5. /\ \A c \in k.todo \cup ({k.ticket} \ {None}) : builds[c].stage # "unused"
      /\ \A x \in Scopes : inFlight'[x] # None =>
           ScopeOf(inFlight'[x]) = x /\ builds[inFlight'[x]].stage # "unused"
  BY <1>1, <1>3, Tickets
<1>6. t \in Sessions /\ k.pc # "idle" => k.scope = pins'[t]
  BY <1>1, <1>3 DEF Inv, SessionsScope, s
<1> QED BY <1>1, <1>2, <1>3, <1>4, <1>5, <1>6, MoveKeeps

(* A step that changes neither the cache nor what is filed in it. *)
LEMMA LightMove ==
  ASSUME Inv, NEW t \in Threads, NEW k \in Task, Becomes(t, k), Fits(t, k),
         builds' \in {builds, Kept(builds)}, UNCHANGED <<cacheVars, pins, worldVars>>,
         served' \in [Sessions -> Builds \cup {None}],
         active' \in {None, active} \/ (thread[t].pc = "use" /\ active' = thread[t].ctx),
         k.pc \notin {"install", "retire"}, k.junk = {},
         k.ctx = None \/ (k.ctx = active /\ k.pc = "use"),
         k.todo \subseteq thread[t].todo,
         k.ticket \in {None} \cup {inFlight[s] : s \in Scopes},
         t \in Sessions /\ k.pc # "idle" => k.scope = pins[t]
  PROVE  Inv'
<1>1. /\ TypeOK /\ LentIsCached /\ builds \in [Builds -> Build] /\ thread[t].ctx \in Builds \cup {None}
      /\ UNCHANGED <<inFlight, entries, recency, quiet>>
  BY Parts DEF Inv, cacheVars
<1>2. TypeOK'
  <2>1. /\ inFlight' \in [Scopes -> Builds \cup {None}] /\ active' \in Builds \cup {None}
        /\ pins' \in [Sessions -> Scopes \cup {None}]
    BY <1>1 DEF TypeOK
  <2> QED BY <1>1, <2>1, SameCache, MoveType
<1>3. /\ \A c \in k.todo \cup ({k.ticket} \ {None}) : builds[c].stage # "unused"
      /\ \A s \in Scopes : inFlight'[s] # None =>
           ScopeOf(inFlight'[s]) = s /\ builds[inFlight'[s]].stage # "unused"
  BY <1>1, Tickets
<1>4. k.pc \in {"use", "retire"} => builds[k.ctx].reaped \/ entries'[ScopeOf(k.ctx)] = k.ctx
  <2> SUFFICES ASSUME k.pc = "use"
               PROVE  builds[k.ctx].reaped \/ entries[ScopeOf(k.ctx)] = k.ctx
    BY <1>1
  <2>1. k.ctx # None /\ k.ctx = active /\ k.ctx \in Builds
    BY DEF Fits, Task
  <2> QED BY <1>1, <2>1 DEF LentIsCached
<1> QED BY <1>1, <1>2, <1>3, <1>4, MoveKeeps

LEMMA IdleFits == Idle \in Task /\ \A t : Fits(t, Idle)
BY DEF Idle, Task, Fits

LEMMA GiveUpKeeps ==
  ASSUME Inv, NEW t \in Threads, GiveUp(t)
  PROVE  Inv'
<1>1. /\ Becomes(t, Idle) /\ builds' = Kept(builds)
      /\ UNCHANGED <<cacheVars, active, pins, served, worldVars>>
  BY DEF GiveUp, sessionVars
<1>2. served \in [Sessions -> Builds \cup {None}]
  BY DEF Inv, TypeOK
<1> QED BY <1>1, <1>2, IdleFits, LightMove DEF Idle

LEMMA EndKeeps ==
  ASSUME Inv, NEW t \in Threads, End(t)
  PROVE  Inv'
<1>1. /\ Becomes(t, Idle) /\ builds' = Kept(builds)
      /\ UNCHANGED <<cacheVars, active, pins, worldVars>>
      /\ served' = IF t \in Sessions
                     THEN [served EXCEPT ![t] = IF builds[thread[t].ctx].reaped THEN None
                                                ELSE thread[t].ctx]
                     ELSE served
  BY DEF End
<1>2. served' \in [Sessions -> Builds \cup {None}]
  BY <1>1, Parts DEF Inv, TypeOK
<1> QED BY <1>1, <1>2, IdleFits, LightMove DEF Idle

LEMMA JoinKeeps ==
  ASSUME Inv, NEW t \in Threads, Join(t)
  PROVE  Inv'
<1> DEFINE s == thread[t].scope
           k == [thread[t] EXCEPT !.pc = "wait", !.ticket = inFlight[s]]
<1>1. /\ thread[t].pc = "lookup" /\ s \notin Cached /\ inFlight[s] # None
      /\ Becomes(t, k)
      /\ UNCHANGED <<builds, cacheVars, active, pins, served, worldVars>>
  BY DEF Join, sessionVars
<1>2. /\ thread[t] \in Task /\ Fits(t, thread[t])
      /\ t \in Requests /\ s \in Scopes
  BY <1>1, Parts DEF Fits, Threads
<1>3. inFlight[s] \in Builds /\ ScopeOf(inFlight[s]) = s
  BY <1>1, <1>2, Tickets
<1>4. /\ k \in Task /\ Fits(t, k) /\ k.scope = s /\ k.todo = thread[t].todo
      /\ k.junk = {} /\ k.ticket = inFlight[s] /\ k.ctx = None /\ k.pc = "wait"
  BY <1>1, <1>2, <1>3, Ids DEF Task, Fits
<1>5. served \in [Sessions -> Builds \cup {None}]
  BY DEF Inv, TypeOK
<1>6. t \in Sessions => k.scope = pins[t]
  BY <1>1, <1>4 DEF Inv, SessionsScope
<1> HIDE DEF k, s
<1> QED BY <1>1, <1>2, <1>4, <1>5, <1>6, LightMove

LEMMA StartSweepKeeps ==
  ASSUME Inv, NEW t \in Sweepers, StartSweep(t)
  PROVE  Inv'
<1> DEFINE k == [Idle EXCEPT !.pc = "collect"]
<1>1. /\ Becomes(t, k) /\ UNCHANGED <<builds, cacheVars, active, pins, served, worldVars>>
  BY DEF StartSweep, SweepBegins, sessionVars
<1>2. t \in Threads /\ t \notin Requests /\ t \notin Sessions
  BY Ids
<1>3. k \in Task /\ Fits(t, k) /\ k = [pc |-> "collect", scope |-> None, ticket |-> None,
                                      ctx |-> None, todo |-> {}, junk |-> {}]
  BY <1>2 DEF Idle, Task, Fits
<1>4. served \in [Sessions -> Builds \cup {None}]
  BY DEF Inv, TypeOK
<1> QED BY <1>1, <1>2, <1>3, <1>4, LightMove

LEMMA UseActiveKeeps ==
  ASSUME Inv, NEW t \in Switchers, UseActive(t)
  PROVE  Inv'
<1> DEFINE k == Uses([Idle EXCEPT !.scope = ScopeOf(active)], active)
<1>1. /\ active # None /\ Becomes(t, k)
      /\ UNCHANGED <<builds, cacheVars, active, pins, served, worldVars>>
  BY DEF UseActive, sessionVars
<1>2. t \in Threads /\ t \notin Sweepers /\ t \notin Sessions
  BY Ids
<1>3. active \in Builds /\ ScopeOf(active) \in Scopes
  BY <1>1, Contexts, Ids
<1>4. k = [pc |-> "use", scope |-> ScopeOf(active), ticket |-> None,
           ctx |-> active, todo |-> {}, junk |-> {}]
  <2> DEFINE i == [Idle EXCEPT !.scope = ScopeOf(active)]
  <2>1. i = [pc |-> "idle", scope |-> ScopeOf(active), ticket |-> None,
             ctx |-> None, todo |-> {}, junk |-> {}]
    BY DEF Idle
  <2>2. k = [i EXCEPT !.pc = "use", !.ctx = active, !.ticket = None]
    BY DEF Uses
  <2> HIDE DEF i, k
  <2> QED BY <2>1, <2>2
<1> HIDE DEF k
<1>6. k \in Task /\ Fits(t, k)
  BY <1>1, <1>2, <1>3, <1>4 DEF Task, Fits
<1>5. served \in [Sessions -> Builds \cup {None}]
  BY DEF Inv, TypeOK
<1> QED BY <1>1, <1>2, <1>4, <1>5, <1>6, LightMove

LEMMA ActivateKeeps ==
  ASSUME Inv, NEW t \in Threads, Activate(t)
  PROVE  Inv'
<1>1. /\ thread[t].pc = "use" /\ active' = thread[t].ctx
      /\ Becomes(t, Idle) /\ builds' = Kept(builds)
      /\ UNCHANGED <<cacheVars, pins, served, worldVars>>
  BY DEF Activate, sessionVars
<1>2. served \in [Sessions -> Builds \cup {None}]
  BY DEF Inv, TypeOK
<1> QED BY <1>1, <1>2, IdleFits, LightMove DEF Idle

LEMMA DeactivateKeeps ==
  ASSUME Inv, NEW t \in Threads, Deactivate(t)
  PROVE  Inv'
<1>1. /\ thread[t].pc = "idle" /\ active' = None /\ builds' = Kept(builds)
      /\ UNCHANGED <<cacheVars, pins, served, thread, worldVars>>
  BY DEF Deactivate, sessionVars
<1>2. thread[t] = Idle
  BY <1>1, Parts DEF Fits
<1>3. Becomes(t, Idle)
  <2>1. thread \in [Threads -> Task]
    BY DEF Inv, TypeOK
  <2> QED BY <1>1, <1>2, <2>1 DEF Becomes
<1>4. served \in [Sessions -> Builds \cup {None}]
  BY DEF Inv, TypeOK
<1> QED BY <1>1, <1>3, <1>4, IdleFits, LightMove DEF Idle

LEMMA CollectKeeps ==
  ASSUME Inv, NEW t \in Threads, Collect(t)
  PROVE  Inv'
<1> DEFINE done == {s \in Scopes : inFlight[s] # None /\ builds[inFlight[s]].stage \in Finished}
           tickets == {inFlight[s] : s \in done}
           k == IF tickets = {} THEN Collected(t, thread[t])
                ELSE [thread[t] EXCEPT !.pc = "take", !.todo = tickets]
<1>1. /\ thread[t].pc = "collect" /\ inFlight' = Without(inFlight, done) /\ Becomes(t, k)
      /\ UNCHANGED <<builds, entries, recency, quiet, active, pins, served, worldVars>>
  BY DEF Collect, sessionVars
<1>2. /\ thread[t] \in Task /\ Fits(t, thread[t]) /\ builds \in [Builds -> Build]
      /\ thread[t].ctx = None /\ thread[t].ticket = None /\ thread[t].junk = {}
      /\ t \in Requests => thread[t].scope \in Scopes
  BY <1>1, Parts DEF Fits
<1>3. tickets \subseteq Builds /\ \A b \in tickets : builds[b].stage # "unused"
  BY Tickets
<1> HIDE DEF tickets, done
<1>4. /\ k \in Task /\ Fits(t, k) /\ k.scope = thread[t].scope
      /\ k.todo \subseteq thread[t].todo \cup tickets
      /\ k.junk = {} /\ k.ticket = None /\ k.ctx = None /\ k.pc \in {"take", "sweep", "lookup"}
  <2>1. CASE tickets = {}
    <3>1. k = [thread[t] EXCEPT !.pc = IF t \in Sweepers THEN "sweep" ELSE "lookup"]
      BY <2>1 DEF Collected
    <3> HIDE DEF k
    <3>2. CASE t \in Sweepers
      <4>1. k = [thread[t] EXCEPT !.pc = "sweep"] /\ t \notin Requests
        BY <3>1, <3>2, Ids
      <4> QED BY <1>2, <3>2, <4>1 DEF Task, Fits
    <3>3. CASE t \notin Sweepers
      <4>1. k = [thread[t] EXCEPT !.pc = "lookup"]
        BY <3>1, <3>3
      <4> QED BY <1>2, <3>3, <4>1 DEF Task, Fits
    <3> QED BY <3>2, <3>3
  <2>2. CASE tickets # {}
    <3>1. k = [thread[t] EXCEPT !.pc = "take", !.todo = tickets]
      BY <2>2
    <3> HIDE DEF k
    <3> QED BY <1>2, <1>3, <3>1 DEF Task, Fits
  <2> QED BY <2>1, <2>2
<1> HIDE DEF k
<1>5. inFlight' \in [Scopes -> Builds \cup {None}]
      /\ \A s \in Scopes : inFlight'[s] \in {None, inFlight[s]}
  BY <1>1, Tickets DEF Without
<1>6. TypeOK'
  <2>1. TypeOK
    BY DEF Inv
  <2>2. /\ active' \in Builds \cup {None} /\ pins' \in [Sessions -> Scopes \cup {None}]
        /\ served' \in [Sessions -> Builds \cup {None}]
    BY <1>1, <2>1 DEF TypeOK
  <2> QED BY <1>1, <1>2, <1>4, <1>5, <2>1, <2>2, SameCache, MoveType
<1>7. \A c \in k.todo \cup ({k.ticket} \ {None}) : builds[c].stage # "unused"
  BY <1>3, <1>4, Tickets
<1>8. \A s \in Scopes : inFlight'[s] # None =>
           ScopeOf(inFlight'[s]) = s /\ builds[inFlight'[s]].stage # "unused"
  BY <1>5, Tickets
<1>9. t \in Sessions /\ k.pc # "idle" => k.scope = pins'[t]
  BY <1>1, <1>4 DEF Inv, SessionsScope
<1> QED BY <1>1, <1>2, <1>4, <1>6, <1>7, <1>8, <1>9, MoveKeeps

LEMMA ClaimKeeps ==
  ASSUME Inv, NEW t \in Threads, Claim(t)
  PROVE  Inv'
<1> DEFINE s == thread[t].scope
           b == thread[t].ticket
<1>1. /\ thread[t].pc = "wait" /\ builds[b].stage \in Finished
      /\ UNCHANGED <<entries, active, pins, served, worldVars>>
  BY DEF Claim, sessionVars
<1>2. /\ thread[t] \in Task /\ Fits(t, thread[t]) /\ builds \in [Builds -> Build]
      /\ b \in Builds /\ ScopeOf(b) = s /\ s \in Scopes /\ t \notin Sweepers
      /\ thread[t].ctx = None /\ thread[t].junk = {}
  BY <1>1, Parts, Ids DEF Fits
<1>3. CASE s \in Cached
  <2> DEFINE k == Uses(thread[t], entries[s])
  <2>1. /\ recency' = Touched(recency, s) /\ quiet' = quiet \ {s}
        /\ Becomes(t, k) /\ UNCHANGED inFlight
    BY <1>3 DEF Claim
  <2>2. builds' = Kept(builds)
    <3>1. builds' = Kept([builds EXCEPT ![b].stage = @])
      BY <1>3 DEF Claim
    <3>2. [builds EXCEPT ![b].stage = @] = builds
      BY <1>2, Parts
    <3> QED BY <3>1, <3>2
  <2>3. entries[s] \in Builds /\ ScopeOf(entries[s]) = s /\ None \notin Builds
    BY <1>3, Contexts, Ids DEF Cached
  <2>4. /\ k \in Task /\ Fits(t, k) /\ k.scope = s /\ k.todo = thread[t].todo
        /\ k.junk = {} /\ k.ticket = None /\ k.ctx = entries[s] /\ k.pc = "use"
    BY <1>1, <1>2, <2>3 DEF Uses, Task, Fits
  <2> HIDE DEF k, s, b
  <2>5. TypeOK'
    <3>1. TypeOK
      BY DEF Inv
    <3>2. /\ inFlight' \in [Scopes -> Builds \cup {None}] /\ active' \in Builds \cup {None}
          /\ pins' \in [Sessions -> Scopes \cup {None}]
          /\ served' \in [Sessions -> Builds \cup {None}]
      BY <1>1, <2>1, <3>1 DEF TypeOK
    <3> QED BY <1>1, <1>2, <1>3, <2>1, <2>2, <2>4, <3>1, <3>2, SameCache, MoveType
  <2>6. /\ \A c \in k.todo \cup ({k.ticket} \ {None}) : builds[c].stage # "unused"
        /\ \A x \in Scopes : inFlight'[x] # None =>
             ScopeOf(inFlight'[x]) = x /\ builds[inFlight'[x]].stage # "unused"
    BY <2>1, <2>4, Tickets
  <2>7. t \in Sessions /\ k.pc # "idle" => k.scope = pins'[t]
    BY <1>1, <2>4 DEF Inv, SessionsScope, s
  <2> QED BY <1>1, <1>2, <1>3, <2>1, <2>2, <2>3, <2>4, <2>5, <2>6, <2>7, MoveKeeps
<1>4. CASE s \notin Cached
  <2> DEFINE k == CASE builds[b].stage = "ready" -> [thread[t] EXCEPT !.pc = "install", !.ctx = b]
                    [] builds[b].stage = "failed" -> Idle
                    [] OTHER -> [thread[t] EXCEPT !.pc = "await"]
  <2>1. /\ inFlight' = [inFlight EXCEPT ![s] = IF @ = b THEN None ELSE @]
        /\ Becomes(t, k) /\ UNCHANGED <<recency, quiet>>
        /\ builds' = Kept(TakenOut(b))
    BY <1>4 DEF Claim, TakenOut
  <2>2. /\ k \in Task /\ Fits(t, k) /\ (k.pc # "idle" => k.scope = s)
        /\ k.todo \subseteq thread[t].todo /\ k.junk = {} /\ k.ticket \in {None, b}
        /\ \/ k.ctx = None /\ k.pc \notin {"install", "use", "retire"}
           \/ k.pc = "install" /\ k.ctx = b /\ builds[b].stage = "ready"
    <3>1. CASE builds[b].stage = "ready"
      <4>1. k = [thread[t] EXCEPT !.pc = "install", !.ctx = b]
        BY <3>1
      <4> HIDE DEF k
      <4> QED BY <1>1, <1>2, <3>1, <4>1, Ids DEF Task, Fits
    <3>2. CASE builds[b].stage = "failed"
      <4>1. k = Idle
        BY <3>2
      <4> HIDE DEF k
      <4> QED BY <4>1, IdleFits DEF Idle
    <3>3. CASE builds[b].stage \notin {"ready", "failed"}
      <4>1. k = [thread[t] EXCEPT !.pc = "await"]
        BY <3>3
      <4> HIDE DEF k
      <4> QED BY <1>1, <1>2, <4>1, Ids DEF Task, Fits
    <3> QED BY <3>1, <3>2, <3>3
  <2> HIDE DEF k
  <2>3. /\ TakenOut(b) \in [Builds -> Build]
        /\ \A c \in Builds :
              /\ builds[c].stage = "taken" => TakenOut(b)[c].stage = "taken"
              /\ builds[c].stage # "unused" => TakenOut(b)[c].stage # "unused"
              /\ TakenOut(b)[c].reaped = builds[c].reaped
              /\ TakenOut(b)[c].stopped = builds[c].stopped
        /\ builds[b].stage = "ready" => TakenOut(b)[b].stage = "taken"
    BY <1>2, TakenOutBuilds
  <2>4. /\ inFlight' \in [Scopes -> Builds \cup {None}]
        /\ \A x \in Scopes : inFlight'[x] \in {None, inFlight[x]}
    <3> HIDE DEF s, b
    <3> QED BY <1>2, <2>1, Tickets
  <2>5. TypeOK'
    <3>1. TypeOK
      BY DEF Inv
    <3>2. /\ active' \in Builds \cup {None} /\ pins' \in [Sessions -> Scopes \cup {None}]
          /\ served' \in [Sessions -> Builds \cup {None}]
      BY <1>1, <3>1 DEF TypeOK
    <3> HIDE DEF s, b
    <3> QED BY <1>1, <2>1, <2>2, <2>3, <2>4, <3>1, <3>2, SameCache, MoveType
  <2>6. \A c \in k.todo \cup ({k.ticket} \ {None}) : TakenOut(b)[c].stage # "unused"
    <3>1. \A c \in thread[t].todo \cup ({thread[t].ticket} \ {None}) :
            c \in Builds /\ builds[c].stage # "unused"
      BY Tickets
    <3> QED BY <2>2, <2>3, <3>1
  <2>7. \A x \in Scopes : inFlight'[x] # None =>
             ScopeOf(inFlight'[x]) = x /\ TakenOut(b)[inFlight'[x]].stage # "unused"
    <3> HIDE DEF s, b
    <3> QED BY <2>3, <2>4, Tickets
  <2>8. t \in Sessions /\ k.pc # "idle" => k.scope = pins'[t]
    BY <1>1, <2>2 DEF Inv, SessionsScope
  <2> HIDE DEF s, b
  <2> QED BY <1>1, <1>2, <2>1, <2>2, <2>3, <2>5, <2>6, <2>7, <2>8, MoveKeeps
<1> QED BY <1>3, <1>4

(* A step of a build: threads and cache are as they were. *)
LEMMA BuildMove ==
  ASSUME Inv, NEW bs \in [Builds -> Build], builds' \in {bs, Kept(bs)},
         UNCHANGED <<cacheVars, active, sessionVars, thread, worldVars>>,
         \A b \in Builds : /\ builds[b].stage = "taken" => bs[b].stage = "taken"
                           /\ builds[b].stage # "unused" => bs[b].stage # "unused"
                           /\ builds[b].reaped => bs[b].reaped
                           /\ bs[b].stopped => builds[b].stopped
  PROVE  Inv'
<1>1. /\ TypeOK /\ ThreadsFit /\ FiledUnderScope /\ HeldIsTaken /\ InstalledOnce
      /\ JunkIsLoose /\ StoppedIsFree /\ LentIsCached /\ SessionsScope
      /\ UNCHANGED <<inFlight, entries, recency, quiet, active, pins, served, thread>>
      /\ UNCHANGED <<rivals, exists, deletes>>
  BY DEF Inv, cacheVars, sessionVars, worldVars
<1>2. /\ builds' \in [Builds -> Build]
      /\ \A b \in Builds : ContextHeld(b)' => builds'[b] = bs[b]
      /\ \A b \in Builds : TicketHeld(b)' => builds'[b].stage = bs[b].stage
      /\ \A b \in Builds : builds'[b].stopped =>
           bs[b].stopped /\ builds'[b].stage = bs[b].stage
  BY KeptProperties
<1>3. \A b \in Builds : /\ ContextHeld(b)' <=> ContextHeld(b)
                        /\ TicketHeld(b)' <=> TicketHeld(b)
  BY <1>1 DEF ContextHeld, Lent, TicketHeld
<1>4. TypeOK'
  BY <1>1, <1>2 DEF TypeOK, Cached
<1>5. /\ \A b \in Builds : ContextHeld(b) => builds[b].stage = "taken"
      /\ \A b \in Builds : TicketHeld(b) => builds[b].stage # "unused"
  <2>1. HeldIsTaken
    BY <1>1
  <2> QED BY <2>1 DEF HeldIsTaken
<1>6. HeldIsTaken'
  <2> SUFFICES ASSUME NEW b \in Builds
               PROVE  /\ ContextHeld(b)' => builds'[b].stage = "taken"
                      /\ TicketHeld(b)' => builds'[b].stage # "unused"
    BY DEF HeldIsTaken
  <2> QED BY <1>2, <1>3, <1>5
<1>7. StoppedIsFree'
  <2> SUFFICES ASSUME NEW b \in Builds, builds'[b].stopped
               PROVE  builds'[b].stage = "taken" /\ ~ContextHeld(b)'
    BY DEF StoppedIsFree
  <2>1. builds[b].stage = "taken" /\ ~ContextHeld(b)
    BY <1>1, <1>2 DEF StoppedIsFree
  <2> QED BY <1>2, <1>3, <2>1
<1>8. LentIsCached'
  <2> SUFFICES ASSUME NEW b \in Builds,
                      \/ b = active
                      \/ \E u \in Threads : thread[u].pc \in {"use", "retire"} /\ thread[u].ctx = b
               PROVE  builds'[b].reaped \/ entries[ScopeOf(b)] = b
    BY <1>1 DEF LentIsCached
  <2>1. ContextHeld(b)
    BY DEF ContextHeld, Lent
  <2>2. builds'[b] = bs[b]
    BY <1>2, <1>3, <2>1
  <2> QED BY <1>1, <2>2 DEF LentIsCached
<1>9. ThreadsFit'
  BY <1>1 DEF ThreadsFit, Fits
<1>10. FiledUnderScope' /\ SessionsScope'
  BY <1>1 DEF FiledUnderScope, SessionsScope
<1>11. InstalledOnce' /\ JunkIsLoose'
  BY <1>1 DEF InstalledOnce, JunkIsLoose
<1> QED BY <1>4, <1>6, <1>7, <1>8, <1>9, <1>10, <1>11 DEF Inv

LEMMA AcquireKeeps ==
  ASSUME Inv, NEW b \in Builds, Acquire(b)
  PROVE  Inv'
<1> DEFINE busy == ScopeOf(b) \in rivals \/ Writing(ScopeOf(b))
           stage == IF busy /\ ~ReaderFallback THEN "failed" ELSE "building"
           role == IF ~busy THEN "writer" ELSE IF ReaderFallback THEN "reader" ELSE "none"
           refused == ScopeOf(b) \in rivals
           new == [builds[b] EXCEPT !.stage = stage, !.role = role, !.refused = refused]
           bs == [builds EXCEPT ![b] = new]
<1>1. /\ builds[b].stage = "spawned" /\ builds' = bs
      /\ UNCHANGED <<cacheVars, active, sessionVars, thread, worldVars>>
  BY DEF Acquire
<1>2. builds \in [Builds -> Build] /\ builds[b] \in Build
  BY DEF Inv, TypeOK
<1>3. /\ stage \in {"failed", "building"} /\ role \in {"none", "writer", "reader"}
      /\ refused \in BOOLEAN
  <2> HIDE DEF busy
  <2> QED OBVIOUS
<1> HIDE DEF stage, role, refused
<1>4. /\ new \in Build /\ new.stage = stage /\ new.reaped = builds[b].reaped
      /\ new.stopped = builds[b].stopped
  BY <1>2, <1>3 DEF Build, Finished
<1> HIDE DEF new
<1>5. /\ bs \in [Builds -> Build]
      /\ \A c \in Builds : /\ builds[c].stage = "taken" => bs[c].stage = "taken"
                           /\ builds[c].stage # "unused" => bs[c].stage # "unused"
                           /\ builds[c].reaped => bs[c].reaped
                           /\ bs[c].stopped => builds[c].stopped
  BY <1>1, <1>2, <1>3, <1>4
<1> HIDE DEF bs
<1> QED BY <1>1, <1>5, BuildMove

LEMMA BuildEndsKeeps ==
  ASSUME Inv, NEW b \in Builds, BuildEnds(b)
  PROVE  Inv'
<1>1. /\ builds[b].stage = "building"
      /\ UNCHANGED <<cacheVars, active, sessionVars, thread, worldVars>>
      /\ \E stage \in {"ready", "failed", "lost"} :
           \/ builds' = Kept([builds EXCEPT ![b].stage = stage])
           \/ builds' = Kept([builds EXCEPT ![b].stage = stage, ![b].role = "none"])
  BY DEF BuildEnds
<1>2. builds \in [Builds -> Build] /\ builds[b] \in Build
  BY DEF Inv, TypeOK
<1>3. PICK stage \in {"ready", "failed", "lost"} :
        \/ builds' = Kept([builds EXCEPT ![b].stage = stage])
        \/ builds' = Kept([builds EXCEPT ![b].stage = stage, ![b].role = "none"])
  BY <1>1
<1>4. PICK new \in Build :
        /\ new.stage = stage /\ new.reaped = builds[b].reaped /\ new.stopped = builds[b].stopped
        /\ builds' = Kept([builds EXCEPT ![b] = new])
  <2>1. CASE builds' = Kept([builds EXCEPT ![b].stage = stage])
    <3> DEFINE new == [builds[b] EXCEPT !.stage = stage]
    <3>1. /\ new \in Build /\ new.stage = stage /\ new.reaped = builds[b].reaped
          /\ new.stopped = builds[b].stopped
      BY <1>2 DEF Build, Finished
    <3>2. [builds EXCEPT ![b].stage = stage] = [builds EXCEPT ![b] = new]
      OBVIOUS
    <3> HIDE DEF new
    <3> QED BY <2>1, <3>1, <3>2
  <2>2. CASE builds' = Kept([builds EXCEPT ![b].stage = stage, ![b].role = "none"])
    <3> DEFINE new == [builds[b] EXCEPT !.stage = stage, !.role = "none"]
    <3>1. /\ new \in Build /\ new.stage = stage /\ new.reaped = builds[b].reaped
          /\ new.stopped = builds[b].stopped
      BY <1>2 DEF Build, Finished
    <3>2. [builds EXCEPT ![b].stage = stage, ![b].role = "none"] = [builds EXCEPT ![b] = new]
      BY <1>2
    <3> HIDE DEF new
    <3> QED BY <2>2, <3>1, <3>2
  <2> QED BY <1>3, <2>1, <2>2
<1> DEFINE bs == [builds EXCEPT ![b] = new]
<1>5. /\ bs \in [Builds -> Build]
      /\ \A c \in Builds : /\ builds[c].stage = "taken" => bs[c].stage = "taken"
                           /\ builds[c].stage # "unused" => bs[c].stage # "unused"
                           /\ builds[c].reaped => bs[c].reaped
                           /\ bs[c].stopped => builds[c].stopped
  BY <1>1, <1>2, <1>4
<1>6. builds' = Kept(bs)
  BY <1>4
<1> HIDE DEF bs
<1> QED BY <1>1, <1>5, <1>6, BuildMove

(* What other processes and the file system do changes nothing else. *)
LEMMA WorldKeeps ==
  ASSUME Inv, UNCHANGED <<builds, cacheVars, active, sessionVars, thread>>,
         rivals' \subseteq Scopes, exists' \subseteq Scopes, deletes' \in 0..MaxDeletes
  PROVE  Inv'
<1>1. /\ TypeOK /\ ThreadsFit /\ FiledUnderScope /\ HeldIsTaken /\ InstalledOnce
      /\ JunkIsLoose /\ StoppedIsFree /\ LentIsCached /\ SessionsScope
      /\ UNCHANGED <<inFlight, entries, recency, quiet, active, pins, served, thread, builds>>
  BY DEF Inv, cacheVars, sessionVars
<1>2. \A b : /\ ContextHeld(b)' <=> ContextHeld(b)
             /\ TicketHeld(b)' <=> TicketHeld(b)
  BY <1>1 DEF ContextHeld, Lent, TicketHeld
<1>3. TypeOK'
  BY <1>1 DEF TypeOK, Cached
<1>4. HeldIsTaken'
  BY <1>1, <1>2 DEF HeldIsTaken
<1>5. StoppedIsFree'
  BY <1>1, <1>2 DEF StoppedIsFree
<1>6. ThreadsFit'
  BY <1>1 DEF ThreadsFit, Fits
<1>7. FiledUnderScope' /\ SessionsScope' /\ LentIsCached'
  BY <1>1 DEF FiledUnderScope, SessionsScope, LentIsCached
<1>8. InstalledOnce' /\ JunkIsLoose'
  BY <1>1 DEF InstalledOnce, JunkIsLoose
<1> QED BY <1>3, <1>4, <1>5, <1>6, <1>7, <1>8 DEF Inv

(* Forgetting the scopes of a set, and what is cached for them. *)
LEMMA ForgetCache ==
  ASSUME Inv, NEW gone, entries' = Without(entries, gone),
         recency' = Forget(gone)
  PROVE  /\ Lists(recency', Cached') /\ Cached' = Cached \ gone
         /\ entries' \in [Scopes -> Builds \cup {None}]
         /\ \A s \in Scopes : entries'[s] = IF s \in gone THEN None ELSE entries[s]
<1>1. /\ Lists(recency, Cached) /\ entries \in [Scopes -> Builds \cup {None}]
  BY DEF Inv, TypeOK, Lists
<1>2. /\ entries' \in [Scopes -> Builds \cup {None}]
      /\ \A s \in Scopes : entries'[s] = IF s \in gone THEN None ELSE entries[s]
  BY <1>1 DEF Without
<1>3. Cached' = Cached \ gone
  BY <1>2 DEF Cached
<1>4. Lists(recency', Cached \ gone)
  BY <1>1, DroppingLists DEF Forget
<1> QED BY <1>2, <1>3, <1>4

LEMMA AskKeeps ==
  ASSUME Inv, NEW t \in Requests, NEW s \in Scopes, Ask(t, s)
  PROVE  Inv'
<1> DEFINE dead == {x \in Cached : x \notin exists}
           gone == {entries[x] : x \in dead}
           stays(x) == served[x] \notin gone /\ (x = t => pins[x] = s)
           asking == [Idle EXCEPT !.pc = "collect", !.scope = s]
           bs == [b \in Builds |-> [builds[b] EXCEPT !.reaped = @ \/ b \in gone]]
<1>1. /\ thread[t].pc = "idle"
      /\ Becomes(t, asking) \/ (t \in Switchers /\ UNCHANGED thread)
      /\ pins' = [x \in Sessions |-> IF x = t THEN s ELSE pins[x]]
      /\ served' = [x \in Sessions |-> IF stays(x) THEN served[x] ELSE None]
      /\ entries' = Without(entries, dead) /\ recency' = Forget(dead)
      /\ quiet' = quiet \ dead
      /\ UNCHANGED <<inFlight, active, worldVars>>
      /\ builds' = Kept(bs)
  BY DEF Ask
<1>2. /\ t \in Threads /\ t \notin Sweepers /\ (t \in Switchers => t \notin Sessions)
  BY Ids
<1>3. /\ thread[t] = Idle /\ builds \in [Builds -> Build]
  BY <1>1, <1>2, Parts DEF Fits
<1> HIDE DEF stays
<1>4. PICK k \in {Idle, asking} : Becomes(t, k) /\ (t \in Sessions => k = asking)
  <2>1. CASE Becomes(t, asking)
    BY <2>1
  <2>2. CASE t \in Switchers /\ UNCHANGED thread
    <3>1. thread \in [Threads -> Task]
      BY DEF Inv, TypeOK
    <3>2. Becomes(t, Idle)
      BY <1>2, <1>3, <2>2, <3>1 DEF Becomes
    <3> QED BY <1>2, <2>2, <3>2
  <2> QED BY <1>1, <2>1, <2>2
<1>5. /\ k \in Task /\ Fits(t, k) /\ k.todo = {} /\ k.junk = {} /\ k.ticket = None
      /\ k.ctx = None /\ k.pc \in {"idle", "collect"}
      /\ k.pc = "collect" => k.scope = s
  <2>1. asking = [pc |-> "collect", scope |-> s, ticket |-> None, ctx |-> None,
                  todo |-> {}, junk |-> {}]
    <3> DEFINE i == [Idle EXCEPT !.pc = "collect"]
    <3>1. i = [pc |-> "collect", scope |-> None, ticket |-> None, ctx |-> None,
               todo |-> {}, junk |-> {}]
      BY DEF Idle
    <3>2. asking = [i EXCEPT !.scope = s]
      OBVIOUS
    <3> HIDE DEF i, asking
    <3> QED BY <3>1, <3>2
  <2> HIDE DEF asking
  <2>2. asking \in Task /\ Fits(t, asking)
    BY <1>2, <2>1 DEF Task, Fits
  <2> QED BY <1>4, <2>1, <2>2, IdleFits DEF Idle
<1>6. /\ bs \in [Builds -> Build]
      /\ \A b \in Builds : /\ bs[b].stage = builds[b].stage /\ bs[b].stopped = builds[b].stopped
                           /\ bs[b].reaped <=> builds[b].reaped \/ b \in gone
  <2> HIDE DEF gone
  <2>1. ASSUME NEW b \in Builds
        PROVE  LET new == [builds[b] EXCEPT !.reaped = @ \/ b \in gone] IN
               /\ new \in Build /\ new.stage = builds[b].stage
               /\ new.stopped = builds[b].stopped
               /\ new.reaped <=> builds[b].reaped \/ b \in gone
    <3> DEFINE r == builds[b].reaped \/ b \in gone
    <3>1. builds[b] \in Build /\ r \in BOOLEAN
      BY <1>3
    <3>2. [builds[b] EXCEPT !.reaped = @ \/ b \in gone] = [builds[b] EXCEPT !.reaped = r]
      OBVIOUS
    <3> HIDE DEF r
    <3>3. /\ [builds[b] EXCEPT !.reaped = r] \in Build
          /\ [builds[b] EXCEPT !.reaped = r].stage = builds[b].stage
          /\ [builds[b] EXCEPT !.reaped = r].stopped = builds[b].stopped
          /\ [builds[b] EXCEPT !.reaped = r].reaped = r
      BY <3>1 DEF Build
    <3> QED BY <3>2, <3>3 DEF r
  <2> QED BY <2>1
<1>7. /\ Lists(recency', Cached') /\ Cached' = Cached \ dead
      /\ entries' \in [Scopes -> Builds \cup {None}]
      /\ \A x \in Scopes : entries'[x] = IF x \in dead THEN None ELSE entries[x]
  <2> HIDE DEF dead
  <2> QED BY <1>1, ForgetCache
<1>8. \A x \in Scopes : entries[x] \in {None, entries'[x]} \/ bs[entries[x]].reaped
  <2> SUFFICES ASSUME NEW x \in dead PROVE bs[entries[x]].reaped
    BY <1>7
  <2>1. x \in Scopes /\ entries[x] # None
    BY DEF Cached
  <2>2. entries[x] \in Builds /\ entries[x] \in gone
    BY <2>1, Contexts
  <2> HIDE DEF gone, dead, bs
  <2> QED BY <1>6, <2>2
<1> HIDE DEF bs, gone, dead, asking
<1>9. TypeOK'
  <2>1. TypeOK /\ pins \in [Sessions -> Scopes \cup {None}]
        /\ served \in [Sessions -> Builds \cup {None}]
    BY DEF Inv, TypeOK
  <2>2. /\ pins' \in [Sessions -> Scopes \cup {None}]
        /\ served' \in [Sessions -> Builds \cup {None}]
    BY <1>1, <2>1
  <2>3. /\ inFlight' \in [Scopes -> Builds \cup {None}] /\ active' \in Builds \cup {None}
        /\ quiet' \subseteq Cached'
    BY <1>1, <1>7, <2>1 DEF TypeOK
  <2> QED BY <1>1, <1>2, <1>4, <1>5, <1>6, <1>7, <2>1, <2>2, <2>3, MoveType
<1>10. \A x \in Scopes : inFlight'[x] # None =>
             ScopeOf(inFlight'[x]) = x /\ bs[inFlight'[x]].stage # "unused"
  BY <1>1, <1>6, Tickets
<1>11. /\ \A x \in Sessions \ {t} : pins'[x] = pins[x]
       /\ t \in Sessions /\ k.pc # "idle" => k.scope = pins'[t]
  BY <1>1, <1>5
<1> QED BY <1>1, <1>2, <1>4, <1>5, <1>6, <1>7, <1>8, <1>9, <1>10, <1>11, MoveKeeps

LEMMA SweepKeeps ==
  ASSUME Inv, NEW t \in Threads, Sweep(t)
  PROVE  Inv'
<1> DEFINE idle == {s \in quiet : Evictable(t, s, None)}
<1>1. /\ thread[t].pc = "sweep" /\ Becomes(t, Idle)
      /\ entries' = Without(entries, idle) /\ recency' = Forget(idle)
      /\ quiet' = {s \in Cached \ idle : ~Lent(entries[s])}
      /\ UNCHANGED <<inFlight, active, pins, served, worldVars>>
      /\ builds' = Kept(builds)
  BY DEF Sweep, sessionVars
<1>2. \A s \in idle : s \in Scopes /\ ~Lent(entries[s])
  BY DEF Evictable, Inv, TypeOK, Cached
<1> HIDE DEF idle
<1>3. /\ thread[t].ctx = None /\ builds \in [Builds -> Build] /\ thread \in [Threads -> Task]
  BY <1>1, Parts DEF Fits, Inv, TypeOK
<1>4. /\ Lists(recency', Cached') /\ Cached' = Cached \ idle
      /\ entries' \in [Scopes -> Builds \cup {None}]
      /\ \A s \in Scopes : entries'[s] = IF s \in idle THEN None ELSE entries[s]
  BY <1>1, ForgetCache
<1>5. TypeOK'
  <2>1. TypeOK
    BY DEF Inv
  <2>2. /\ inFlight' \in [Scopes -> Builds \cup {None}] /\ active' \in Builds \cup {None}
        /\ pins' \in [Sessions -> Scopes \cup {None}]
        /\ served' \in [Sessions -> Builds \cup {None}]
        /\ quiet' \subseteq Cached'
    BY <1>1, <1>4, <2>1 DEF TypeOK
  <2> QED BY <1>1, <1>3, <1>4, <2>1, <2>2, IdleFits, MoveType
<1>6. \A s \in Scopes : inFlight'[s] # None =>
             ScopeOf(inFlight'[s]) = s /\ builds[inFlight'[s]].stage # "unused"
  BY <1>1, Tickets
<1>7. /\ Idle.todo = {} /\ Idle.junk = {} /\ Idle.ticket = None /\ Idle.ctx = None
      /\ Idle.pc = "idle"
  BY DEF Idle
<1>8. ASSUME NEW s \in Scopes
      PROVE  \/ entries[s] \in {None, entries'[s]}
             \/ entries[s] # active' /\ \A u \in Threads : thread'[u].ctx # entries[s]
  <2> SUFFICES ASSUME s \in idle, entries[s] # None
               PROVE  entries[s] # active' /\ \A u \in Threads : thread'[u].ctx # entries[s]
    BY <1>4
  <2>1. ~Lent(entries[s])
    BY <1>2
  <2>2. \A u \in Threads : thread'[u] = IF u = t THEN Idle ELSE thread[u]
    BY <1>1, <1>3 DEF Becomes
  <2> QED BY <1>1, <1>7, <2>1, <2>2 DEF Lent
<1> QED BY <1>1, <1>3, <1>4, <1>5, <1>6, <1>7, <1>8, IdleFits, MoveKeeps

LEMMA SpawnKeeps ==
  ASSUME Inv, NEW t \in Threads, Spawn(t)
  PROVE  Inv'
<1> DEFINE s == thread[t].scope
           unused == {i \in Slots : builds[<<s, i>>] = Blank}
           b == <<s, CHOOSE i \in unused : \A j \in unused : i <= j>>
<1>1. /\ thread[t].pc = "lookup" /\ s \notin Cached /\ inFlight[s] = None /\ unused # {}
      /\ inFlight' = [inFlight EXCEPT ![s] = b]
      /\ \E stage \in {"spawned", "lost"} :
           /\ builds' = [builds EXCEPT ![b] = [Blank EXCEPT !.stage = stage]]
           /\ Becomes(t, IF stage = "lost" THEN Idle
                         ELSE [thread[t] EXCEPT !.pc = "wait", !.ticket = b])
      /\ UNCHANGED <<entries, recency, quiet, active, pins, served, worldVars>>
  BY DEF Spawn, sessionVars
<1>2. PICK stage \in {"spawned", "lost"} :
           /\ builds' = [builds EXCEPT ![b] = [Blank EXCEPT !.stage = stage]]
           /\ Becomes(t, IF stage = "lost" THEN Idle
                         ELSE [thread[t] EXCEPT !.pc = "wait", !.ticket = b])
  BY <1>1
<1>3. /\ thread[t] \in Task /\ Fits(t, thread[t]) /\ builds \in [Builds -> Build]
      /\ t \in Requests /\ s \in Scopes /\ t \notin Sweepers
      /\ thread[t].ctx = None /\ thread[t].junk = {} /\ thread[t].ticket = None
  BY <1>1, Parts, Ids DEF Fits, Threads
<1>4. b \in Builds /\ ScopeOf(b) = s /\ builds[b] = Blank
  BY <1>1, <1>3, SpawnedBuild
<1> HIDE DEF b, unused
<1> DEFINE new == [Blank EXCEPT !.stage = stage]
           bs == [builds EXCEPT ![b] = new]
           k == IF stage = "lost" THEN Idle
                ELSE [thread[t] EXCEPT !.pc = "wait", !.ticket = b]
<1>5. /\ new \in Build /\ new.stage = stage /\ new.stopped = FALSE
      /\ builds[b].stage = "unused" /\ builds[b].reaped = FALSE
  <2>1. Blank.stage = "unused" /\ Blank.reaped = FALSE
    BY DEF Blank
  <2>2. Blank \in Build /\ Blank.stopped = FALSE
    BY DEF Blank, Build
  <2>3. new \in Build /\ new.stage = stage /\ new.stopped = FALSE
    <3> HIDE DEF b
    <3> QED BY <2>2 DEF Build, Finished
  <2> HIDE DEF new
  <2> QED BY <1>4, <2>1, <2>3
<1>6. /\ bs \in [Builds -> Build]
      /\ bs[b].stage # "unused"
      /\ \A c \in Builds : /\ builds[c].stage = "taken" => bs[c].stage = "taken"
                           /\ builds[c].stage # "unused" => bs[c].stage # "unused"
                           /\ builds[c].reaped => bs[c].reaped
                           /\ bs[c].stopped => builds[c].stopped
  <2> HIDE DEF new
  <2> QED BY <1>3, <1>4, <1>5
<1>7. /\ k \in Task /\ Fits(t, k) /\ (k.pc # "idle" => k.scope = s)
      /\ k.todo \subseteq thread[t].todo /\ k.junk = {} /\ k.ticket \in {None, b}
      /\ k.ctx = None /\ k.pc \in {"idle", "wait"}
  <2>1. CASE stage = "lost"
    <3>1. k = Idle
      BY <2>1
    <3> HIDE DEF k
    <3> QED BY <3>1, IdleFits DEF Idle
  <2>2. CASE stage # "lost"
    <3>1. k = [thread[t] EXCEPT !.pc = "wait", !.ticket = b]
      BY <2>2
    <3> HIDE DEF k
    <3> QED BY <1>1, <1>3, <1>4, <3>1, Ids DEF Task, Fits
  <2> QED BY <2>1, <2>2
<1>8. builds' = bs /\ Becomes(t, k)
  BY <1>2
<1> HIDE DEF new, bs, k, s
<1>9. /\ inFlight' \in [Scopes -> Builds \cup {None}]
      /\ \A x \in Scopes : inFlight'[x] = IF x = s THEN b ELSE inFlight[x]
  BY <1>1, <1>3, <1>4, Tickets
<1>10. TypeOK'
  <2>1. TypeOK
    BY DEF Inv
  <2>2. /\ active' \in Builds \cup {None}
        /\ pins' \in [Sessions -> Scopes \cup {None}]
        /\ served' \in [Sessions -> Builds \cup {None}]
    BY <1>1, <2>1 DEF TypeOK
  <2> QED BY <1>1, <1>6, <1>7, <1>8, <1>9, <2>1, <2>2, SameCache, MoveType
<1>11. \A x \in Scopes : inFlight'[x] # None =>
             ScopeOf(inFlight'[x]) = x /\ bs[inFlight'[x]].stage # "unused"
  BY <1>4, <1>6, <1>9, Tickets
<1>12. \A c \in k.todo \cup ({k.ticket} \ {None}) : bs[c].stage # "unused"
  BY <1>6, <1>7, Tickets
<1>13. t \in Sessions /\ k.pc # "idle" => k.scope = pins'[t]
  BY <1>1, <1>7 DEF Inv, SessionsScope, s
<1> QED BY <1>1, <1>6, <1>7, <1>8, <1>10, <1>11, <1>12, <1>13, MoveKeeps

(* What the eviction loop takes out is cached, of another scope, and nobody's. *)
LEMMA VictimsProperties ==
  ASSUME Inv, NEW t \in Threads, NEW s \in Scopes
  PROVE  /\ s \notin Victims(t, Touched(recency, s), s)
         /\ \A x \in Victims(t, Touched(recency, s), s) :
              /\ x \in Cached /\ Evictable(t, x, s) /\ ~Lent(entries[x])
              /\ entries[x] \in Builds /\ ScopeOf(entries[x]) = x
              /\ builds[entries[x]].stage = "taken" /\ ~builds[entries[x]].stopped
<1>1. Lists(Touched(recency, s), Cached \cup {s})
  BY Parts, TouchedLists DEF Inv, TypeOK, Lists
<1>2. ASSUME NEW x \in Victims(t, Touched(recency, s), s)
      PROVE  /\ x \in Cached /\ Evictable(t, x, s) /\ ~Lent(entries[x]) /\ x # s
             /\ entries[x] \in Builds /\ ScopeOf(entries[x]) = x
             /\ builds[entries[x]].stage = "taken" /\ ~builds[entries[x]].stopped
  <2>1. x \in Cached \cup {s} /\ Evictable(t, x, s)
    BY <1>1, VictimsAreLoose DEF Lists
  <2>2. x # s /\ ~Lent(entries[x])
    BY <2>1 DEF Evictable, Protected
  <2>3. x \in Scopes /\ entries[x] # None
    BY <2>1, <2>2 DEF Cached
  <2>4. ContextHeld(entries[x])
    BY <2>3 DEF ContextHeld
  <2> QED BY <2>1, <2>2, <2>3, <2>4, Contexts
<1> QED BY <1>2

LEMMA InstallKeeps ==
  ASSUME Inv, NEW t \in Threads, Install(t)
  PROVE  Inv'
<1> DEFINE b == thread[t].ctx
           s == ScopeOf(b)
           order == Touched(recency, s)
           gone == Victims(t, order, s)
<1>1. /\ thread[t].pc = "install"
      /\ UNCHANGED <<inFlight, active, pins, served, worldVars>>
      /\ builds' = Kept(builds)
  BY DEF Install, sessionVars
<1>2. /\ thread[t] \in Task /\ Fits(t, thread[t]) /\ builds \in [Builds -> Build]
      /\ b \in Builds /\ b # None /\ thread[t].junk = {} /\ None \notin Builds
      /\ s \in Scopes /\ Lists(recency, Cached)
      /\ thread[t].ticket # None => s = thread[t].scope
      /\ t \in Sweepers => thread[t].ticket = None
      /\ t \in Requests => thread[t].scope \in Scopes
  BY <1>1, Parts, Ids DEF Fits
<1>3. /\ b # active
      /\ \A x \in Scopes : entries[x] # b
      /\ \A u \in Threads : b \notin thread[u].junk /\ (u # t => thread[u].ctx # b)
  BY <1>1 DEF Inv, InstalledOnce
<1>4. builds[b].stage = "taken" /\ ~builds[b].stopped
  <2>1. ContextHeld(b)
    BY DEF ContextHeld, Lent
  <2> QED BY <1>2, <2>1, Contexts
<1>5. Lists(order, Cached \cup {s})
  <2> HIDE DEF s
  <2> QED BY <1>2, TouchedLists
<1>6. TypeOK /\ JunkIsLoose /\ thread \in [Threads -> Task]
  BY DEF Inv, TypeOK
<1>7. \A x \in Scopes : inFlight'[x] # None =>
             ScopeOf(inFlight'[x]) = x /\ builds[inFlight'[x]].stage # "unused"
  BY <1>1, Tickets
<1>8. /\ active' \in Builds \cup {None} /\ pins' \in [Sessions -> Scopes \cup {None}]
      /\ served' \in [Sessions -> Builds \cup {None}]
      /\ inFlight' \in [Scopes -> Builds \cup {None}]
  BY <1>1, <1>6 DEF TypeOK
<1>9. CASE AlreadyCached(s) # None
  <2> DEFINE rest == [thread[t] EXCEPT !.ctx = entries[s], !.junk = {b}]
             k == Installed(t, rest)
  <2>1. /\ entries[s] # None /\ recency' = order /\ quiet' = quiet \ {s}
        /\ Becomes(t, k) /\ UNCHANGED entries
    BY <1>9 DEF Install, AlreadyCached
  <2>2. entries[s] \in Builds /\ ScopeOf(entries[s]) = s /\ s \in Cached
    BY <1>2, <2>1, Contexts DEF Cached
  <2>3. /\ rest \in Task /\ rest.ctx = entries[s] /\ rest.junk = {b}
        /\ rest.ticket = thread[t].ticket /\ rest.scope = thread[t].scope
        /\ rest.todo = thread[t].todo
    BY <1>2, <2>2 DEF Task
  <2> HIDE DEF rest
  <2>4. /\ k \in Task /\ Fits(t, k) /\ k.scope = thread[t].scope /\ k.todo = thread[t].todo
        /\ k.junk = {b} /\ k.ticket \in {None, thread[t].ticket}
        /\ k.ctx \in {None, entries[s]}
        /\ k.pc \in {"retire", "use", "take", "sweep", "lookup"}
        /\ k.pc \in {"retire", "use"} => k.ctx = entries[s]
    <3> HIDE DEF s, b
    <3>1. /\ k \in Task /\ Fits(t, k) /\ k.scope = rest.scope /\ k.todo = rest.todo
          /\ k.junk = rest.junk /\ k.ticket \in {None, rest.ticket}
          /\ k.ctx \in {None, rest.ctx}
          /\ k.pc \in {"retire", "use", "take", "sweep", "lookup"}
          /\ k.pc \in {"retire", "use"} => k.ctx = rest.ctx /\ rest.ctx # None
      BY <1>2, <2>1, <2>2, <2>3, InstalledFits
    <3> QED BY <2>3, <3>1
  <2> HIDE DEF k, b, s, order
  <2>5. TypeOK'
    <3>1. Lists(recency', Cached') /\ quiet' \subseteq Cached'
          /\ entries' \in [Scopes -> Builds \cup {None}]
      BY <2>1, <2>2, SameCache DEF order
    <3> QED BY <1>1, <1>2, <1>6, <1>8, <2>1, <2>4, <3>1, MoveType
  <2>6. \A c \in k.todo \cup ({k.ticket} \ {None}) : builds[c].stage # "unused"
    BY <2>4, Tickets
  <2>7. t \in Sessions /\ k.pc # "idle" => k.scope = pins'[t]
    BY <1>1, <2>4 DEF Inv, SessionsScope
  <2>8. \A u \in Threads : thread'[u].ctx # b
    BY <1>2, <1>3, <1>6, <2>1, <2>4 DEF Becomes
  <2>9. \A c \in k.junk :
          /\ builds[c].stage = "taken" /\ c # active'
          /\ \A x \in Scopes : entries'[x] # c
          /\ \A u \in Threads : thread'[u].ctx # c /\ (u # t => c \notin thread[u].junk)
          /\ ~builds[c].stopped
    BY <1>1, <1>3, <1>4, <2>1, <2>4, <2>8
  <2>10. k.pc \in {"use", "retire"} => entries'[ScopeOf(k.ctx)] = k.ctx
    BY <2>1, <2>2, <2>4
  <2>11. k.ctx # None => k.pc # "install" /\ \E x \in Scopes : entries[x] = k.ctx
    BY <1>2, <2>4
  <2> QED BY <1>1, <1>2, <1>7, <2>1, <2>4, <2>5, <2>6, <2>7, <2>9, <2>10, <2>11, MoveKeeps
<1>10. CASE AlreadyCached(s) = None
  <2> DEFINE junk == {entries[x] : x \in gone}
             rest == [thread[t] EXCEPT !.junk = junk]
             k == Installed(t, rest)
  <2>1. /\ entries[s] = None
        /\ entries' = Without([entries EXCEPT ![s] = b], gone)
        /\ recency' = Rotated(order, gone) /\ quiet' = quiet \ (gone \cup {s})
        /\ Becomes(t, k)
    BY <1>10 DEF Install, AlreadyCached
  <2>2. /\ s \notin gone
        /\ \A x \in gone : /\ x \in Cached /\ Evictable(t, x, s) /\ ~Lent(entries[x])
                           /\ entries[x] \in Builds /\ ScopeOf(entries[x]) = x
                           /\ builds[entries[x]].stage = "taken" /\ ~builds[entries[x]].stopped
    <3> HIDE DEF s
    <3> QED BY <1>2, VictimsProperties DEF s
  <2> HIDE DEF gone, order
  <2>3. junk \subseteq Builds
    BY <2>2
  <2>4. /\ rest \in Task /\ rest.ctx = b /\ rest.junk = junk
        /\ rest.ticket = thread[t].ticket /\ rest.scope = thread[t].scope
        /\ rest.todo = thread[t].todo
    <3> HIDE DEF junk
    <3> QED BY <1>2, <2>3 DEF Task
  <2> HIDE DEF rest, junk
  <2>5. /\ k \in Task /\ Fits(t, k) /\ k.scope = thread[t].scope /\ k.todo = thread[t].todo
        /\ k.junk = junk /\ k.ticket \in {None, thread[t].ticket}
        /\ k.ctx \in {None, b}
        /\ k.pc \in {"retire", "use", "take", "sweep", "lookup"}
        /\ k.pc \in {"retire", "use"} => k.ctx = b
    <3>1. /\ rest.ctx # None /\ (rest.ticket # None => ScopeOf(rest.ctx) = rest.scope)
          /\ t \in Sweepers => rest.ticket = None
          /\ t \in Requests => rest.scope \in Scopes
      BY <1>2, <2>4
    <3> HIDE DEF s, b
    <3>2. /\ k \in Task /\ Fits(t, k) /\ k.scope = rest.scope /\ k.todo = rest.todo
          /\ k.junk = rest.junk /\ k.ticket \in {None, rest.ticket}
          /\ k.ctx \in {None, rest.ctx}
          /\ k.pc \in {"retire", "use", "take", "sweep", "lookup"}
          /\ k.pc \in {"retire", "use"} => k.ctx = rest.ctx /\ rest.ctx # None
      BY <2>4, <3>1, InstalledFits
    <3> QED BY <2>4, <3>2
  <2> HIDE DEF k
  <2>6. /\ entries' \in [Scopes -> Builds \cup {None}]
        /\ \A x \in Scopes : entries'[x] = IF x \in gone THEN None
                                           ELSE IF x = s THEN b ELSE entries[x]
    <3> HIDE DEF s, b
    <3> QED BY <1>2, <1>6, <2>1 DEF Without, TypeOK
  <2>7. entries'[s] = b /\ ScopeOf(b) = s
    BY <1>2, <2>2, <2>6
  <2> HIDE DEF s, b
  <2>8. Cached' = (Cached \cup {s}) \ gone
    BY <1>2, <2>6 DEF Cached
  <2>9. TypeOK'
    <3>1. Lists(recency', Cached')
      BY <1>5, <2>1, <2>8, RotatedLists
    <3>2. quiet' \subseteq Cached'
      BY <1>6, <2>1, <2>8 DEF TypeOK
    <3> QED BY <1>1, <1>2, <1>6, <1>8, <2>1, <2>5, <2>6, <3>1, <3>2, MoveType
  <2>10. \A c \in k.todo \cup ({k.ticket} \ {None}) : builds[c].stage # "unused"
    BY <2>5, Tickets
  <2>11. t \in Sessions /\ k.pc # "idle" => k.scope = pins'[t]
    BY <1>1, <2>5 DEF Inv, SessionsScope
  <2>12. \A u \in Threads : thread'[u] = IF u = t THEN k ELSE thread[u]
    BY <1>6, <2>1 DEF Becomes
  <2>13. ASSUME NEW x \in gone
         PROVE  LET c == entries[x] IN
                /\ builds[c].stage = "taken" /\ c # active'
                /\ \A y \in Scopes : entries'[y] # c
                /\ \A u \in Threads : thread'[u].ctx # c /\ (u # t => c \notin thread[u].junk)
                /\ ~builds[c].stopped
    <3> DEFINE c == entries[x]
    <3>1. /\ c \in Builds /\ ScopeOf(c) = x /\ x \in Scopes /\ c # None /\ ~Lent(c)
          /\ builds[c].stage = "taken" /\ ~builds[c].stopped
      BY <1>2, <2>2 DEF Cached
    <3>2. c # b
      BY <1>3, <3>1
    <3>3. c # active' /\ \A u \in Threads : thread'[u].ctx # c
      <4>1. c # active /\ \A u \in Threads : thread[u].ctx # c
        BY <3>1 DEF Lent
      <4> HIDE DEF c
      <4> QED BY <1>1, <2>5, <2>12, <3>1, <3>2, <4>1
    <3>4. ASSUME NEW y \in Scopes PROVE entries'[y] # c
      <4>1. entries[y] = c /\ c # None => y = x
        BY <3>1, Contexts
      <4> HIDE DEF c
      <4> QED BY <2>6, <3>1, <3>2, <4>1
    <3>5. \A u \in Threads : c \notin thread[u].junk
      BY <1>6, <3>1 DEF JunkIsLoose
    <3> HIDE DEF c
    <3> QED BY <3>1, <3>3, <3>4, <3>5 DEF c
  <2>14. \A c \in k.junk :
          /\ builds[c].stage = "taken" /\ c # active'
          /\ \A y \in Scopes : entries'[y] # c
          /\ \A u \in Threads : thread'[u].ctx # c /\ (u # t => c \notin thread[u].junk)
          /\ ~builds[c].stopped
    BY <2>5, <2>13 DEF junk
  <2>15. ASSUME NEW x \in Scopes
         PROVE  \/ entries[x] \in {None, entries'[x]}
                \/ entries[x] # active' /\ \A u \in Threads : thread'[u].ctx # entries[x]
    <3>1. CASE x \in gone
      BY <2>13, <3>1
    <3>2. CASE x \notin gone
      BY <2>1, <2>6, <3>2
    <3> QED BY <3>1, <3>2
  <2>16. ASSUME NEW x \in Scopes
         PROVE  \/ entries'[x] \in {None, entries[x]}
                \/ /\ thread[t].pc = "install" /\ k.pc # "install"
                   /\ entries'[x] = thread[t].ctx /\ ScopeOf(entries'[x]) = x
    BY <1>1, <2>5, <2>6, <2>7 DEF b
  <2>17. k.pc \in {"use", "retire"} => entries'[ScopeOf(k.ctx)] = k.ctx
    BY <2>5, <2>7
  <2>18. k.ctx # None => k.pc # "install" /\ k.ctx = thread[t].ctx
    BY <2>5 DEF b
  <2>19. \A c \in k.junk :
           \/ c \in thread[t].junk
           \/ /\ builds[c].stage = "taken" /\ c # active'
              /\ \A x \in Scopes : entries'[x] # c
              /\ \A u \in Threads : thread'[u].ctx # c /\ (u # t => c \notin thread[u].junk)
              /\ ~builds[c].stopped
    BY <2>14
  <2>20. /\ active' \in {None, active} \/ (thread[t].pc = "use" /\ active' = thread[t].ctx)
         /\ \A x \in Sessions \ {t} : pins'[x] = pins[x]
         /\ builds' \in {builds, Kept(builds)}
    BY <1>1
  <2>21. /\ k.pc \in {"use", "retire"} => builds[k.ctx].reaped \/ entries'[ScopeOf(k.ctx)] = k.ctx
         /\ \A x \in Scopes :
              \/ entries[x] \in {None, entries'[x]}
              \/ builds[entries[x]].reaped
              \/ (entries[x] # active' /\ \A u \in Threads : thread'[u].ctx # entries[x])
         /\ k.ctx # None =>
              \/ /\ k.pc = "install" /\ thread[t].pc # "install"
                 /\ builds[k.ctx].stage = "ready" /\ builds[k.ctx].stage = "taken"
              \/ /\ k.pc # "install"
                 /\ \/ k.ctx \in {thread[t].ctx, active}
                    \/ \E x \in Scopes : entries[x] = k.ctx
    BY <2>15, <2>17, <2>18
  <2>22. Becomes(t, k) /\ k \in Task /\ Fits(t, k) /\ builds \in [Builds -> Build]
    BY <1>2, <2>1, <2>5
  <2> QED BY <1>7, <2>9, <2>10, <2>11, <2>16, <2>19, <2>20, <2>21, <2>22, MoveKeeps
<1> QED BY <1>9, <1>10

(* What changes nothing keeps everything. *)
LEMMA NextKeeps ==
  ASSUME Inv, [Next]_vars
  PROVE  Inv'
<1>0. TypeOK /\ Contested \subseteq Scopes /\ Switchers \subseteq Threads
  BY Ids, RuntimesAssumption DEF Inv, RuntimesAssumption
<1>1. ASSUME NEW t \in Threads, Step(t) PROVE Inv'
  BY <1>1, CollectKeeps, TakeKeeps, InstallKeeps, RetireKeeps, FoundKeeps, JoinKeeps, SpawnKeeps,
     ClaimKeeps, GiveUpKeeps, EndKeeps, SweepKeeps DEF Step
<1>2. ASSUME NEW b \in Builds, BuildStep(b) PROVE Inv'
  BY <1>2, AcquireKeeps, BuildEndsKeeps DEF BuildStep
<1>3. ASSUME NEW t \in Switchers, Activate(t) \/ Deactivate(t) \/ UseActive(t) PROVE Inv'
  BY <1>0, <1>3, ActivateKeeps, DeactivateKeeps, UseActiveKeeps
<1>4. ASSUME NEW s \in Scopes,
             (s \in Contested /\ (RivalTakes(s) \/ RivalLeaves(s))) \/ DeleteRoot(s) \/ CreateRoot(s)
      PROVE  Inv'
  <2>1. /\ rivals \subseteq Scopes /\ exists \subseteq Scopes /\ deletes \in 0..MaxDeletes
        /\ MaxDeletes \in Nat
    BY <1>0, RuntimesAssumption DEF TypeOK, RuntimesAssumption
  <2>2. /\ UNCHANGED <<builds, cacheVars, active, sessionVars, thread>>
        /\ rivals' \subseteq Scopes /\ exists' \subseteq Scopes
        /\ deletes' = deletes \/ (deletes < MaxDeletes /\ deletes' = deletes + 1)
    BY <1>4, <2>1 DEF RivalTakes, RivalLeaves, DeleteRoot, CreateRoot
  <2>3. deletes' \in 0..MaxDeletes
    BY <2>1, <2>2
  <2> QED BY <2>2, <2>3, WorldKeeps
<1>5. CASE UNCHANGED vars
  <2>1. rivals \subseteq Scopes /\ exists \subseteq Scopes /\ deletes \in 0..MaxDeletes
    BY <1>0 DEF TypeOK
  <2> QED BY <1>5, <2>1, WorldKeeps DEF vars, worldVars
<1>6. CASE Next
  BY <1>0, <1>1, <1>2, <1>3, <1>4, <1>6, AskKeeps, StartSweepKeeps DEF Next
<1> QED BY <1>5, <1>6

LEMMA Invariance ==
  Spec => []Inv
<1>1. Init => Inv
  BY InitEstablishes
<1>2. Inv /\ [Next]_vars => Inv'
  BY NextKeeps
<1> QED BY <1>1, <1>2, PTL DEF Spec

(***************************************************************************)
(* The theorems.                                                           *)
(***************************************************************************)
(* Every variable keeps its type; the recency list holds each cached scope exactly
   once, whatever is evicted, swept or forgotten. *)
THEOREM TypeCorrect ==
  Spec => []TypeOK
<1>1. Inv => TypeOK
  BY DEF Inv
<1> QED BY <1>1, Invariance, PTL

(* shutdown_resources is never called on a runtime that somebody can still use. *)
THEOREM NobodyUsesAShutDownRuntime ==
  Spec => []NoUseAfterShutdown
<1>1. Inv => NoUseAfterShutdown
  <2> SUFFICES ASSUME Inv, NEW b \in Builds, InUse(b) \/ (\E s \in Scopes : entries[s] = b)
               PROVE  ~builds[b].stopped
    BY DEF NoUseAfterShutdown
  <2>1. ContextHeld(b)
    BY DEF InUse, ContextHeld, Lent
  <2> QED BY <2>1 DEF Inv, StoppedIsFree
<1> QED BY <1>1, Invariance, PTL

(* However many builds of one project race, the requests of the process that work on
   it use the one that is cached, unless the project's directory was deleted. *)
THEOREM OneRuntimePerProject ==
  Spec => []InUseIsCached
<1>1. Inv => InUseIsCached
  <2> SUFFICES ASSUME Inv, NEW b \in Builds, InUse(b)
               PROVE  builds[b].reaped \/ entries[ScopeOf(b)] = b
    BY DEF InUseIsCached
  <2> QED BY DEF InUse, Inv, LentIsCached
<1> QED BY <1>1, Invariance, PTL

(* The scope of a session's last request is the one it is bound to. *)
BoundSessions ==
  \A t \in Sessions : served[t] # None => pins[t] \in Scopes /\ entries[pins[t]] = served[t]

(* Without job workers, which do not see the sessions' bindings, every eviction
   passes the runtimes of the bound sessions over. *)
LEMMA BoundSessionsKept ==
  ASSUME JobWorkers = {}, Inv, BoundSessions, [Next]_vars
  PROVE  BoundSessions'
<1> SUFFICES ASSUME NEW x \in Sessions, served'[x] # None
             PROVE  pins'[x] \in Scopes /\ entries'[pins'[x]] = served'[x]
  BY DEF BoundSessions
<1>0. /\ served \in [Sessions -> Builds \cup {None}] /\ pins \in [Sessions -> Scopes \cup {None}]
      /\ entries \in [Scopes -> Builds \cup {None}] /\ None \notin Builds
      /\ Sessions \subseteq Requests /\ Requests \subseteq Threads
      /\ served[x] # None => pins[x] \in Scopes /\ entries[pins[x]] = served[x]
  BY Ids DEF Inv, TypeOK, BoundSessions
<1>1. CASE UNCHANGED <<entries, pins, served>>
  BY <1>0, <1>1
<1>2. ASSUME NEW t \in Requests, NEW s \in Scopes, Ask(t, s)
      PROVE  pins'[x] \in Scopes /\ entries'[pins'[x]] = served'[x]
  <2> DEFINE dead == {y \in Cached : y \notin exists}
             gone == {entries[y] : y \in dead}
  <2>1. /\ pins' = [y \in Sessions |-> IF y = t THEN s ELSE pins[y]]
        /\ served'[x] = IF served[x] \notin gone /\ (x = t => pins[x] = s)
                          THEN served[x] ELSE None
        /\ entries' = Without(entries, dead)
    BY <1>2 DEF Ask
  <2>2. /\ served'[x] = served[x] /\ served[x] \notin gone /\ (x = t => pins[x] = s)
    BY <2>1
  <2>3. pins'[x] = pins[x] /\ pins[x] \in Scopes /\ entries[pins[x]] = served[x]
    BY <1>0, <2>1, <2>2
  <2>4. pins[x] \notin dead
    BY <2>2, <2>3
  <2> HIDE DEF dead
  <2> QED BY <2>1, <2>2, <2>3, <2>4 DEF Without
<1>3. ASSUME NEW t \in Threads, Install(t)
      PROVE  pins'[x] \in Scopes /\ entries'[pins'[x]] = served'[x]
  <2> DEFINE s == ScopeOf(thread[t].ctx)
             gone == Victims(t, Touched(recency, s), s)
  <2>1. /\ UNCHANGED <<pins, served>> /\ thread[t].pc = "install"
        /\ \/ UNCHANGED entries
           \/ entries[s] = None /\ entries' = Without([entries EXCEPT ![s] = thread[t].ctx], gone)
    BY <1>3 DEF Install, sessionVars, AlreadyCached
  <2>2. s \in Scopes
    BY <2>1, Parts, Ids DEF Fits
  <2>3. pins[x] \notin gone
    <3> SUFFICES ASSUME pins[x] \in gone PROVE FALSE
      OBVIOUS
    <3>1. Evictable(t, pins[x], s)
      <4> HIDE DEF s
      <4> QED BY <2>2, VictimsProperties
    <3> QED BY <3>1 DEF Evictable, Protected, SeesSessions
  <2>4. pins[x] \in Scopes /\ entries[pins[x]] = served[x] /\ served[x] # None
    BY <1>0, <2>1
  <2> HIDE DEF gone, s
  <2>5. entries'[pins[x]] = entries[pins[x]]
    BY <1>0, <2>1, <2>2, <2>3, <2>4 DEF Without
  <2> QED BY <2>1, <2>4, <2>5
<1>4. ASSUME NEW t \in Threads, Sweep(t)
      PROVE  pins'[x] \in Scopes /\ entries'[pins'[x]] = served'[x]
  <2> DEFINE idle == {s \in quiet : Evictable(t, s, None)}
  <2>1. UNCHANGED <<pins, served>> /\ entries' = Without(entries, idle)
    BY <1>4 DEF Sweep, sessionVars
  <2>2. pins[x] \notin idle
    BY DEF Evictable, Protected, SeesSessions
  <2> HIDE DEF idle
  <2> QED BY <1>0, <2>1, <2>2 DEF Without
<1>5. ASSUME NEW t \in Threads, End(t)
      PROVE  pins'[x] \in Scopes /\ entries'[pins'[x]] = served'[x]
  <2>1. /\ thread[t].pc = "use" /\ UNCHANGED <<pins, entries>>
        /\ served' = IF t \in Sessions
                       THEN [served EXCEPT ![t] = IF builds[thread[t].ctx].reaped THEN None
                                                  ELSE thread[t].ctx]
                       ELSE served
    BY <1>5 DEF End, cacheVars
  <2>2. CASE x = t
    <3>1. served'[x] = thread[t].ctx /\ ~builds[thread[t].ctx].reaped
      BY <1>0, <2>1, <2>2
    <3>2. thread[t].ctx \in Builds /\ ScopeOf(thread[t].ctx) = thread[t].scope
      BY <2>1, <3>1, Parts DEF Fits
    <3>3. entries[ScopeOf(thread[t].ctx)] = thread[t].ctx
      BY <2>1, <3>1, <3>2 DEF Inv, LentIsCached
    <3>4. thread[t].scope = pins[t]
      BY <2>1, <2>2 DEF Inv, SessionsScope
    <3> QED BY <2>1, <2>2, <3>1, <3>2, <3>3, <3>4, Ids
  <2>3. CASE x # t
    BY <1>0, <2>1, <2>3
  <2> QED BY <2>2, <2>3
<1>6. CASE UNCHANGED vars
  BY <1>1, <1>6 DEF vars, cacheVars, sessionVars
<1>7. ASSUME NEW t \in Threads, Step(t)
      PROVE  pins'[x] \in Scopes /\ entries'[pins'[x]] = served'[x]
  <2>1. CASE Collect(t) \/ Take(t) \/ Retire(t) \/ Found(t) \/ Join(t) \/ Spawn(t) \/ Claim(t)
             \/ GiveUp(t)
    BY <1>1, <2>1
    DEF Collect, Take, Retire, Found, Join, Spawn, Claim, GiveUp, cacheVars, sessionVars
  <2> QED BY <1>3, <1>4, <1>5, <1>7, <2>1 DEF Step
<1>8. ASSUME NEW b \in Builds, BuildStep(b)
      PROVE  UNCHANGED <<entries, pins, served>>
  BY <1>8 DEF BuildStep, Acquire, BuildEnds, cacheVars, sessionVars
<1>9. ASSUME NEW t \in Switchers, Activate(t) \/ Deactivate(t) \/ UseActive(t)
      PROVE  UNCHANGED <<entries, pins, served>>
  BY <1>9 DEF Activate, Deactivate, UseActive, cacheVars, sessionVars
<1>10. ASSUME NEW t \in Sweepers, StartSweep(t)
       PROVE  UNCHANGED <<entries, pins, served>>
  BY <1>10 DEF StartSweep, cacheVars, sessionVars
<1>11. ASSUME NEW s \in Scopes, RivalTakes(s) \/ RivalLeaves(s) \/ DeleteRoot(s) \/ CreateRoot(s)
       PROVE  UNCHANGED <<entries, pins, served>>
  BY <1>11 DEF RivalTakes, RivalLeaves, DeleteRoot, CreateRoot, cacheVars, sessionVars
<1>12. Contested \subseteq Scopes
  BY RuntimesAssumption DEF RuntimesAssumption
<1> QED BY <1>1, <1>2, <1>6, <1>7, <1>8, <1>9, <1>10, <1>11, <1>12 DEF Next

(* In a server without job workers a session finds the runtime of its last request
   again at the next one, whatever the other requests and the sweeper evict.  With
   job workers it does not: the run RuntimeWorkerEvicts shows how one evicts it. *)
THEOREM SessionsKeepTheirRuntime ==
  ASSUME JobWorkers = {}
  PROVE  Spec => []SessionKeepsItsRuntime
<1>1. Init => BoundSessions
  BY DEF Init, BoundSessions
<1>2. Inv /\ BoundSessions /\ [Next]_vars => BoundSessions'
  BY BoundSessionsKept
<1>3. BoundSessions => SessionKeepsItsRuntime
  BY DEF BoundSessions, SessionKeepsItsRuntime
<1> QED BY <1>1, <1>2, <1>3, Invariance, PTL DEF Spec
=============================================================================
