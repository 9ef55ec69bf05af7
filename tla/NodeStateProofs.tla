----------------------------- MODULE NodeStateProofs -----------------------------
(***************************************************************************)
(* What holds of runtime_state.json for any number of ports, users,        *)
(* requests, failures and restarts, from one inductive invariant.          *)
(***************************************************************************)
EXTENDS NodeState, TLAPS

(* Between its tasks a thread holds nothing; the address and the port of a *)
(* claim are known; main is at its own statements.                         *)
Fits(t) ==
  /\ At(t, "idle") => my[t] = Blank
  /\ At(t, "replace") => my[t].back \in IF t = Main THEN {"map", "sync", "serve"}
                                        ELSE {"idle", "post", "check", "spawn"}
  /\ pc[t] \in {"mark", "post"} \/ (At(t, "replace") /\ my[t].back = "post") =>
       my[t].seen \in Wan /\ my[t].ext \in Port
MainFits ==
  /\ pc[Main] \in {"boot", "map", "take", "sync", "serve", "replace"}
  /\ pc[Main] \in {"boot", "map"} \/ (At(Main, "replace") /\ my[Main].back = "map") =>
       my[Main].seen = None

ThreadsFit == MainFits /\ \A t \in Thread : Fits(t)

(* The history tells the truth. *)
MeetingsNoticed ==
  overlapped \/ \A t, u \in Thread : Busy(t) /\ Busy(u) => t = u

(* What the file should say, and a copy of it that will be saved.          *)
TrueOfPort(s) == s.upnp = "mapped" => s.port \in mapped
TrueOfUser(s) == context # None => s.sub = context
IsTrue(s)     == TrueOfPort(s) /\ TrueOfUser(s)

Moving  == {"try", "reach", "rollback", "settle", "replace"}
Binding == {"bind", "replace"}

(* While nothing failed and no two threads have met, only the thread that  *)
(* is about to write what is missing knows more than the file.             *)
FileIsTrue ==
  Quiet =>
    /\ (\A t \in Thread : pc[t] \notin Moving)  => TrueOfPort(file)
    /\ (\A t \in Thread : pc[t] \notin Binding) => TrueOfUser(file)

(* What a thread then knows.                                               *)
CopyIsTrue(t) ==
  pc[t] \in {"replace", "probe"} \/ (At(t, "map") /\ t # Main) => IsTrue(my[t].st)
Starts(t) ==
  /\ At(t, "boot") => context = None
  /\ At(t, "take") => my[t].seen = None \/ ListenPort \in mapped
  /\ At(t, "bind") => context = my[t].as
Left(r) == my[r].had \ {my[r].prev}
Remaps(r) ==
  /\ At(r, "delete") => my[r].ext = None /\ mapped = my[r].had
  /\ At(r, "try")    => my[r].ext = None /\ mapped \subseteq Left(r)
  /\ pc[r] \in {"reach", "rollback"} =>
       /\ my[r].ext \in Candidates(r) \cap mapped
       /\ mapped \subseteq Left(r) \cup {my[r].ext}
  /\ pc[r] \in {"try", "reach", "rollback", "settle"} =>
       Left(r) \ Candidates(r) \subseteq mapped
  /\ At(r, "settle") =>
       /\ {my[r].ext} \ {None} \subseteq mapped
       /\ mapped \subseteq Left(r) \cup {my[r].ext}

Knows(t) == CopyIsTrue(t) /\ Starts(t) /\ Remaps(t)
KnowsAll == Quiet => \A t \in Thread : Knows(t)

IInv == TypeOK /\ ThreadsFit /\ MeetingsNoticed /\ FileIsTrue /\ KnowsAll

-----------------------------------------------------------------------------
(* What a thread does: a statement, a failure or the start of a request.   *)
Moves(t) ==
  Proceeds(t) \/ ReplaceFails(t) \/ PostFails(t) \/ (t \in Req /\ Asked(t))

LEMMA Threads ==
  /\ Main \in Thread /\ Prober \in Thread /\ Loop \in Thread
  /\ Req \subseteq Thread /\ Main \notin Req
BY NodeAssumption DEF Thread

LEMMA Blanks == RuntimeState \in State /\ Blank \in Locals /\ Start \in [Thread -> Statement]
<1>1. RuntimeState \in State
  BY DEF RuntimeState, State
<1>2. Blank \in Locals
  BY <1>1 DEF Blank, Locals, Statement
<1>3. Start \in [Thread -> Statement]
  BY DEF Start, Statement
<1> QED
  BY <1>1, <1>2, <1>3

(* What a writer sets in its copy; the other fields stay.                  *)
LEMMA StageSet ==
  ASSUME NEW s \in State
  PROVE  /\ Staged(s) \in State
         /\ Staged(s).port = s.port /\ Staged(s).upnp = s.upnp /\ Staged(s).sub = s.sub
<1>1. Stage(context, s) \in {"idle", "claiming", "need_auth", "need_wan", "ok", "error",
                            "need_public_port", "dns_pending"}
  BY DEF Stage
<1> QED
  BY <1>1 DEF Staged, State

LEMMA ClaimingSet ==
  ASSUME NEW s \in State
  PROVE  LET u == [s EXCEPT !.stage = "claiming"] IN
         u \in State /\ u.port = s.port /\ u.upnp = s.upnp /\ u.sub = s.sub
BY DEF State

LEMMA RejectionSet ==
  ASSUME NEW s \in State
  PROVE  Unmapped(s) \in State /\ Unmapped(s).upnp = "failed" /\ Unmapped(s).sub = s.sub
BY DEF Unmapped, State

LEMMA MappingSet ==
  ASSUME NEW s \in State, NEW w \in Wan \cup {None}
  PROVE  /\ Mapped(s, w) \in State
         /\ Mapped(s, w).port = ListenPort /\ Mapped(s, w).sub = s.sub
BY NodeAssumption DEF Mapped, State

LEMMA StatusSet ==
  ASSUME NEW s \in State, NEW d \in {"ok", "error", "no_wan", "no_public_port"}
  PROVE  LET u == Staged([s EXCEPT !.dns = d]) IN
         u \in State /\ u.port = s.port /\ u.upnp = s.upnp /\ u.sub = s.sub
<1> DEFINE u == [s EXCEPT !.dns = d]
<1>1. u \in State /\ u.port = s.port /\ u.upnp = s.upnp /\ u.sub = s.sub
  BY DEF State
<1> HIDE DEF u
<1>2. /\ Staged(u) \in State
      /\ Staged(u).port = u.port
      /\ Staged(u).upnp = u.upnp
      /\ Staged(u).sub = u.sub
  BY <1>1, StageSet
<1> QED
  BY <1>1, <1>2 DEF u

LEMMA UserSet ==
  ASSUME NEW s \in State, NEW x \in User \cup {None}
  PROVE  LET u == Staged([s EXCEPT !.sub = x]) IN
         u \in State /\ u.port = s.port /\ u.upnp = s.upnp /\ u.sub = x
<1> DEFINE u == [s EXCEPT !.sub = x]
<1>1. u \in State /\ u.port = s.port /\ u.upnp = s.upnp /\ u.sub = x
  BY DEF State
<1> HIDE DEF u
<1>2. /\ Staged(u) \in State
      /\ Staged(u).port = u.port
      /\ Staged(u).upnp = u.upnp
      /\ Staged(u).sub = u.sub
  BY <1>1, StageSet
<1> QED
  BY <1>1, <1>2 DEF u

(* A save of copy s, to be followed by statement b.                        *)
LEMMA SaveBegins ==
  ASSUME TypeOK, NEW t \in Thread, NEW s, NEW b, Saves(t, s, b)
  PROVE  /\ pc' = [pc EXCEPT ![t] = "replace"] /\ pc'[t] = "replace"
         /\ \A u \in Thread : u # t => my'[u] = my[u] /\ pc'[u] = pc[u]
         /\ my'[t].st = s /\ my'[t].back = b
         /\ my'[t].seen = my[t].seen /\ my'[t].ext = my[t].ext
         /\ pc' \in [Thread -> Statement]
         /\ s \in State /\ b \in Statement => my' \in [Thread -> Locals]
<1>1. /\ pc \in [Thread -> Statement] /\ my \in [Thread -> Locals]
      /\ file.wan \in Wan \cup {None} /\ "replace" \in Statement
  BY DEF TypeOK, State, Statement
<1>2. pc' = [pc EXCEPT ![t] = "replace"]
  BY DEF Saves, Goes
<1>3. my' = [my EXCEPT ![t] = [my[t] EXCEPT !.st = s, !.old = file.wan, !.back = b]]
  BY DEF Saves
<1> DEFINE l == [my[t] EXCEPT !.st = s, !.old = file.wan, !.back = b]
<1>4. /\ l.st = s /\ l.back = b /\ l.seen = my[t].seen /\ l.ext = my[t].ext
      /\ s \in State /\ b \in Statement => l \in Locals
  BY <1>1 DEF Locals
<1>5. my'[t] = l
  BY <1>1, <1>3
<1> HIDE DEF l
<1>6. s \in State /\ b \in Statement => my' \in [Thread -> Locals]
  BY <1>1, <1>3, <1>4, <1>5
<1> QED
  BY <1>1, <1>2, <1>3, <1>4, <1>5, <1>6

-----------------------------------------------------------------------------
LEMMA InitInv == Init => IInv
<1> SUFFICES ASSUME Init PROVE IInv
  OBVIOUS
<1>1. TypeOK
  <2>1. 0 \in 0..DueLimit /\ 0 \in Nat /\ FirstWan \in Wan
    BY NodeAssumption
  <2> QED
    BY <2>1, Blanks DEF Init, TypeOK
<1>2. /\ \A t \in Thread : my[t] = Blank
      /\ \A t \in Thread : pc[t] = IF t = Main THEN "boot" ELSE IF t = Prober THEN "due" ELSE "idle"
  BY NodeAssumption DEF Init, Start
<1>3. ThreadsFit
  BY <1>2, Threads DEF ThreadsFit, MainFits, Fits, At, Blank
<1>4. MeetingsNoticed
  BY <1>2, Threads DEF MeetingsNoticed, Busy
<1>5. FileIsTrue
  BY DEF Init, FileIsTrue, TrueOfPort, TrueOfUser, RuntimeState
<1>6. KnowsAll
  <2> SUFFICES ASSUME NEW t \in Thread PROVE Knows(t)
    BY DEF KnowsAll
  <2>1. pc[t] \in {"boot", "due", "idle"} /\ context = None
    BY <1>2 DEF Init
  <2> QED
    BY <2>1 DEF Knows, CopyIsTrue, Starts, Remaps, At
<1> QED
  BY <1>1, <1>3, <1>4, <1>5, <1>6 DEF IInv

(* A step of thread t leaves the others where they are; a thread that      *)
(* begins a task changes neither the file nor what the file tells of.      *)
LEMMA LocalStep ==
  ASSUME TypeOK, NEW t \in Thread, Moves(t)
  PROVE  /\ \A u \in Thread : u # t => pc'[u] = pc[u] /\ my'[u] = my[u]
         /\ Busy(t) \/ UNCHANGED <<file, context, mapped>>
<1> DEFINE Goal == /\ \A u \in Thread : u # t => pc'[u] = pc[u] /\ my'[u] = my[u]
                   /\ Busy(t) \/ UNCHANGED <<file, context, mapped>>
<1>0. pc \in [Thread -> Statement] /\ my \in [Thread -> Locals]
  BY DEF TypeOK
<1>1. ASSUME Replace(t) PROVE Goal
  BY <1>0, SaveBegins, <1>1 DEF Replace, At, Goes, OneMoreDue, router, Busy, claim
<1>2. ASSUME Mark(t) PROVE Goal
  BY <1>0, SaveBegins, <1>2 DEF Mark, At, router, Busy, claim
<1>3. ASSUME Post(t) PROVE Goal
  BY <1>0, SaveBegins, <1>3 DEF Post, Recorded, At, Goes, router, Busy, claim
<1>4. ASSUME Apply(t) PROVE Goal
  BY <1>0, SaveBegins, <1>4 DEF Apply, At, router, Busy, claim
<1>5. ASSUME DueClaims(t) PROVE Goal
  BY <1>0, SaveBegins, <1>5 DEF DueClaims, Considers, At, Goes, router, Busy, claim
<1>6. ASSUME t = Loop, LoopClaims PROVE Goal
  BY <1>0, SaveBegins, <1>6 DEF LoopClaims, Considers, At, Goes, router, Busy, claim
<1>7. ASSUME t = Main, Boot PROVE Goal
  BY <1>0, SaveBegins, <1>7 DEF Boot, At, router, Busy, claim
<1>8. ASSUME t = Main, BootMaps PROVE Goal
  BY <1>0, SaveBegins, <1>8 DEF BootMaps, Rejects, Accepts, router, At, Goes,
     router, Busy, claim
<1>9. ASSUME t = Main, BootTakes PROVE Goal
  BY <1>0, SaveBegins, <1>9 DEF BootTakes, At, router, Busy, claim
<1>10. ASSUME t = Main, BootSyncs PROVE Goal
  BY <1>0, SaveBegins, <1>10 DEF BootSyncs, At, router, Busy, claim
<1>11. ASSUME t = Prober, ProbeLater PROVE Goal
  BY <1>0, SaveBegins, <1>11 DEF ProbeLater, ToProbe, Ends, At, Goes, router, Busy,
     claim
<1>12. ASSUME Probed(t) PROVE Goal
  BY <1>0, SaveBegins, <1>12 DEF Probed, At, router, Busy, claim
<1>13. ASSUME UpnpMaps(t) PROVE Goal
  BY <1>0, SaveBegins, <1>13 DEF UpnpMaps, Rejects, Accepts, router, At, router,
     Busy, claim
<1>14. ASSUME Check(t) PROVE Goal
  BY <1>0, SaveBegins, <1>14 DEF Check, At, router, Busy, claim
<1>15. ASSUME DeletePrevious(t) PROVE Goal
  BY <1>0, SaveBegins, <1>15 DEF DeletePrevious, Deletes, At, Goes, router, Busy, claim
<1>16. ASSUME NEW p \in Port, Try(t, p) PROVE Goal
  BY <1>0, SaveBegins, <1>16 DEF Try, Rejects, Accepts, router, At, Goes, router,
     Busy, claim
<1>17. ASSUME Reach(t) PROVE Goal
  BY <1>0, SaveBegins, <1>17 DEF Reach, At, Goes, router, Busy, claim
<1>18. ASSUME RollBack(t) PROVE Goal
  BY <1>0, SaveBegins, <1>18 DEF RollBack, Deletes, At, Goes, router, Busy, claim
<1>19. ASSUME Exhausted(t) PROVE Goal
  BY <1>0, SaveBegins, <1>19 DEF Exhausted, At, Goes, router, Busy, claim
<1>20. ASSUME Settle(t) PROVE Goal
  BY <1>0, SaveBegins, <1>20 DEF Settle, At, router, Busy, claim
<1>21. ASSUME SaveContext(t) PROVE Goal
  BY <1>0, SaveBegins, <1>21 DEF SaveContext, At, Goes, router, Busy, claim
<1>22. ASSUME Bind(t) PROVE Goal
  BY <1>0, SaveBegins, <1>22 DEF Bind, At, router, Busy, claim
<1>23. ASSUME Spawn(t) PROVE Goal
  BY <1>0, SaveBegins, <1>23 DEF Spawn, Ends, OneMoreDue, At, Goes, router, Busy, claim
<1>24. ASSUME ReplaceFails(t) PROVE Goal
  BY <1>0, SaveBegins, <1>24 DEF ReplaceFails, Ends, At, Goes, router, Busy, claim
<1>25. ASSUME PostFails(t) PROVE Goal
  BY <1>0, SaveBegins, <1>25 DEF PostFails, Recorded, At, Goes, router, Busy, claim
<1>26. ASSUME t \in Req, Probe(t) PROVE Goal
  BY <1>0, SaveBegins, <1>26 DEF Probe, ToProbe, Enter, Enters, At, Goes, router,
     Busy, claim
<1>27. ASSUME t \in Req, Upnp(t) PROVE Goal
  BY <1>0, SaveBegins, <1>27 DEF Upnp, Enter, Enters, At, Goes, router, Busy, claim
<1>28. ASSUME t \in Req, Remap(t) PROVE Goal
  BY <1>0, SaveBegins, <1>28 DEF Remap, Enter, Enters, At, Goes, router, Busy, claim
<1>29. ASSUME t \in Req, NEW p \in Port \cup {None}, NEW w \in Wan \cup {None}, Manual(t, p, w)
      PROVE  Goal
  BY <1>0, SaveBegins, <1>29 DEF Manual, Enter, Enters, At, router, Busy, claim
<1>30. ASSUME t \in Req, NEW u \in User, SignIn(t, u) PROVE Goal
  BY <1>0, SaveBegins, <1>30 DEF SignIn, Enters, At, Goes, router, Busy, claim
<1>31. ASSUME Refused(t) PROVE Goal
  BY <1>0, SaveBegins, <1>31 DEF Refused, Recorded, At, Goes, router, Busy, claim
<1> QED
  BY <1>1, <1>2, <1>3, <1>4, <1>5, <1>6, <1>7, <1>8, <1>9, <1>10, <1>11, <1>12,
     <1>13, <1>14, <1>15, <1>16, <1>17, <1>18, <1>19, <1>20, <1>21, <1>22, <1>23,
     <1>24, <1>25, <1>26, <1>27, <1>28, <1>29, <1>30, <1>31 DEF Moves, Proceeds, Asked

(* What /api/upnp/manual writes is a runtime state. *)
LEMMA ByHand ==
  ASSUME NEW s \in State, NEW p \in Port \cup {None}, NEW w \in Wan \cup {None}
  PROVE  [s EXCEPT !.port = p, !.upnp = "manual", !.wan = w] \in State
  BY DEF State

(* Every step of a thread keeps the types.                                 *)
LEMMA MoveTypes ==
  ASSUME TypeOK, ThreadsFit, NEW t \in Thread, Moves(t)
  PROVE  /\ file' \in State /\ context' \in User \cup {None} /\ due' \in 0..DueLimit
         /\ welcome' \in {"yes", "no", "never"}
         /\ pc' \in [Thread -> Statement] /\ my' \in [Thread -> Locals]
         /\ wan' \in Wan /\ mapped' \in SUBSET Port
         /\ record' \in [User -> (Wan \X Port) \cup {None}]
         /\ requests' \in Nat /\ faults' \in Nat /\ changes' \in Nat
<1> DEFINE Goal == /\ file' \in State /\ context' \in User \cup {None} /\ due' \in 0..DueLimit
                   /\ welcome' \in {"yes", "no", "never"}
                   /\ pc' \in [Thread -> Statement] /\ my' \in [Thread -> Locals]
                   /\ wan' \in Wan /\ mapped' \in SUBSET Port
                   /\ record' \in [User -> (Wan \X Port) \cup {None}]
                   /\ requests' \in Nat /\ faults' \in Nat /\ changes' \in Nat
<1>0. /\ file \in State /\ context \in User \cup {None} /\ due \in 0..DueLimit
      /\ welcome \in {"yes", "no", "never"}
      /\ pc \in [Thread -> Statement] /\ my \in [Thread -> Locals]
      /\ my[t] \in Locals /\ my[t].st \in State
      /\ my[t].seen \in Wan \cup {None} /\ my[t].ext \in Port \cup {None}
      /\ my[t].tries + 1 \in Nat
      /\ wan \in Wan /\ mapped \in SUBSET Port
      /\ record \in [User -> (Wan \X Port) \cup {None}]
      /\ requests \in Nat /\ faults \in Nat /\ changes \in Nat
  BY DEF TypeOK, Locals
<1>s. \A s \in Statement : [pc EXCEPT ![t] = s] \in [Thread -> Statement]
  BY <1>0
<1>l. \A l \in Locals : [my EXCEPT ![t] = l] \in [Thread -> Locals]
  BY <1>0
<1>d. OneMoreDue \in 0..DueLimit /\ (due > 0 => due - 1 \in 0..DueLimit)
  BY <1>0, NodeAssumption DEF OneMoreDue
<1>1. ASSUME Replace(t) PROVE Goal
  <2>1. my[t].back \in Statement
    BY <1>0 DEF Locals
  <2>2. [my[t] EXCEPT !.st = RuntimeState, !.old = None, !.back = "idle"] \in Locals
    BY <1>0, Blanks DEF Locals, Statement
  <2>3. my' \in [Thread -> Locals]
    BY <1>l, <2>2, Blanks, <1>1 DEF Replace, claim
  <2>4. pc' \in [Thread -> Statement]
    BY <1>s, <2>1, <1>1 DEF Replace, Goes, claim
  <2>5. due' \in 0..DueLimit
    BY <1>0, <1>d, <1>1 DEF Replace, claim
  <2> QED
    BY <1>0, <2>3, <2>4, <2>5, <1>1 DEF Replace, router, limits, claim
<1>2. ASSUME Mark(t) PROVE Goal
  <2>1. [file EXCEPT !.stage = "claiming"] \in State
    BY <1>0, ClaimingSet
  <2>2. my' \in [Thread -> Locals] /\ pc' \in [Thread -> Statement]
    BY <2>1, <1>2, SaveBegins DEF Mark, Statement, claim
  <2> QED
    BY <1>0, <2>2, <1>2 DEF Mark, router, limits, claim
<1>3. ASSUME Post(t) PROVE Goal
  <2>1. my[t].seen \in Wan /\ my[t].ext \in Port
    BY <1>3 DEF Post, ThreadsFit, Fits, At, claim
  <2>2. Recorded(t) \in [User -> (Wan \X Port) \cup {None}]
    BY <1>0, <2>1 DEF Recorded
  <2>3. pc' \in [Thread -> Statement]
    BY <1>0, <1>s, <1>3 DEF Post, Goes, Statement, claim
  <2> QED
    BY <1>0, <2>2, <2>3, <1>3 DEF Post, router, limits, claim
<1>4. ASSUME Apply(t) PROVE Goal
  <2>1. Staged([file EXCEPT !.dns = IF At(t, "claimed") THEN "ok" ELSE "error"]) \in State
    BY <1>0, StatusSet
  <2>2. my' \in [Thread -> Locals] /\ pc' \in [Thread -> Statement]
    BY <2>1, <1>4, SaveBegins DEF Apply, Statement, claim
  <2> QED
    BY <1>0, <2>2, <1>4 DEF Apply, router, limits, claim
<1>5. ASSUME DueClaims(t) PROVE Goal
  <2>1. \A d \in {"no_wan", "no_public_port"} : Staged([file EXCEPT !.dns = d]) \in State
    BY <1>0, StatusSet
  <2>f. file.wan \in Wan \cup {None} /\ file.port \in Port \cup {None}
    BY <1>0 DEF State
  <2>g. \A k \in {"good", "bad"} :
          [my[t] EXCEPT !.seen = file.wan, !.ext = file.port, !.as = context,
                        !.token = k] \in Locals
    BY <1>0, <2>f DEF Locals
  <2>2. [my[t] EXCEPT !.seen = file.wan, !.ext = file.port, !.as = context,
                 !.token = IF welcome = "never" THEN "bad" ELSE "good"] \in Locals
    BY <2>g
  <2>3. CASE file.wan # None /\ file.port # None
    <3>1. Goes(t, "mark")
          /\ my' = [my EXCEPT ![t] = [@ EXCEPT !.seen = file.wan, !.ext = file.port, !.as = context,
                 !.token = IF welcome = "never" THEN "bad" ELSE "good"]]
      BY <2>3, <1>5 DEF DueClaims, Considers, claim
    <3>2. my' \in [Thread -> Locals] /\ pc' \in [Thread -> Statement]
      BY <1>s, <1>l, <2>2, <3>1 DEF Goes, Statement
    <3> QED
      BY <1>0, <1>d, <3>2, <1>5 DEF DueClaims, router, limits, claim
  <2>4. CASE ~(file.wan # None /\ file.port # None)
    <3>1. Saves(t, Staged([file EXCEPT !.dns =
                IF file.wan = None THEN "no_wan" ELSE "no_public_port"]), "idle")
      BY <2>4, <1>5 DEF DueClaims, Considers, claim
    <3>2. my' \in [Thread -> Locals] /\ pc' \in [Thread -> Statement]
      BY <2>1, <3>1, SaveBegins DEF Statement
    <3> QED
      BY <1>0, <1>d, <3>2, <1>5 DEF DueClaims, router, limits, claim
  <2> QED
    BY <2>3, <2>4
<1>6. ASSUME t = Loop, LoopClaims PROVE Goal
  <2>1. \A d \in {"no_wan", "no_public_port"} : Staged([file EXCEPT !.dns = d]) \in State
    BY <1>0, StatusSet
  <2>f. file.wan \in Wan \cup {None} /\ file.port \in Port \cup {None}
    BY <1>0 DEF State
  <2>g. \A k \in {"good", "bad"} :
          [my[t] EXCEPT !.seen = file.wan, !.ext = file.port, !.as = context,
                        !.token = k] \in Locals
    BY <1>0, <2>f DEF Locals
  <2>2. [my[t] EXCEPT !.seen = file.wan, !.ext = file.port, !.as = context,
                 !.token = IF welcome = "never" THEN "bad" ELSE "good"] \in Locals
    BY <2>g
  <2>3. CASE file.wan # None /\ file.port # None
    <3>1. Goes(t, "mark")
          /\ my' = [my EXCEPT ![t] = [@ EXCEPT !.seen = file.wan, !.ext = file.port, !.as = context,
                 !.token = IF welcome = "never" THEN "bad" ELSE "good"]]
      BY <2>3, <1>6 DEF LoopClaims, Considers, claim
    <3>2. my' \in [Thread -> Locals] /\ pc' \in [Thread -> Statement]
      BY <1>s, <1>l, <2>2, <3>1 DEF Goes, Statement
    <3> QED
      BY <1>0, <1>d, <3>2, <1>6 DEF LoopClaims, router, limits, claim
  <2>4. CASE ~(file.wan # None /\ file.port # None)
    <3>1. Saves(t, Staged([file EXCEPT !.dns =
                IF file.wan = None THEN "no_wan" ELSE "no_public_port"]), "idle")
      BY <2>4, <1>6 DEF LoopClaims, Considers, claim
    <3>2. my' \in [Thread -> Locals] /\ pc' \in [Thread -> Statement]
      BY <2>1, <3>1, SaveBegins DEF Statement
    <3> QED
      BY <1>0, <1>d, <3>2, <1>6 DEF LoopClaims, router, limits, claim
  <2> QED
    BY <2>3, <2>4
<1>7. ASSUME t = Main, Boot PROVE Goal
  <2>1. RuntimeState \in State
    BY <1>0, Blanks
  <2>2. my' \in [Thread -> Locals] /\ pc' \in [Thread -> Statement]
    BY <2>1, <1>7, SaveBegins DEF Boot, Statement, claim
  <2> QED
    BY <1>0, <2>2, <1>7 DEF Boot, router, limits, claim
<1>8. ASSUME t = Main, BootMaps PROVE Goal
  <2>1. [my[t] EXCEPT !.seen = wan] \in Locals
    BY <1>0, Blanks, NodeAssumption DEF Locals
  <2>2. my' \in [Thread -> Locals]
    BY <1>0, <1>l, <2>1, Blanks, <1>8 DEF BootMaps, Rejects, Accepts, router, Goes,
     claim
  <2>3. pc' \in [Thread -> Statement]
    BY <1>0, <1>s, <1>8 DEF BootMaps, Rejects, Accepts, router, Goes, Statement, claim
  <2> QED
    BY <1>0, <1>d, NodeAssumption, <2>2, <2>3, <1>8
       DEF BootMaps, Rejects, Accepts, router, Goes, limits, claim
<1>9. ASSUME t = Main, BootTakes PROVE Goal
  <2>1. (IF my[Main].seen = None THEN Unmapped(file) ELSE Mapped(file, my[Main].seen)) \in State
    BY <1>0, RejectionSet, MappingSet, <1>9 DEF Locals
  <2>2. my' \in [Thread -> Locals] /\ pc' \in [Thread -> Statement]
    BY <2>1, <1>9, SaveBegins DEF BootTakes, Statement, claim
  <2> QED
    BY <1>0, <2>2, <1>9 DEF BootTakes, router, limits, claim
<1>10. ASSUME t = Main, BootSyncs PROVE Goal
  <2>1. Staged(file) \in State
    BY <1>0, StageSet
  <2>2. my' \in [Thread -> Locals] /\ pc' \in [Thread -> Statement]
    BY <2>1, <1>10, SaveBegins DEF BootSyncs, Statement, claim
  <2> QED
    BY <1>0, <2>2, <1>10 DEF BootSyncs, router, limits, claim
<1>11. ASSUME t = Prober, ProbeLater PROVE Goal
  <2>1. [my[t] EXCEPT !.st = file] \in Locals
    BY <1>0, Blanks, NodeAssumption DEF Locals
  <2>2. my' \in [Thread -> Locals]
    BY <1>0, <1>l, <2>1, Blanks, <1>11 DEF ProbeLater, ToProbe, Ends, Goes, claim
  <2>3. pc' \in [Thread -> Statement]
    BY <1>0, <1>s, <1>11 DEF ProbeLater, ToProbe, Ends, Goes, Statement, claim
  <2> QED
    BY <1>0, <1>d, NodeAssumption, <2>2, <2>3, <1>11
       DEF ProbeLater, ToProbe, Ends, Goes, router, limits, claim
<1>12. ASSUME Probed(t) PROVE Goal
  <2>1. my[t].st \in State
    BY <1>0
  <2>2. my' \in [Thread -> Locals] /\ pc' \in [Thread -> Statement]
    BY <2>1, <1>12, SaveBegins DEF Probed, Statement, claim
  <2> QED
    BY <1>0, <2>2, <1>12 DEF Probed, router, limits, claim
<1>13. ASSUME UpnpMaps(t) PROVE Goal
  <2>1. Unmapped(my[t].st) \in State /\ Mapped(my[t].st, wan) \in State
    BY <1>0, RejectionSet, MappingSet
  <2>2. my' \in [Thread -> Locals] /\ pc' \in [Thread -> Statement]
    BY <2>1, <1>13, SaveBegins DEF UpnpMaps, Statement, claim
  <2>3. wan' \in Wan /\ mapped' \in SUBSET Port
    BY <1>0, NodeAssumption, <1>13 DEF UpnpMaps, Rejects, Accepts, router, claim
  <2> QED
    BY <1>0, <2>2, <2>3, <1>13 DEF UpnpMaps, limits, claim
<1>14. ASSUME Check(t) PROVE Goal
  <2>1. file \in State
    BY <1>0
  <2>2. my' \in [Thread -> Locals] /\ pc' \in [Thread -> Statement]
    BY <2>1, <1>14, SaveBegins DEF Check, Statement, claim
  <2> QED
    BY <1>0, <2>2, <1>14 DEF Check, router, limits, claim
<1>15. ASSUME DeletePrevious(t) PROVE Goal
  BY <1>0, <1>s, <1>15 DEF DeletePrevious, Deletes, At, Goes, Statement, router,
     limits, claim
<1>16. ASSUME NEW p \in Port, Try(t, p) PROVE Goal
  <2>1. /\ [my[t] EXCEPT !.tries = my[t].tries + 1] \in Locals
        /\ [my[t] EXCEPT !.ext = p, !.seen = wan] \in Locals
    BY <1>0 DEF Locals
  <2>2. my' \in [Thread -> Locals]
    BY <1>l, <2>1, <1>16 DEF Try, claim
  <2>3. pc' \in [Thread -> Statement]
    BY <1>0, <1>s, <1>16 DEF Try, Goes, Statement, claim
  <2> QED
    BY <1>0, <2>2, <2>3, <1>16 DEF Try, Rejects, Accepts, router, limits, claim
<1>17. ASSUME Reach(t) PROVE Goal
  BY <1>0, <1>s, <1>17 DEF Reach, At, Goes, Statement, router, limits, claim
<1>18. ASSUME RollBack(t) PROVE Goal
  <2>1. [my[t] EXCEPT !.ext = None, !.seen = None, !.tries = my[t].tries + 1] \in Locals
    BY <1>0 DEF Locals
  <2>2. my' = [my EXCEPT ![t] =
                [my[t] EXCEPT !.ext = None, !.seen = None, !.tries = my[t].tries + 1]]
    BY <1>0, <1>18 DEF RollBack, Locals, claim
  <2>3. my' \in [Thread -> Locals]
    BY <1>l, <2>1, <2>2
  <2>4. pc' \in [Thread -> Statement]
    BY <1>s, <1>18 DEF RollBack, Goes, Statement, claim
  <2> QED
    BY <1>0, <2>3, <2>4, <1>18 DEF RollBack, Deletes, router, claim
<1>19. ASSUME Exhausted(t) PROVE Goal
  BY <1>0, <1>s, <1>19 DEF Exhausted, At, Goes, Statement, router, limits, claim
<1>20. ASSUME Settle(t) PROVE Goal
  <2>1. Settled(t, file) \in State
    <3>1. CASE my[t].ext = None
      BY <1>0, <3>1 DEF State, Settled
    <3>2. CASE my[t].ext # None
      BY <1>0, <3>2 DEF State, Settled
    <3> QED
      BY <3>1, <3>2
  <2>2. my' \in [Thread -> Locals] /\ pc' \in [Thread -> Statement]
    BY <2>1, <1>20, SaveBegins DEF Settle, Statement, claim
  <2> QED
    BY <1>0, <2>2, <1>20 DEF Settle, router, limits, claim
<1>21. ASSUME SaveContext(t) PROVE Goal
  <2>1. my[t].as \in User \cup {None}
    BY <1>0 DEF Locals
  <2>2. pc' \in [Thread -> Statement]
    BY <1>0, <1>s, <1>21 DEF SaveContext, Goes, Statement, claim
  <2> QED
    BY <1>0, <2>1, <2>2, <1>21 DEF SaveContext, Turn, router, limits, claim
<1>22. ASSUME Bind(t) PROVE Goal
  <2>1. Staged([file EXCEPT !.sub = my[t].as]) \in State
    BY <1>0, UserSet DEF Locals
  <2>2. my' \in [Thread -> Locals] /\ pc' \in [Thread -> Statement]
    BY <2>1, <1>22, SaveBegins DEF Bind, Statement, claim
  <2> QED
    BY <1>0, <2>2, <1>22 DEF Bind, router, limits, claim
<1>23. ASSUME Spawn(t) PROVE Goal
  <2>1. Blank \in Locals
    BY <1>0, Blanks, NodeAssumption DEF Locals
  <2>2. my' \in [Thread -> Locals]
    BY <1>0, <1>l, <2>1, Blanks, <1>23 DEF Spawn, Ends, OneMoreDue, Goes, claim
  <2>3. pc' \in [Thread -> Statement]
    BY <1>0, <1>s, <1>23 DEF Spawn, Ends, OneMoreDue, Goes, Statement, claim
  <2> QED
    BY <1>0, <1>d, NodeAssumption, <2>2, <2>3, <1>23
       DEF Spawn, Ends, OneMoreDue, Goes, router, limits, claim
<1>24. ASSUME ReplaceFails(t) PROVE Goal
  <2>1. Blank \in Locals
    BY <1>0, Blanks, NodeAssumption DEF Locals
  <2>2. my' \in [Thread -> Locals]
    BY <1>0, <1>l, <2>1, Blanks, <1>24 DEF ReplaceFails, Ends, Goes, claim
  <2>3. pc' \in [Thread -> Statement]
    BY <1>0, <1>s, <1>24 DEF ReplaceFails, Ends, Goes, Statement, claim
  <2> QED
    BY <1>0, <1>d, NodeAssumption, <2>2, <2>3, <1>24
       DEF ReplaceFails, Ends, Goes, router, limits, claim
<1>25. ASSUME PostFails(t) PROVE Goal
  <2>1. my[t].seen \in Wan /\ my[t].ext \in Port
    BY <1>25 DEF PostFails, ThreadsFit, Fits, At, claim
  <2>2. Recorded(t) \in [User -> (Wan \X Port) \cup {None}]
    BY <1>0, <2>1 DEF Recorded
  <2>3. pc' \in [Thread -> Statement]
    BY <1>0, <1>s, <1>25 DEF PostFails, Goes, Statement, claim
  <2> QED
    BY <1>0, <2>2, <2>3, <1>25 DEF PostFails, router, claim
<1>26. ASSUME t \in Req, Probe(t) PROVE Goal
  <2>1. [my[t] EXCEPT !.st = file] \in Locals
    BY <1>0, Blanks, NodeAssumption DEF Locals
  <2>2. my' \in [Thread -> Locals]
    BY <1>0, <1>l, <2>1, Blanks, <1>26 DEF Probe, ToProbe, Enter, Enters, Goes, claim
  <2>3. pc' \in [Thread -> Statement]
    BY <1>0, <1>s, <1>26 DEF Probe, ToProbe, Enter, Enters, Goes, Statement, claim
  <2> QED
    BY <1>0, <1>d, NodeAssumption, <2>2, <2>3, <1>26
       DEF Probe, ToProbe, Enter, Enters, Goes, router, limits, claim
<1>27. ASSUME t \in Req, Upnp(t) PROVE Goal
  <2>1. [my[t] EXCEPT !.st = file] \in Locals
    BY <1>0, Blanks, NodeAssumption DEF Locals
  <2>2. my' \in [Thread -> Locals]
    BY <1>0, <1>l, <2>1, Blanks, <1>27 DEF Upnp, Enter, Enters, Goes, claim
  <2>3. pc' \in [Thread -> Statement]
    BY <1>0, <1>s, <1>27 DEF Upnp, Enter, Enters, Goes, Statement, claim
  <2> QED
    BY <1>0, <1>d, NodeAssumption, <2>2, <2>3, <1>27
       DEF Upnp, Enter, Enters, Goes, router, limits, claim
<1>28. ASSUME t \in Req, Remap(t) PROVE Goal
  <2>0. file.port \in Port \cup {None}
    BY <1>0 DEF State
  <2>1. [my[t] EXCEPT !.prev = file.port, !.had = mapped] \in Locals
    BY <1>0, <2>0 DEF Locals
  <2>2. my' \in [Thread -> Locals]
    BY <1>0, <1>l, <2>1, Blanks, <1>28 DEF Remap, Enter, Enters, Goes, claim
  <2>3. pc' \in [Thread -> Statement]
    BY <1>0, <1>s, <1>28 DEF Remap, Enter, Enters, Goes, Statement, claim
  <2> QED
    BY <1>0, <1>d, NodeAssumption, <2>2, <2>3, <1>28
       DEF Remap, Enter, Enters, Goes, router, limits, claim
<1>29. ASSUME t \in Req, NEW p \in Port \cup {None}, NEW w \in Wan \cup {None}, Manual(t, p, w)
      PROVE  Goal
  <2> DEFINE v == IF w = None THEN file.wan ELSE w
  <2>0. v \in Wan \cup {None}
    BY <1>0 DEF State
  <2> HIDE DEF v
  <2>a. [file EXCEPT !.port = p, !.upnp = "manual", !.wan = v] \in State
    BY <1>0, <2>0, ByHand
  <2>1. [file EXCEPT !.port = p, !.upnp = "manual", !.wan = IF w = None THEN @ ELSE w] \in State
    BY <2>a DEF v
  <2>2. my' \in [Thread -> Locals] /\ pc' \in [Thread -> Statement]
    BY <2>1, <1>29, SaveBegins DEF Manual, Statement, claim
  <2> QED
    BY <1>0, <2>2, <1>29 DEF Manual, Enter, Enters, router, claim
<1>30. ASSUME t \in Req, NEW u \in User, SignIn(t, u) PROVE Goal
  <2>1. [my[t] EXCEPT !.as = u] \in Locals
    BY <1>0, Blanks, NodeAssumption DEF Locals
  <2>2. my' \in [Thread -> Locals]
    BY <1>0, <1>l, <2>1, Blanks, <1>30 DEF SignIn, Enters, Goes, claim
  <2>3. pc' \in [Thread -> Statement]
    BY <1>0, <1>s, <1>30 DEF SignIn, Enters, Goes, Statement, claim
  <2> QED
    BY <1>0, <1>d, NodeAssumption, <2>2, <2>3, <1>30
       DEF SignIn, Enters, Goes, router, limits, claim
<1>31. ASSUME Refused(t) PROVE Goal
  <2>1. my[t].seen \in Wan /\ my[t].ext \in Port
    BY <1>31 DEF Refused, ThreadsFit, Fits, At
  <2>2. Recorded(t) \in [User -> (Wan \X Port) \cup {None}]
    BY <1>0, <2>1 DEF Recorded
  <2>3. pc' \in [Thread -> Statement]
    BY <1>0, <1>s, <1>31 DEF Refused, Goes, Statement
  <2> QED
    BY <1>0, <2>2, <2>3, <1>31 DEF Refused, router, limits, claim
<1> QED
  BY <1>1, <1>2, <1>3, <1>4, <1>5, <1>6, <1>7, <1>8, <1>9, <1>10, <1>11, <1>12,
     <1>13, <1>14, <1>15, <1>16, <1>17, <1>18, <1>19, <1>20, <1>21, <1>22, <1>23,
     <1>24, <1>25, <1>26, <1>27, <1>28, <1>29, <1>30, <1>31 DEF Moves, Proceeds, Asked

(* A thread goes from statement to statement as main, a claim, a probe or a *)
(* request does.                                                           *)
LEMMA FitsStep ==
  ASSUME TypeOK, ThreadsFit, NEW t \in Thread, Moves(t)
  PROVE  ThreadsFit'
<1> DEFINE Goal == Fits(t)' /\ (t = Main => MainFits')
<1>0. /\ pc \in [Thread -> Statement] /\ my \in [Thread -> Locals] /\ my[t] \in Locals
      /\ Fits(t) /\ MainFits /\ file \in State
  BY DEF TypeOK, ThreadsFit
<1>m. Main \in Thread /\ Main \notin Req /\ Main # Prober /\ Main # Loop
  BY Threads, NodeAssumption
<1>1. ASSUME Replace(t) PROVE Goal
  BY <1>0, <1>m, <1>1 DEF Replace, At, Goes, OneMoreDue, Fits, MainFits, Locals, claim
<1>2. ASSUME Mark(t) PROVE Goal
  <2>1. /\ pc'[t] = "replace"
        /\ my'[t].back = "post"
        /\ my'[t].seen = my[t].seen
        /\ my'[t].ext = my[t].ext
    BY <1>2, SaveBegins DEF Mark, claim
  <2> QED
    BY <1>0, <1>m, <2>1, <1>2 DEF Mark, Fits, MainFits, At, claim
<1>3. ASSUME Post(t) PROVE Goal
  BY <1>0, <1>m, <1>3 DEF Post, Recorded, At, Goes, Fits, MainFits, Locals, claim
<1>4. ASSUME Apply(t) PROVE Goal
  <2>1. /\ pc'[t] = "replace"
        /\ my'[t].back = "idle"
        /\ my'[t].seen = my[t].seen
        /\ my'[t].ext = my[t].ext
    BY <1>4, SaveBegins DEF Apply, claim
  <2> QED
    BY <1>0, <1>m, <2>1, <1>4 DEF Apply, Fits, MainFits, At, claim
<1>5. ASSUME DueClaims(t) PROVE Goal
  <2>1. CASE file.wan # None /\ file.port # None
    <3>1. /\ pc' = [pc EXCEPT ![t] = "mark"]
          /\ my' = [my EXCEPT ![t] = [@ EXCEPT !.seen = file.wan, !.ext = file.port, !.as = context,
                 !.token = IF welcome = "never" THEN "bad" ELSE "good"]]
      BY <2>1, <1>5 DEF DueClaims, Considers, Goes, claim
    <3>2. pc'[t] = "mark" /\ my'[t].seen \in Wan /\ my'[t].ext \in Port
      BY <1>0, <2>1, <3>1 DEF Locals, State
    <3> QED
      BY <1>0, <1>m, <3>2, <1>5 DEF DueClaims, Fits, MainFits, At, claim
  <2>2. CASE ~(file.wan # None /\ file.port # None)
    <3>1. pc'[t] = "replace" /\ my'[t].back = "idle"
      BY <2>2, <1>5, SaveBegins DEF DueClaims, Considers, claim
    <3> QED
      BY <1>0, <1>m, <3>1, <1>5 DEF DueClaims, Fits, MainFits, At, claim
  <2> QED
    BY <2>1, <2>2
<1>6. ASSUME t = Loop, LoopClaims PROVE Goal
  <2>1. CASE file.wan # None /\ file.port # None
    <3>1. /\ pc' = [pc EXCEPT ![t] = "mark"]
          /\ my' = [my EXCEPT ![t] = [@ EXCEPT !.seen = file.wan, !.ext = file.port, !.as = context,
                 !.token = IF welcome = "never" THEN "bad" ELSE "good"]]
      BY <2>1, <1>6 DEF LoopClaims, Considers, Goes, claim
    <3>2. pc'[t] = "mark" /\ my'[t].seen \in Wan /\ my'[t].ext \in Port
      BY <1>0, <2>1, <3>1 DEF Locals, State
    <3> QED
      BY <1>0, <1>m, <3>2, <1>6 DEF LoopClaims, Fits, MainFits, At, claim
  <2>2. CASE ~(file.wan # None /\ file.port # None)
    <3>1. pc'[t] = "replace" /\ my'[t].back = "idle"
      BY <2>2, <1>6, SaveBegins DEF LoopClaims, Considers, claim
    <3> QED
      BY <1>0, <1>m, <3>1, <1>6 DEF LoopClaims, Fits, MainFits, At, claim
  <2> QED
    BY <2>1, <2>2
<1>7. ASSUME t = Main, Boot PROVE Goal
  <2>1. /\ pc'[t] = "replace"
        /\ my'[t].back = "map"
        /\ my'[t].seen = my[t].seen
        /\ my'[t].ext = my[t].ext
    BY <1>7, SaveBegins DEF Boot, claim
  <2> QED
    BY <1>0, <1>m, <2>1, <1>7 DEF Boot, Fits, MainFits, At, claim
<1>8. ASSUME t = Main, BootMaps PROVE Goal
  BY <1>0, <1>m, <1>8 DEF BootMaps, Rejects, Accepts, router, At, Goes, Fits,
     MainFits, Locals, claim
<1>9. ASSUME t = Main, BootTakes PROVE Goal
  <2>1. /\ pc'[t] = "replace"
        /\ my'[t].back = "sync"
        /\ my'[t].seen = my[t].seen
        /\ my'[t].ext = my[t].ext
    BY <1>9, SaveBegins DEF BootTakes, claim
  <2> QED
    BY <1>0, <1>m, <2>1, <1>9 DEF BootTakes, Fits, MainFits, At, claim
<1>10. ASSUME t = Main, BootSyncs PROVE Goal
  <2>1. /\ pc'[t] = "replace"
        /\ my'[t].back = "serve"
        /\ my'[t].seen = my[t].seen
        /\ my'[t].ext = my[t].ext
    BY <1>10, SaveBegins DEF BootSyncs, claim
  <2> QED
    BY <1>0, <1>m, <2>1, <1>10 DEF BootSyncs, Fits, MainFits, At, claim
<1>11. ASSUME t = Prober, ProbeLater PROVE Goal
  BY <1>0, <1>m, <1>11 DEF ProbeLater, ToProbe, Ends, At, Goes, Fits, MainFits,
     Locals, claim
<1>12. ASSUME Probed(t) PROVE Goal
  <2>1. /\ pc'[t] = "replace"
        /\ my'[t].back = "idle"
        /\ my'[t].seen = my[t].seen
        /\ my'[t].ext = my[t].ext
    BY <1>12, SaveBegins DEF Probed, claim
  <2> QED
    BY <1>0, <1>m, <2>1, <1>12 DEF Probed, Fits, MainFits, At, claim
<1>13. ASSUME UpnpMaps(t) PROVE Goal
  <2>1. /\ pc'[t] = "replace"
        /\ my'[t].back = "idle"
        /\ my'[t].seen = my[t].seen
        /\ my'[t].ext = my[t].ext
    BY <1>13, SaveBegins DEF UpnpMaps, claim
  <2> QED
    BY <1>0, <1>m, <2>1, <1>13 DEF UpnpMaps, Fits, MainFits, At, claim
<1>14. ASSUME Check(t) PROVE Goal
  <2>1. /\ pc'[t] = "replace"
        /\ my'[t].back = "idle"
        /\ my'[t].seen = my[t].seen
        /\ my'[t].ext = my[t].ext
    BY <1>14, SaveBegins DEF Check, claim
  <2> QED
    BY <1>0, <1>m, <2>1, <1>14 DEF Check, Fits, MainFits, At, claim
<1>15. ASSUME DeletePrevious(t) PROVE Goal
  BY <1>0, <1>m, <1>15 DEF DeletePrevious, Deletes, At, Goes, Fits, MainFits,
     Locals, claim
<1>16. ASSUME NEW p \in Port, Try(t, p) PROVE Goal
  BY <1>0, <1>m, <1>16 DEF Try, Rejects, Accepts, router, At, Goes, Fits,
     MainFits, Locals, claim
<1>17. ASSUME Reach(t) PROVE Goal
  BY <1>0, <1>m, <1>17 DEF Reach, At, Goes, Fits, MainFits, Locals, claim
<1>18. ASSUME RollBack(t) PROVE Goal
  BY <1>0, <1>m, <1>18 DEF RollBack, Deletes, At, Goes, Fits, MainFits, Locals, claim
<1>19. ASSUME Exhausted(t) PROVE Goal
  BY <1>0, <1>m, <1>19 DEF Exhausted, At, Goes, Fits, MainFits, Locals, claim
<1>20. ASSUME Settle(t) PROVE Goal
  <2>1. /\ pc'[t] = "replace"
        /\ my'[t].back = "idle"
        /\ my'[t].seen = my[t].seen
        /\ my'[t].ext = my[t].ext
    BY <1>20, SaveBegins DEF Settle, claim
  <2> QED
    BY <1>0, <1>m, <2>1, <1>20 DEF Settle, Fits, MainFits, At, claim
<1>21. ASSUME SaveContext(t) PROVE Goal
  BY <1>0, <1>m, <1>21 DEF SaveContext, At, Goes, Fits, MainFits, Locals, claim
<1>22. ASSUME Bind(t) PROVE Goal
  <2>1. /\ pc'[t] = "replace"
        /\ my'[t].back = "spawn"
        /\ my'[t].seen = my[t].seen
        /\ my'[t].ext = my[t].ext
    BY <1>22, SaveBegins DEF Bind, claim
  <2> QED
    BY <1>0, <1>m, <2>1, <1>22 DEF Bind, Fits, MainFits, At, claim
<1>23. ASSUME Spawn(t) PROVE Goal
  BY <1>0, <1>m, <1>23 DEF Spawn, Ends, OneMoreDue, At, Goes, Fits, MainFits,
     Locals, claim
<1>24. ASSUME ReplaceFails(t) PROVE Goal
  BY <1>0, <1>m, <1>24 DEF ReplaceFails, Ends, At, Goes, Fits, MainFits, Locals, claim
<1>25. ASSUME PostFails(t) PROVE Goal
  BY <1>0, <1>m, <1>25 DEF PostFails, Recorded, At, Goes, Fits, MainFits, Locals, claim
<1>26. ASSUME t \in Req, Probe(t) PROVE Goal
  BY <1>0, <1>m, <1>26 DEF Probe, ToProbe, Enter, Enters, At, Goes, Fits,
     MainFits, Locals, claim
<1>27. ASSUME t \in Req, Upnp(t) PROVE Goal
  BY <1>0, <1>m, <1>27 DEF Upnp, Enter, Enters, At, Goes, Fits, MainFits, Locals, claim
<1>28. ASSUME t \in Req, Remap(t) PROVE Goal
  BY <1>0, <1>m, <1>28 DEF Remap, Enter, Enters, At, Goes, Fits, MainFits, Locals, claim
<1>29. ASSUME t \in Req, NEW p \in Port \cup {None}, NEW w \in Wan \cup {None}, Manual(t, p, w)
      PROVE  Goal
  <2>1. /\ pc'[t] = "replace" /\ my'[t].back \in {"check", "idle"}
        /\ my'[t].seen = my[t].seen /\ my'[t].ext = my[t].ext
    BY <1>29, SaveBegins DEF Manual, claim
  <2> QED
    BY <1>0, <1>m, <2>1, <1>29 DEF Manual, Enter, Enters, Fits, MainFits, At, claim
<1>30. ASSUME t \in Req, NEW u \in User, SignIn(t, u) PROVE Goal
  BY <1>0, <1>m, <1>30 DEF SignIn, Enters, At, Goes, Fits, MainFits, Locals, claim
<1>31. ASSUME Refused(t) PROVE Goal
  BY <1>0, <1>m, <1>31 DEF Refused, Recorded, At, Goes, Fits, MainFits, Locals, claim
<1>a. Goal
  BY <1>1, <1>2, <1>3, <1>4, <1>5, <1>6, <1>7, <1>8, <1>9, <1>10, <1>11, <1>12, <1>13,
     <1>14, <1>15, <1>16, <1>17, <1>18, <1>19, <1>20, <1>21, <1>22, <1>23, <1>24,
     <1>25, <1>26, <1>27, <1>28, <1>29, <1>30, <1>31
     DEF Moves, Proceeds, Asked
<1>b. \A u \in Thread : u # t => Fits(u)'
  BY LocalStep DEF ThreadsFit, Fits, At
<1>c. t # Main => MainFits'
  BY <1>m, LocalStep DEF ThreadsFit, MainFits, At
<1> QED
  BY <1>a, <1>b, <1>c DEF ThreadsFit

-----------------------------------------------------------------------------
(* What holds of the one thread at work. *)

(* What thread t leaves, if nobody else works and nothing fails.           *)
TrueFor(t) ==
  /\ pc[t] \notin Moving => TrueOfPort(file)
  /\ pc[t] \notin Binding => TrueOfUser(file)
  /\ Knows(t)

(* The thread at work leaves the file true, or knows what it lacks.        *)
LEMMA OwnStep ==
  ASSUME TypeOK, ThreadsFit, NEW t \in Thread, Moves(t), TrueFor(t), faults' = 0
  PROVE  TrueFor(t)'
<1> DEFINE Goal == TrueFor(t)'
<1>0. /\ pc \in [Thread -> Statement] /\ my \in [Thread -> Locals] /\ my[t] \in Locals
      /\ file \in State /\ my[t].st \in State /\ context \in User \cup {None}
      /\ mapped \subseteq Port /\ faults \in Nat
  BY DEF TypeOK, Locals
<1>f. Fits(t) /\ MainFits
  BY DEF ThreadsFit
<1>m. Main \in Thread /\ Main \notin Req /\ Main # Prober /\ Main # Loop
  BY Threads, NodeAssumption
<1>n. None \notin Port /\ None \notin User /\ None \notin Wan /\ ListenPort \in Port
  BY NodeAssumption
<1>s. ASSUME NEW s, pc'[t] = "replace", my'[t].st = s,
             s.upnp = "mapped" => s.port \in mapped', context' # None => s.sub = context'
      PROVE  Goal
  BY <1>s
     DEF TrueFor, Knows, CopyIsTrue, IsTrue, TrueOfPort, TrueOfUser, Starts, Remaps, At,
     Moving, Binding
<1>t. pc[t] \notin Moving => (file.upnp = "mapped" => file.port \in mapped)
  BY DEF TrueFor, TrueOfPort
<1>u. pc[t] \notin Binding => (context # None => file.sub = context)
  BY DEF TrueFor, TrueOfUser
<1>1. ASSUME Replace(t) PROVE Goal
  <2>1. /\ file' = my[t].st /\ UNCHANGED <<mapped, context>>
        /\ pc'[t] = my[t].back /\ At(t, "replace")
    BY <1>0, <1>1 DEF Replace, Goes, router, claim
  <2>2. IsTrue(my[t].st)
    BY <2>1 DEF TrueFor, Knows, CopyIsTrue, At
  <2>3. /\ pc'[t] \in {"map", "sync", "serve", "idle", "post", "check", "spawn"}
        /\ pc'[t] = "map" => t = Main
    BY <1>f, <2>1 DEF Fits
  <2> QED
    BY <2>1, <2>2, <2>3
       DEF TrueFor, Knows, CopyIsTrue, IsTrue, TrueOfPort, TrueOfUser, Starts,
       Remaps, At
<1>2. ASSUME Mark(t) PROVE Goal
  <2> DEFINE s == [file EXCEPT !.stage = "claiming"]
  <2>1. pc'[t] = "replace" /\ my'[t].st = s
    BY <1>2, SaveBegins DEF Mark, claim
  <2>2. UNCHANGED <<mapped, context>> /\ pc[t] \notin Moving \cup Binding
    BY <1>2 DEF Mark, router, At, Moving, Binding, claim
  <2>3. s.port = file.port /\ s.upnp = file.upnp /\ s.sub = file.sub
    BY <1>0, ClaimingSet
  <2> HIDE DEF s
  <2> QED
    BY <1>s, <1>t, <1>u, <2>1, <2>2, <2>3
<1>3. ASSUME Post(t) PROVE Goal
  BY <1>0, <1>f, <1>m, <1>n, <1>t, <1>u, <1>3 DEF Post, Recorded, At, Goes,
     router, TrueFor, Knows, CopyIsTrue, IsTrue, TrueOfPort, TrueOfUser, Starts,
     Remaps, Left, Candidates, Moving, Binding, Locals, claim
<1>4. ASSUME Apply(t) PROVE Goal
  <2> DEFINE d == IF At(t, "claimed") THEN "ok" ELSE "error"
  <2>1. pc'[t] = "replace" /\ my'[t].st = Staged([file EXCEPT !.dns = d])
    BY <1>4, SaveBegins DEF Apply, claim
  <2>2. pc[t] \notin Moving \cup Binding /\ UNCHANGED <<mapped, context>>
    BY <1>4 DEF Apply, router, At, Moving, Binding, claim
  <2>3. d \in {"ok", "error", "no_wan", "no_public_port"}
    OBVIOUS
  <2> HIDE DEF d
  <2>4. /\ Staged([file EXCEPT !.dns = d]).port = file.port
        /\ Staged([file EXCEPT !.dns = d]).upnp = file.upnp
        /\ Staged([file EXCEPT !.dns = d]).sub = file.sub
    BY <1>0, <2>3, StatusSet
  <2> QED
    BY <1>s, <1>t, <1>u, <2>1, <2>2, <2>4
<1>5. ASSUME DueClaims(t) PROVE Goal
  <2>1. pc[t] \notin Moving \cup Binding /\ UNCHANGED <<file, mapped, context>>
    BY <1>5 DEF DueClaims, router, At, Moving, Binding, claim
  <2>2. CASE file.wan # None /\ file.port # None
    <3>1. pc'[t] = "mark"
      BY <1>0, <2>2, <1>5 DEF DueClaims, Considers, Goes, claim
    <3> QED
      BY <1>t, <1>u, <2>1, <3>1
         DEF TrueFor, Knows, CopyIsTrue, TrueOfPort, TrueOfUser, Starts,
         Remaps, At
  <2>3. CASE ~(file.wan # None /\ file.port # None)
    <3> DEFINE d == IF file.wan = None THEN "no_wan" ELSE "no_public_port"
    <3>1. pc'[t] = "replace" /\ my'[t].st = Staged([file EXCEPT !.dns = d])
      BY <2>3, <1>5, SaveBegins DEF DueClaims, Considers, claim
    <3>2. /\ Staged([file EXCEPT !.dns = d]).port = file.port
          /\ Staged([file EXCEPT !.dns = d]).upnp = file.upnp
          /\ Staged([file EXCEPT !.dns = d]).sub = file.sub
      BY <1>0, StatusSet
    <3> QED
      BY <1>s, <1>t, <1>u, <2>1, <3>1, <3>2
  <2> QED
    BY <2>2, <2>3
<1>6. ASSUME t = Loop, LoopClaims PROVE Goal
  <2>1. pc[t] \notin Moving \cup Binding /\ UNCHANGED <<file, mapped, context>>
    BY <1>6 DEF LoopClaims, router, At, Moving, Binding, claim
  <2>2. CASE file.wan # None /\ file.port # None
    <3>1. pc'[t] = "mark"
      BY <1>0, <2>2, <1>6 DEF LoopClaims, Considers, Goes, claim
    <3> QED
      BY <1>t, <1>u, <2>1, <3>1
         DEF TrueFor, Knows, CopyIsTrue, TrueOfPort, TrueOfUser, Starts,
         Remaps, At
  <2>3. CASE ~(file.wan # None /\ file.port # None)
    <3> DEFINE d == IF file.wan = None THEN "no_wan" ELSE "no_public_port"
    <3>1. pc'[t] = "replace" /\ my'[t].st = Staged([file EXCEPT !.dns = d])
      BY <2>3, <1>6, SaveBegins DEF LoopClaims, Considers, claim
    <3>2. /\ Staged([file EXCEPT !.dns = d]).port = file.port
          /\ Staged([file EXCEPT !.dns = d]).upnp = file.upnp
          /\ Staged([file EXCEPT !.dns = d]).sub = file.sub
      BY <1>0, StatusSet
    <3> QED
      BY <1>s, <1>t, <1>u, <2>1, <3>1, <3>2
  <2> QED
    BY <2>2, <2>3
<1>7. ASSUME t = Main, Boot PROVE Goal
  <2>1. pc'[t] = "replace" /\ my'[t].st = RuntimeState
    BY <1>7, SaveBegins DEF Boot, claim
  <2>2. UNCHANGED <<mapped, context>>
    BY <1>7 DEF Boot, router, claim
  <2>3. /\ RuntimeState.upnp = "mapped" => RuntimeState.port \in mapped
        /\ context # None => RuntimeState.sub = context
    BY <1>0, <1>m, <1>7 DEF Boot, TrueFor, Knows, Starts, RuntimeState, claim
  <2> QED
    BY <1>s, <2>1, <2>2, <2>3
<1>8. ASSUME t = Main, BootMaps PROVE Goal
  <2>1. pc'[t] = "take" /\ UNCHANGED <<file, context>>
    BY <1>0, <1>8 DEF BootMaps, Goes, claim
  <2>2. mapped \subseteq mapped' /\ (my'[t].seen = None \/ ListenPort \in mapped')
    <3>1. CASE Rejects /\ UNCHANGED my
      BY <1>f, <3>1, <1>8 DEF Rejects, router, BootMaps, MainFits, At, claim
    <3>2. CASE Accepts(ListenPort)
      BY <3>2 DEF Accepts
    <3> QED
      BY <3>1, <3>2, <1>8 DEF BootMaps, claim
  <2>3. pc[t] \notin Moving \cup Binding
    BY <1>8 DEF BootMaps, At, Moving, Binding, claim
  <2> QED
    BY <1>t, <1>u, <2>1, <2>2, <2>3
       DEF TrueFor, Knows, CopyIsTrue, TrueOfPort, TrueOfUser, Starts,
       Remaps, At
<1>9. ASSUME t = Main, BootTakes PROVE Goal
  <2>1. UNCHANGED <<mapped, context>> /\ pc[t] \notin Binding
    BY <1>9 DEF BootTakes, router, At, Binding, claim
  <2>2. CASE my[t].seen = None
    <3>1. pc'[t] = "replace" /\ my'[t].st = Unmapped(file)
      BY <2>2, <1>9, SaveBegins DEF BootTakes, claim
    <3> QED
      BY <1>0, <1>s, <1>u, <2>1, <3>1, RejectionSet
  <2>3. CASE my[t].seen # None
    <3>1. pc'[t] = "replace" /\ my'[t].st = Mapped(file, my[t].seen)
      BY <2>3, <1>9, SaveBegins DEF BootTakes, claim
    <3>2. ListenPort \in mapped /\ my[t].seen \in Wan \cup {None}
      BY <1>0, <2>3, <1>9 DEF BootTakes, TrueFor, Knows, Starts, Locals, claim
    <3>3. /\ Mapped(file, my[t].seen).port = ListenPort
          /\ Mapped(file, my[t].seen).sub = file.sub
      BY <1>0, <3>2, MappingSet
    <3> QED
      BY <1>s, <1>u, <2>1, <3>1, <3>2, <3>3
  <2> QED
    BY <2>2, <2>3
<1>10. ASSUME t = Main, BootSyncs PROVE Goal
  <2>1. pc'[t] = "replace" /\ my'[t].st = Staged(file)
    BY <1>10, SaveBegins DEF BootSyncs, claim
  <2>2. UNCHANGED <<mapped, context>>
    BY <1>10 DEF BootSyncs, router, claim
  <2>3. /\ Staged(file).upnp = "mapped" => Staged(file).port \in mapped
        /\ context # None => Staged(file).sub = context
    BY <1>0, <1>t, <1>u, ClaimingSet, StageSet, <1>10 DEF BootSyncs, At, Moving, Binding,
     claim
  <2> QED
    BY <1>s, <2>1, <2>2, <2>3
<1>11. ASSUME t = Prober, ProbeLater PROVE Goal
  BY <1>0, <1>f, <1>m, <1>n, <1>t, <1>u, <1>11 DEF ProbeLater, ToProbe, Ends, At,
     Goes, router, TrueFor, Knows, CopyIsTrue, IsTrue, TrueOfPort, TrueOfUser,
     Starts, Remaps, Left, Candidates, Moving, Binding, Locals, claim
<1>12. ASSUME Probed(t) PROVE Goal
  <2>1. pc'[t] = "replace" /\ my'[t].st = my[t].st
    BY <1>12, SaveBegins DEF Probed, claim
  <2>2. UNCHANGED <<mapped, context>>
    BY <1>12 DEF Probed, router, claim
  <2>3. /\ my[t].st.upnp = "mapped" => my[t].st.port \in mapped
        /\ context # None => my[t].st.sub = context
    BY <1>0, <1>0, <1>12
       DEF Probed, TrueFor, Knows, CopyIsTrue, IsTrue, TrueOfPort, TrueOfUser, At, claim
  <2> QED
    BY <1>s, <2>1, <2>2, <2>3
<1>13. ASSUME UpnpMaps(t) PROVE Goal
  <2>1. my[t].st.sub = context \/ context = None
    BY <1>0, <1>m, <1>13 DEF UpnpMaps, TrueFor, Knows, CopyIsTrue, IsTrue, TrueOfUser, At,
     claim
  <2>2. context' = context
    BY <1>13 DEF UpnpMaps, claim
  <2>3. CASE Saves(t, Unmapped(my[t].st), "idle")
    <3>1. pc'[t] = "replace" /\ my'[t].st = Unmapped(my[t].st)
      BY <2>3, SaveBegins
    <3>2. Unmapped(my[t].st).upnp = "failed" /\ Unmapped(my[t].st).sub = my[t].st.sub
      BY <1>0, RejectionSet
    <3> QED
      BY <1>s, <2>1, <2>2, <3>1, <3>2
  <2>4. CASE Accepts(ListenPort) /\ Saves(t, Mapped(my[t].st, wan), "idle")
    <3>1. pc'[t] = "replace" /\ my'[t].st = Mapped(my[t].st, wan)
      BY <2>4, SaveBegins
    <3>2. ListenPort \in mapped' /\ wan \in Wan
      BY <2>4 DEF Accepts, TypeOK
    <3>3. /\ Mapped(my[t].st, wan).port = ListenPort
          /\ Mapped(my[t].st, wan).sub = my[t].st.sub
      BY <1>0, <3>2, MappingSet
    <3> QED
      BY <1>s, <2>1, <2>2, <3>1, <3>2, <3>3
  <2> QED
    BY <2>3, <2>4, <1>13 DEF UpnpMaps, claim
<1>14. ASSUME Check(t) PROVE Goal
  <2>1. pc'[t] = "replace" /\ my'[t].st = file
    BY <1>14, SaveBegins DEF Check, claim
  <2>2. UNCHANGED <<mapped, context>>
    BY <1>14 DEF Check, router, claim
  <2>3. /\ file.upnp = "mapped" => file.port \in mapped
        /\ context # None => file.sub = context
    BY <1>0, <1>t, <1>u, <1>14 DEF Check, At, Moving, Binding, claim
  <2> QED
    BY <1>s, <2>1, <2>2, <2>3
<1>15. ASSUME DeletePrevious(t) PROVE Goal
  BY <1>0, <1>f, <1>m, <1>n, <1>t, <1>u, <1>15 DEF DeletePrevious, Deletes, At,
     Goes, router, TrueFor, Knows, CopyIsTrue, IsTrue, TrueOfPort, TrueOfUser,
     Starts, Remaps, Left, Candidates, Moving, Binding, Locals, claim
<1>16. ASSUME NEW p \in Port, Try(t, p) PROVE Goal
  <2>1. UNCHANGED <<file, context>> /\ At(t, "try")
    BY <1>16 DEF Try, claim
  <2>2. /\ my[t].ext = None /\ mapped \subseteq Left(t) /\ Left(t) \ Candidates(t) \subseteq mapped
        /\ context # None => file.sub = context
    BY <1>u, <2>1 DEF TrueFor, Knows, Remaps, At, Binding
  <2>3. CASE Rejects /\ my' = [my EXCEPT ![t].tries = @ + 1] /\ UNCHANGED pc
    <3>1. UNCHANGED mapped /\ pc'[t] = "try"
      BY <2>1, <2>3 DEF Rejects, router, At
    <3>2. my'[t].ext = my[t].ext /\ Left(t)' = Left(t) /\ Candidates(t)' = Candidates(t)
      BY <1>0, <2>3 DEF Left, Candidates, Locals
    <3> QED
      BY <2>1, <2>2, <3>1, <3>2
         DEF TrueFor, Knows, CopyIsTrue, TrueOfUser, Starts, Remaps, At,
         Moving
  <2>4. CASE /\ Accepts(p) /\ my' = [my EXCEPT ![t] = [@ EXCEPT !.ext = p, !.seen = wan]]
             /\ Goes(t, "reach")
    <3>1. mapped' = mapped \cup {p} /\ pc'[t] = "reach" /\ p \in Candidates(t)
      BY <1>0, <2>4, <1>16 DEF Accepts, Goes, Try, claim
    <3>2. my'[t].ext = p /\ Left(t)' = Left(t) /\ Candidates(t)' = Candidates(t)
      BY <1>0, <2>4 DEF Left, Candidates, Locals
    <3> QED
      BY <2>1, <2>2, <3>1, <3>2
         DEF TrueFor, Knows, CopyIsTrue, TrueOfUser, Starts, Remaps, At,
         Moving
  <2> QED
    BY <2>3, <2>4, <1>16 DEF Try, claim
<1>17. ASSUME Reach(t) PROVE Goal
  BY <1>0, <1>f, <1>m, <1>n, <1>t, <1>u, <1>17 DEF Reach, At, Goes, router,
     TrueFor, Knows, CopyIsTrue, IsTrue, TrueOfPort, TrueOfUser, Starts, Remaps,
     Left, Candidates, Moving, Binding, Locals, claim
<1>18. ASSUME RollBack(t) PROVE Goal
  BY <1>0, <1>f, <1>m, <1>n, <1>t, <1>u, <1>18 DEF RollBack, Deletes, At, Goes,
     router, TrueFor, Knows, CopyIsTrue, IsTrue, TrueOfPort, TrueOfUser, Starts,
     Remaps, Left, Candidates, Moving, Binding, Locals, claim
<1>19. ASSUME Exhausted(t) PROVE Goal
  BY <1>0, <1>f, <1>m, <1>n, <1>t, <1>u, <1>19 DEF Exhausted, At, Goes, router,
     TrueFor, Knows, CopyIsTrue, IsTrue, TrueOfPort, TrueOfUser, Starts, Remaps,
     Left, Candidates, Moving, Binding, Locals, claim
<1>20. ASSUME Settle(t) PROVE Goal
  <2>1. pc'[t] = "replace" /\ my'[t].st = Settled(t, file)
    BY <1>20, SaveBegins DEF Settle, claim
  <2>2. UNCHANGED <<mapped, context>>
    BY <1>20 DEF Settle, router, claim
  <2>3. /\ Settled(t, file).upnp = "mapped" => Settled(t, file).port \in mapped
        /\ context # None => Settled(t, file).sub = context
    BY <1>0, <1>n, <1>u, <1>20
       DEF Settle, TrueFor, Knows, Remaps, Settled, State, Locals, At, Moving, Binding,
     claim
  <2> QED
    BY <1>s, <2>1, <2>2, <2>3
<1>21. ASSUME SaveContext(t) PROVE Goal
  BY <1>0, <1>f, <1>m, <1>n, <1>t, <1>u, <1>21 DEF SaveContext, At, Goes, router,
     TrueFor, Knows, CopyIsTrue, IsTrue, TrueOfPort, TrueOfUser, Starts, Remaps,
     Left, Candidates, Moving, Binding, Locals, claim
<1>22. ASSUME Bind(t) PROVE Goal
  <2>1. pc'[t] = "replace" /\ my'[t].st = Staged([file EXCEPT !.sub = my[t].as])
    BY <1>22, SaveBegins DEF Bind, claim
  <2>2. UNCHANGED <<mapped, context>> /\ At(t, "bind")
    BY <1>22 DEF Bind, router, claim
  <2>3. my[t].as = context /\ (file.upnp = "mapped" => file.port \in mapped)
    BY <1>t, <2>2 DEF TrueFor, Knows, Starts, At, Moving
  <2>4. /\ Staged([file EXCEPT !.sub = context]).port = file.port
        /\ Staged([file EXCEPT !.sub = context]).upnp = file.upnp
        /\ Staged([file EXCEPT !.sub = context]).sub = context
    BY <1>0, UserSet
  <2> QED
    BY <1>s, <2>1, <2>2, <2>3, <2>4
<1>23. ASSUME Spawn(t) PROVE Goal
  BY <1>0, <1>f, <1>m, <1>n, <1>t, <1>u, <1>23 DEF Spawn, Ends, OneMoreDue, At,
     Goes, router, TrueFor, Knows, CopyIsTrue, IsTrue, TrueOfPort, TrueOfUser,
     Starts, Remaps, Left, Candidates, Moving, Binding, Locals, claim
<1>24. ASSUME ReplaceFails(t) PROVE Goal
  BY <1>0, <1>f, <1>m, <1>n, <1>t, <1>u, <1>24 DEF ReplaceFails, Ends, At, Goes,
     router, TrueFor, Knows, CopyIsTrue, IsTrue, TrueOfPort, TrueOfUser, Starts,
     Remaps, Left, Candidates, Moving, Binding, Locals, claim
<1>25. ASSUME PostFails(t) PROVE Goal
  BY <1>0, <1>f, <1>m, <1>n, <1>t, <1>u, <1>25 DEF PostFails, Recorded, At, Goes,
     router, TrueFor, Knows, CopyIsTrue, IsTrue, TrueOfPort, TrueOfUser, Starts,
     Remaps, Left, Candidates, Moving, Binding, Locals, claim
<1>26. ASSUME t \in Req, Probe(t) PROVE Goal
  BY <1>0, <1>f, <1>m, <1>n, <1>t, <1>u, <1>26 DEF Probe, ToProbe, Enter, Enters,
     At, Goes, router, TrueFor, Knows, CopyIsTrue, IsTrue, TrueOfPort, TrueOfUser,
     Starts, Remaps, Left, Candidates, Moving, Binding, Locals, claim
<1>27. ASSUME t \in Req, Upnp(t) PROVE Goal
  BY <1>0, <1>f, <1>m, <1>n, <1>t, <1>u, <1>27 DEF Upnp, Enter, Enters, At, Goes,
     router, TrueFor, Knows, CopyIsTrue, IsTrue, TrueOfPort, TrueOfUser, Starts,
     Remaps, Left, Candidates, Moving, Binding, Locals, claim
<1>28. ASSUME t \in Req, Remap(t) PROVE Goal
  <2>1. At(t, "idle") /\ UNCHANGED <<file, context, mapped>>
    BY <1>28 DEF Remap, Enter, Enters, router, claim
  <2>2. my'[t].ext = None /\ my'[t].prev = file.port /\ my'[t].had = mapped
    BY <1>0, <1>f, <2>1, <1>28 DEF Remap, Fits, Blank, Locals, claim
  <2>3. pc'[t] = IF file.port = None THEN "try" ELSE "delete"
    BY <1>0, <1>28 DEF Remap, Goes, claim
  <2>4. CASE pc'[t] = "try"
    <3>1. Left(t)' = mapped
      BY <1>0, <1>n, <2>2, <2>3, <2>4 DEF Left
    <3> QED
      BY <1>u, <2>1, <2>2, <2>4, <3>1
         DEF TrueFor, Knows, CopyIsTrue, TrueOfUser, Starts, Remaps,
         At, Moving, Binding
  <2>5. CASE pc'[t] = "delete"
    BY <1>t, <1>u, <2>1, <2>2, <2>5 DEF TrueFor, Knows, CopyIsTrue, TrueOfPort, TrueOfUser,
       Starts, Remaps, At, Moving, Binding
  <2> QED
    BY <2>3, <2>4, <2>5
<1>29. ASSUME t \in Req, NEW p \in Port \cup {None}, NEW w \in Wan \cup {None}, Manual(t, p, w)
      PROVE  Goal
  <2> DEFINE s == [file EXCEPT !.port = p, !.upnp = "manual", !.wan = IF w = None THEN @ ELSE w]
  <2>1. pc'[t] = "replace" /\ my'[t].st = s
    BY <1>29, SaveBegins DEF Manual, claim
  <2>2. UNCHANGED <<mapped, context>>
    BY <1>29 DEF Manual, Enter, Enters, router, claim
  <2>3. s.upnp = "manual" /\ (context # None => s.sub = context)
    BY <1>0, <1>u, <1>29 DEF Manual, Enter, Enters, State, At, Binding, claim
  <2> HIDE DEF s
  <2> QED
    BY <1>s, <2>1, <2>2, <2>3
<1>30. ASSUME t \in Req, NEW u \in User, SignIn(t, u) PROVE Goal
  BY <1>0, <1>f, <1>m, <1>n, <1>t, <1>u, <1>30 DEF SignIn, Enters, At, Goes,
     router, TrueFor, Knows, CopyIsTrue, IsTrue, TrueOfPort, TrueOfUser, Starts,
     Remaps, Left, Candidates, Moving, Binding, Locals, claim
<1>31. ASSUME Refused(t) PROVE Goal
  BY <1>0, <1>f, <1>m, <1>n, <1>t, <1>u, <1>31 DEF Refused, Recorded, At, Goes,
     router, TrueFor, Knows, CopyIsTrue, IsTrue, TrueOfPort, TrueOfUser, Starts,
     Remaps, Left, Candidates, Moving, Binding, Locals, claim
<1> QED
  BY <1>1, <1>2, <1>3, <1>4, <1>5, <1>6, <1>7, <1>8, <1>9, <1>10, <1>11, <1>12,
     <1>13, <1>14, <1>15, <1>16, <1>17, <1>18, <1>19, <1>20, <1>21, <1>22, <1>23,
     <1>24, <1>25, <1>26, <1>27, <1>28, <1>29, <1>30, <1>31 DEF Moves, Proceeds, Asked

-----------------------------------------------------------------------------
(* All threads together. *)

LEMMA StepTypes == IInv /\ [Next]_vars => TypeOK'
<1> SUFFICES ASSUME IInv, [Next]_vars PROVE TypeOK'
  OBVIOUS
<1>0. TypeOK /\ ThreadsFit
  BY DEF IInv
<1>1. ASSUME NEW t \in Thread, Moves(t), Meets PROVE TypeOK'
  BY <1>0, <1>1, MoveTypes DEF Meets, TypeOK
<1>2. ASSUME Restart, Meets PROVE TypeOK'
  <2>1. [t \in Thread |-> Blank] \in [Thread -> Locals] /\ 0 \in 0..DueLimit
    BY Blanks, NodeAssumption
  <2>2. faults' \in Nat
    BY <1>0, <1>2 DEF Restart, TypeOK, claim
  <2>3. overlapped' \in BOOLEAN
    BY <1>2 DEF Meets
  <2> QED
    BY <1>0, <1>2, <2>1, <2>2, <2>3, Blanks DEF Restart, TypeOK, router, claim
<1>3. ASSUME NEW w \in Wan, WanChanges(w), Meets PROVE TypeOK'
  <2>1. changes' \in Nat /\ overlapped' \in BOOLEAN
    BY <1>0, <1>3 DEF WanChanges, Meets, TypeOK, claim
  <2> QED
    BY <1>0, <1>3, <2>1 DEF WanChanges, TypeOK, threads, claim
<1>4. CASE UNCHANGED vars
  BY <1>0, <1>4 DEF TypeOK, vars, threads, router, limits, claim
<1>5. ASSUME TokenExpires \/ MasterTurns, Meets PROVE TypeOK'
  <2>1. welcome' \in {"yes", "no", "never"}
    BY <1>0, <1>5 DEF TokenExpires, MasterTurns, TypeOK
  <2>2. requests' \in Nat /\ overlapped' \in BOOLEAN
    BY <1>0, <1>5 DEF TokenExpires, MasterTurns, Turn, Meets, TypeOK
  <2> QED
    BY <1>0, <1>5, <2>1, <2>2 DEF TokenExpires, MasterTurns, TypeOK, threads, router
<1> QED
  BY <1>1, <1>2, <1>3, <1>4, <1>5, Threads DEF Next, Works, Moves

LEMMA StepFits == IInv /\ [Next]_vars => ThreadsFit'
<1> SUFFICES ASSUME IInv, [Next]_vars PROVE ThreadsFit'
  OBVIOUS
<1>0. TypeOK /\ ThreadsFit
  BY DEF IInv
<1>1. ASSUME NEW t \in Thread, Moves(t) PROVE ThreadsFit'
  BY <1>0, <1>1, FitsStep
<1>2. CASE Restart
  <2>1. /\ \A t \in Thread : my'[t] = Blank
        /\ \A t \in Thread : pc'[t] \in {"boot", "due", "idle"}
        /\ pc'[Main] = "boot"
    BY <1>2, Threads, NodeAssumption DEF Restart, Start, claim
  <2> QED
    BY <2>1, Threads DEF ThreadsFit, MainFits, Fits, At, Blank
<1>3. CASE UNCHANGED threads
  BY <1>0, <1>3 DEF ThreadsFit, MainFits, Fits, At, threads
<1> QED
  BY <1>1, <1>2, <1>3, Threads
     DEF Next, Works, Moves, WanChanges, TokenExpires, MasterTurns, vars, claim

LEMMA StepNoticed == IInv /\ [Next]_vars => MeetingsNoticed'
<1> SUFFICES ASSUME IInv, [Next]_vars PROVE MeetingsNoticed'
  OBVIOUS
<1>1. CASE Meets
  BY <1>1 DEF Meets, MeetingsNoticed
<1>2. CASE UNCHANGED vars
  BY <1>2 DEF IInv, MeetingsNoticed, Busy, vars, threads, claim
<1> QED
  BY <1>1, <1>2 DEF Next, Works

(* Nothing that has failed is forgotten.                                   *)
LEMMA FaultsStay ==
  ASSUME TypeOK, NEW t \in Thread, Moves(t) PROVE faults' # 0 \/ faults = 0
<1> DEFINE Goal == faults' # 0 \/ faults = 0
<1>0. faults \in Nat
  BY DEF TypeOK
<1>1. ASSUME Replace(t) PROVE Goal
  BY <1>0, <1>1 DEF Replace, At, Goes, OneMoreDue, limits, claim
<1>2. ASSUME Mark(t) PROVE Goal
  BY <1>0, <1>2 DEF Mark, At, limits, claim
<1>3. ASSUME Post(t) PROVE Goal
  BY <1>0, <1>3 DEF Post, Recorded, At, Goes, limits, claim
<1>4. ASSUME Apply(t) PROVE Goal
  BY <1>0, <1>4 DEF Apply, At, limits, claim
<1>5. ASSUME DueClaims(t) PROVE Goal
  BY <1>0, <1>5 DEF DueClaims, Considers, At, Goes, limits, claim
<1>6. ASSUME t = Loop, LoopClaims PROVE Goal
  BY <1>0, <1>6 DEF LoopClaims, Considers, At, Goes, limits, claim
<1>7. ASSUME t = Main, Boot PROVE Goal
  BY <1>0, <1>7 DEF Boot, At, limits, claim
<1>8. ASSUME t = Main, BootMaps PROVE Goal
  BY <1>0, <1>8 DEF BootMaps, Rejects, Accepts, router, At, Goes, limits, claim
<1>9. ASSUME t = Main, BootTakes PROVE Goal
  BY <1>0, <1>9 DEF BootTakes, At, limits, claim
<1>10. ASSUME t = Main, BootSyncs PROVE Goal
  BY <1>0, <1>10 DEF BootSyncs, At, limits, claim
<1>11. ASSUME t = Prober, ProbeLater PROVE Goal
  BY <1>0, <1>11 DEF ProbeLater, ToProbe, Ends, At, Goes, limits, claim
<1>12. ASSUME Probed(t) PROVE Goal
  BY <1>0, <1>12 DEF Probed, At, limits, claim
<1>13. ASSUME UpnpMaps(t) PROVE Goal
  BY <1>0, <1>13 DEF UpnpMaps, Rejects, Accepts, router, At, limits, claim
<1>14. ASSUME Check(t) PROVE Goal
  BY <1>0, <1>14 DEF Check, At, limits, claim
<1>15. ASSUME DeletePrevious(t) PROVE Goal
  BY <1>0, <1>15 DEF DeletePrevious, Deletes, At, Goes, limits, claim
<1>16. ASSUME NEW p \in Port, Try(t, p) PROVE Goal
  BY <1>0, <1>16 DEF Try, Rejects, Accepts, router, At, Goes, limits, claim
<1>17. ASSUME Reach(t) PROVE Goal
  BY <1>0, <1>17 DEF Reach, At, Goes, limits, claim
<1>18. ASSUME RollBack(t) PROVE Goal
  BY <1>0, <1>18 DEF RollBack, Deletes, At, Goes, limits, claim
<1>19. ASSUME Exhausted(t) PROVE Goal
  BY <1>0, <1>19 DEF Exhausted, At, Goes, limits, claim
<1>20. ASSUME Settle(t) PROVE Goal
  BY <1>0, <1>20 DEF Settle, At, limits, claim
<1>21. ASSUME SaveContext(t) PROVE Goal
  BY <1>0, <1>21 DEF SaveContext, At, Goes, limits, claim
<1>22. ASSUME Bind(t) PROVE Goal
  BY <1>0, <1>22 DEF Bind, At, limits, claim
<1>23. ASSUME Spawn(t) PROVE Goal
  BY <1>0, <1>23 DEF Spawn, Ends, OneMoreDue, At, Goes, limits, claim
<1>24. ASSUME ReplaceFails(t) PROVE Goal
  BY <1>0, <1>24 DEF ReplaceFails, Ends, At, Goes, limits, claim
<1>25. ASSUME PostFails(t) PROVE Goal
  BY <1>0, <1>25 DEF PostFails, Recorded, At, Goes, limits, claim
<1>26. ASSUME t \in Req, Probe(t) PROVE Goal
  BY <1>0, <1>26 DEF Probe, ToProbe, Enter, Enters, At, Goes, limits, claim
<1>27. ASSUME t \in Req, Upnp(t) PROVE Goal
  BY <1>0, <1>27 DEF Upnp, Enter, Enters, At, Goes, limits, claim
<1>28. ASSUME t \in Req, Remap(t) PROVE Goal
  BY <1>0, <1>28 DEF Remap, Enter, Enters, At, Goes, limits, claim
<1>29. ASSUME t \in Req, NEW p \in Port \cup {None}, NEW w \in Wan \cup {None}, Manual(t, p, w)
      PROVE  Goal
  BY <1>0, <1>29 DEF Manual, Enter, Enters, At, limits, claim
<1>30. ASSUME t \in Req, NEW u \in User, SignIn(t, u) PROVE Goal
  BY <1>0, <1>30 DEF SignIn, Enters, At, Goes, limits, claim
<1>31. ASSUME Refused(t) PROVE Goal
  BY <1>0, <1>31 DEF Refused, Recorded, At, Goes, limits, claim
<1> QED
  BY <1>1, <1>2, <1>3, <1>4, <1>5, <1>6, <1>7, <1>8, <1>9, <1>10, <1>11, <1>12,
     <1>13, <1>14, <1>15, <1>16, <1>17, <1>18, <1>19, <1>20, <1>21, <1>22, <1>23,
     <1>24, <1>25, <1>26, <1>27, <1>28, <1>29, <1>30, <1>31 DEF Moves, Proceeds, Asked

(* At rest a thread holds nothing that could be untrue.                    *)
LEMMA RestKnows == ASSUME NEW t \in Thread, ~Busy(t) PROVE Knows(t)
BY DEF Busy, Knows, CopyIsTrue, Starts, Remaps, At

LEMMA MoveTrue ==
  ASSUME IInv, NEW t \in Thread, Moves(t), Meets, Quiet'
  PROVE  FileIsTrue' /\ KnowsAll'
<1>0. TypeOK /\ ThreadsFit /\ pc \in [Thread -> Statement]
  BY DEF IInv, TypeOK
<1>1. Quiet /\ faults' = 0
  BY <1>0, FaultsStay DEF Quiet, Meets
<1>2. \A u \in Thread : u # t => pc'[u] = pc[u] /\ my'[u] = my[u]
  BY <1>0, LocalStep
<1>3. /\ (\A u \in Thread : pc[u] \notin Moving) => TrueOfPort(file)
      /\ (\A u \in Thread : pc[u] \notin Binding) => TrueOfUser(file)
      /\ \A u \in Thread : Knows(u)
  BY <1>1 DEF IInv, FileIsTrue, KnowsAll
<1>4. CASE \A u \in Thread : u # t => ~Busy(u)
  <2>1. \A u \in Thread : u # t => pc[u] \notin Moving /\ pc[u] \notin Binding
    BY <1>4 DEF Busy, Moving, Binding
  <2>2. TrueFor(t)
    BY <1>3, <2>1 DEF TrueFor
  <2>3. TrueFor(t)'
    BY <1>0, <1>1, <2>2, OwnStep
  <2>4. \A u \in Thread : u # t => Knows(u)'
    BY <1>2, <1>4 DEF Busy, Knows, CopyIsTrue, Starts, Remaps, At
  <2> QED
    BY <2>3, <2>4 DEF TrueFor, FileIsTrue, KnowsAll
<1>5. CASE \E u \in Thread : u # t /\ Busy(u)
  <2>1. ~Busy(t)
    BY <1>1, <1>5 DEF IInv, MeetingsNoticed, Quiet
  <2>2. ~Busy(t)'
    BY <1>2, <1>5 DEF Meets, Quiet, Busy
  <2>3. UNCHANGED <<file, context, mapped>>
    BY <1>0, <2>1, LocalStep
  <2>4. \A u \in Thread : Knows(u)'
    <3> SUFFICES ASSUME NEW u \in Thread PROVE Knows(u)'
      OBVIOUS
    <3>1. CASE u = t
      BY <2>2, <3>1 DEF Busy, Knows, CopyIsTrue, Starts, Remaps, At
    <3>2. CASE u # t
      BY <1>2, <1>3, <2>3, <3>2
         DEF Knows, CopyIsTrue, IsTrue, TrueOfPort, TrueOfUser, Starts,
         Remaps, Left, Candidates, At
    <3> QED
      BY <3>1, <3>2
  <2>5. \A u \in Thread : /\ pc[u] \in Moving => pc'[u] \in Moving
                          /\ pc[u] \in Binding => pc'[u] \in Binding
    BY <1>2, <2>1 DEF Busy, Moving, Binding
  <2>6. /\ (\A u \in Thread : pc'[u] \notin Moving)  => TrueOfPort(file)'
        /\ (\A u \in Thread : pc'[u] \notin Binding) => TrueOfUser(file)'
    BY <1>3, <2>3, <2>5 DEF TrueOfPort, TrueOfUser
  <2> QED
    BY <2>4, <2>6 DEF FileIsTrue, KnowsAll
<1> QED
  BY <1>4, <1>5

LEMMA StepTrue == IInv /\ [Next]_vars => FileIsTrue' /\ KnowsAll'
<1> SUFFICES ASSUME IInv, [Next]_vars PROVE FileIsTrue' /\ KnowsAll'
  OBVIOUS
<1>1. ASSUME NEW t \in Thread, Moves(t), Meets PROVE FileIsTrue' /\ KnowsAll'
  BY <1>1, MoveTrue DEF FileIsTrue, KnowsAll
<1>2. CASE Restart
  <2>1. ~Quiet'
    BY <1>2 DEF Restart, Quiet, IInv, TypeOK, claim
  <2> QED
    BY <2>1 DEF FileIsTrue, KnowsAll
<1>3. CASE UNCHANGED <<file, context, threads, mapped>> /\ (Quiet' => Quiet)
  BY <1>3 DEF IInv, FileIsTrue, KnowsAll, Knows, CopyIsTrue, IsTrue, TrueOfPort, TrueOfUser,
     Starts, Remaps, Left, Candidates, At, threads
<1>4. ASSUME NEW w \in Wan, WanChanges(w), Meets
      PROVE  UNCHANGED <<file, context, threads, mapped>> /\ (Quiet' => Quiet)
  BY <1>4 DEF WanChanges, Quiet, Meets, claim
<1>5. ASSUME UNCHANGED vars
      PROVE  UNCHANGED <<file, context, threads, mapped>> /\ (Quiet' => Quiet)
  BY <1>5 DEF vars, threads, router, limits, Quiet, claim
<1>6. ASSUME TokenExpires \/ MasterTurns, Meets
      PROVE  UNCHANGED <<file, context, threads, mapped>> /\ (Quiet' => Quiet)
  BY <1>6 DEF TokenExpires, MasterTurns, Quiet, Meets, router
<1> QED
  BY <1>1, <1>2, <1>3, <1>4, <1>5, <1>6, Threads DEF Next, Works, Moves

(* The invariant holds of every state the node reaches.                    *)
THEOREM Invariance == Spec => []IInv
<1>1. IInv /\ [Next]_vars => IInv'
  BY StepTypes, StepFits, StepNoticed, StepTrue DEF IInv
<1> QED
  BY InitInv, <1>1, PTL DEF Spec

(* The state file, the threads, the router and the master hold what they   *)
(* are said to hold: an address and a port reach the master only together. *)
THEOREM TypeCorrect == Spec => []TypeOK
<1>1. IInv => TypeOK
  BY DEF IInv
<1> QED
  BY <1>1, Invariance, PTL

(* With one thread at work at a time and nothing failing, the file is true *)
(* whenever nobody works: of the port the router maps, and of the user the *)
(* node is bound to.                                                       *)
THEOREM QuietTells == Spec => []QuietStateTells
<1>1. IInv => QuietStateTells
  BY DEF IInv, FileIsTrue, QuietStateTells, TrueOfPort, TrueOfUser, Busy, Moving, Binding
<1> QED
  BY <1>1, Invariance, PTL

(* However many ports a remap tries, it leaves no mapping behind but the   *)
(* one it settles on, and takes none away that was not its to try.         *)
THEOREM RemapsCleanUp == Spec => []RemapCleansUp
<1>1. IInv => RemapCleansUp
  BY Threads DEF IInv, KnowsAll, Knows, Remaps, Left, RemapCleansUp, At
<1> QED
  BY <1>1, Invariance, PTL
=============================================================================
