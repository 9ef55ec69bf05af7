-------------------------------- MODULE NodeState --------------------------------
(***************************************************************************)
(* runtime_state.json of a node: its address, its public port, the state   *)
(* of its DNS claim and who signed in.  The start of the node, the probe   *)
(* after it, the claim loop, claims after a new address or a sign-in, and  *)
(* the handlers of /api/port and of the sign-in all load the whole file,   *)
(* change fields of their copy, often after a call that takes seconds, and *)
(* save the whole copy (port_manager.load_state, save_state): the lock     *)
(* covers the load and the replacement, not what lies between.             *)
(*                                                                         *)
(* What is outside: the router, which maps ports by UPnP, the master,      *)
(* which probes ports and takes or refuses claims (DnsMaster), and the     *)
(* user.  Of a token only its user and whether the master can verify it    *)
(* matter.  Fields kept for display, errors, times and the outcome of      *)
(* probes, are left out of the file; their writers are not: each of them   *)
(* writes all fields.                                                      *)
(***************************************************************************)
EXTENDS Naturals, FiniteSets

CONSTANTS
  Wan, Port, User,        \* addresses, ports, users
  ListenPort, FirstWan,   \* the port the node listens on; the first address
  Main, Prober, Loop,     \* threads: main, _probe_later, the claim loop,
  Claimer, Req,           \* claims out of turn, and requests
  None,
  TryLimit,               \* ports a remap tries: 34 in the code
  MeetLimit,              \* bounds on threads that work at the same time,
  DueLimit,               \* on claims out of turn that wait,
  RequestLimit,           \* on requests to /api/port and turns of the master,
  FaultLimit,             \* on failures and restarts,
  ChangeLimit             \* on new addresses and sign-ins at the master

Thread == {Main, Prober, Loop} \cup Claimer \cup Req

ASSUME NodeAssumption ==
  /\ ListenPort \in Port /\ FirstWan \in Wan
  /\ None \notin Wan \cup Port \cup User
  /\ Main # Prober /\ Main # Loop /\ Prober # Loop
  /\ ({Main, Prober, Loop} \cup Claimer) \cap Req = {}
  /\ {Main, Prober, Loop} \cap Claimer = {}
  /\ TryLimit \in Nat /\ MeetLimit \in Nat /\ DueLimit \in Nat
  /\ RequestLimit \in Nat /\ FaultLimit \in Nat /\ ChangeLimit \in Nat

State == [wan   : Wan \cup {None},
          port  : Port \cup {None},
          upnp  : {"unknown", "mapped", "failed", "manual"},
          dns   : {"idle", "ok", "error", "no_wan", "no_public_port"},
          stage : {"idle", "claiming", "need_auth", "need_wan", "ok", "error",
                   "need_public_port", "dns_pending"},
          sub   : User \cup {None}]

RuntimeState ==
  [wan |-> None, port |-> None, upnp |-> "unknown", dns |-> "idle",
   stage |-> "idle", sub |-> None]

Statement ==
  {"idle", "due", "boot", "map", "take", "sync", "serve", "replace", "mark",
   "post", "claimed", "refused", "probe", "check", "delete", "try",
   "reach", "rollback", "settle", "context", "bind", "spawn"}

(* What a thread holds: its copy of the file, the address save_state read  *)
(* before it writes, where it goes on after the save; the router's address *)
(* and the port in hand, the port a remap replaces, how many it has tried  *)
(* and, as history, what was mapped when it began; whose sign-in or claim  *)
(* it is, and the token of the claim.                                      *)
Locals == [st : State, old : Wan \cup {None}, back : Statement,
           seen : Wan \cup {None}, ext : Port \cup {None},
           prev : Port \cup {None}, tries : Nat, had : SUBSET Port,
           as : User \cup {None}, token : {"good", "bad"}]
Blank ==
  [st |-> RuntimeState, old |-> None, back |-> "idle", seen |-> None,
   ext |-> None, prev |-> None, tries |-> 0, had |-> {}, as |-> None,
   token |-> "bad"]

VARIABLES
  file,                 \* runtime_state.json
  context,              \* dns_claim.json: the user, None without the file
  welcome,              \* does the master take claims with that file: "no" while
                        \* the zone is full, the name another, Namecheap not set
                        \* up or nginx broken, "never" with a token that is split
                        \* or out of date
  due,                  \* claims out of turn that have been started
  pc, my,               \* the threads
  wan, mapped,          \* the router: its address, the ports it maps here
  record,               \* the master: where it says each user's node is
  overlapped,           \* history: have two threads been at the file at once?
  requests, faults, changes

claim   == <<context, welcome>>
threads == <<pc, my>>
router  == <<wan, mapped>>
limits  == <<requests, faults, changes>>
vars    == <<file, claim, due, threads, router, record, overlapped, limits>>

TypeOK ==
  /\ file \in State /\ context \in User \cup {None} /\ due \in 0..DueLimit
  /\ welcome \in {"yes", "no", "never"}
  /\ pc \in [Thread -> Statement] /\ my \in [Thread -> Locals]
  /\ wan \in Wan /\ mapped \in SUBSET Port
  /\ record \in [User -> (Wan \X Port) \cup {None}]
  /\ overlapped \in BOOLEAN
  /\ requests \in Nat /\ faults \in Nat /\ changes \in Nat

Start == [t \in Thread |-> CASE t = Main   -> "boot"
                             [] t = Prober -> "due"
                             [] OTHER      -> "idle"]

(* A node that was never started, behind a router.                         *)
Init ==
  /\ file = RuntimeState /\ context = None /\ welcome = "never" /\ due = 0
  /\ pc = Start /\ my = [t \in Thread |-> Blank]
  /\ wan = FirstWan /\ mapped = {}
  /\ record = [u \in User |-> None]
  /\ overlapped = FALSE
  /\ requests = 0 /\ faults = 0 /\ changes = 0

-----------------------------------------------------------------------------
(* Threads, load and save. *)
At(t, s)   == pc[t] = s
Goes(t, s) == pc' = [pc EXCEPT ![t] = s]
Ends(t)    == Goes(t, "idle") /\ my' = [my EXCEPT ![t] = Blank]

Busy(t) == pc[t] \notin {"idle", "due", "serve"}
Room    == Cardinality({t \in Thread : Busy(t)}) < MeetLimit

(* The background threads are started before the stage is first computed.  *)
Started == At(Main, "sync") \/ At(Main, "serve") \/ my[Main].back = "serve"

(* save_state(s), then statement b.  The address in the file is read       *)
(* before the lock is taken.                                               *)
Saves(t, s, b) ==
  /\ Goes(t, "replace")
  /\ my' = [my EXCEPT ![t] = [@ EXCEPT !.st = s, !.old = file.wan, !.back = b]]

(* A thread for try_claim_once; those that wait are all alike.             *)
OneMoreDue == IF due < DueLimit THEN due + 1 ELSE due

(* The file is replaced, and an address that is new is claimed at once:    *)
(* new to the file as it was when the save began or, when the read came    *)
(* late, as it is now.                                                     *)
Replace(t) ==
  LET s == my[t].st IN
  /\ At(t, "replace")
  /\ file' = s
  /\ \E old \in {my[t].old, file.wan} :
       due' = IF s.wan \notin {None, old} /\ context # None
              THEN OneMoreDue ELSE due
  /\ Goes(t, my[t].back)
  /\ my' = [my EXCEPT ![t] =
       IF @.back \in {"idle", "serve"} THEN Blank
       ELSE [@ EXCEPT !.st = RuntimeState, !.old = None, !.back = "idle"]]
  /\ UNCHANGED <<claim, router, record, limits>>

(* The disk is full, or another thread has the file open on Windows: the   *)
(* thread gives up.  In main it ends the process, see Restart.             *)
ReplaceFails(t) ==
  /\ At(t, "replace") /\ t # Main
  /\ faults < FaultLimit
  /\ faults' = faults + 1
  /\ Ends(t)
  /\ UNCHANGED <<file, claim, due, router, record, requests, changes>>

-----------------------------------------------------------------------------
(* The router. *)

(* try_upnp_mapping for port p: no router found or rejected, or mapped.    *)
Rejects == UNCHANGED router
Accepts(p) == mapped' = mapped \cup {p} /\ UNCHANGED wan

(* Fields set from the result of try_upnp_mapping: what was not found out  *)
(* stays as it was.                                                        *)
Mapped(s, w) == [s EXCEPT !.upnp = "mapped", !.port = ListenPort, !.wan = w]
Unmapped(s)  == [s EXCEPT !.upnp = "failed"]

(* try_delete_portmapping, whose result nobody looks at.                   *)
Deletes(p) ==
  /\ UNCHANGED wan
  /\ \/ mapped' = mapped \ {p} /\ UNCHANGED faults
     \/ /\ faults < FaultLimit
        /\ faults' = faults + 1
        /\ UNCHANGED mapped

-----------------------------------------------------------------------------
(* The claim. *)

(* _compute_pipeline_stage when no claim is under way.                     *)
Stage(c, s) ==
  CASE c = None                   -> "need_auth"
    [] c # None /\ s.wan = None   -> "need_wan"
    [] OTHER -> CASE s.dns = "no_public_port" -> "need_public_port"
                  [] s.dns \in {"ok", "error"} -> s.dns
                  [] s.dns = "no_wan"          -> "need_wan"
                  [] OTHER                     -> "dns_pending"

Staged(s) == [s EXCEPT !.stage = Stage(context, s)]

(* try_claim_once up to its first save: without an address or a port there *)
(* is nothing to claim.                                                    *)
Considers(t) ==
  IF file.wan # None /\ file.port # None
  THEN /\ Goes(t, "mark")
       /\ my' = [my EXCEPT ![t] = [@ EXCEPT
                    !.seen = file.wan, !.ext = file.port, !.as = context,
                    !.token = IF welcome = "never" THEN "bad" ELSE "good"]]
  ELSE Saves(t, Staged([file EXCEPT !.dns =
                   IF file.wan = None THEN "no_wan" ELSE "no_public_port"]),
             "idle")

(* Mutant: a claim that went well is not repeated.                         *)
LoopClaimsOnce ==
  /\ At(Loop, "idle") /\ Started /\ Room /\ context # None
  /\ file.dns # "ok"
  /\ Considers(Loop)
  /\ UNCHANGED <<file, claim, due, router, record, limits>>

(* Every 75 s, whatever the last claim brought.                            *)
LoopClaims ==
  /\ At(Loop, "idle") /\ Started /\ Room /\ context # None
  /\ Considers(Loop)
  /\ UNCHANGED <<file, claim, due, router, record, limits>>

DueClaims(t) ==
  /\ t \in Claimer /\ At(t, "idle") /\ Room /\ due > 0
  /\ due' = due - 1
  /\ Considers(t)
  /\ UNCHANGED <<file, claim, router, record, limits>>

Mark(t) ==
  /\ At(t, "mark")
  /\ Saves(t, [file EXCEPT !.stage = "claiming"], "post")
  /\ UNCHANGED <<file, claim, due, router, record, limits>>

Recorded(t) == [record EXCEPT ![my[t].as] = <<my[t].seen, my[t].ext>>]

(* The master takes the claim and says so.                                 *)
Post(t) ==
  /\ At(t, "post")
  /\ my[t].token = "good" /\ welcome # "no"
  /\ record' = Recorded(t)
  /\ Goes(t, "claimed")
  /\ UNCHANGED <<file, claim, due, my, router, limits>>

(* An error status: the token was bad when it was read or has expired      *)
(* since (401), or the master refuses claims for now, perhaps only after   *)
(* it noted this one, when nginx does not take the map.  Nothing renews a  *)
(* token but another sign-in.                                              *)
Refused(t) ==
  /\ At(t, "post")
  /\ my[t].token = "bad" \/ welcome # "yes"
  /\ \/ record' = record
     \/ my[t].token = "good" /\ welcome = "no" /\ record' = Recorded(t)
  /\ Goes(t, "refused")
  /\ UNCHANGED <<file, claim, due, my, router, limits>>

(* The claim does not arrive, or its answer takes over 45 s.               *)
PostFails(t) ==
  /\ At(t, "post")
  /\ faults < FaultLimit
  /\ faults' = faults + 1
  /\ record' \in {record, Recorded(t)}
  /\ Goes(t, "refused")
  /\ UNCHANGED <<file, claim, due, my, router, requests, changes>>

(* Mutant: the error of the master becomes the status.                     *)
ApplyText(t) ==
  /\ At(t, "claimed") \/ At(t, "refused")
  /\ Saves(t, Staged([file EXCEPT !.dns =
                 IF At(t, "claimed") THEN "ok" ELSE "refused"]), "idle")
  /\ UNCHANGED <<file, claim, due, router, record, limits>>

(* _apply_dns_result goes into the file as it is by now.                   *)
Apply(t) ==
  /\ At(t, "claimed") \/ At(t, "refused")
  /\ Saves(t, Staged([file EXCEPT !.dns =
                 IF At(t, "claimed") THEN "ok" ELSE "error"]), "idle")
  /\ UNCHANGED <<file, claim, due, router, record, limits>>

-----------------------------------------------------------------------------
(* The start of the node: the file is written afresh, the listening port   *)
(* is mapped, the other threads are started.                               *)
Boot ==
  /\ At(Main, "boot")
  /\ Saves(Main, RuntimeState, "map")
  /\ UNCHANGED <<file, claim, due, router, record, limits>>

BootMaps ==
  /\ At(Main, "map")
  /\ Goes(Main, "take")
  /\ \/ Rejects /\ UNCHANGED my
     \/ Accepts(ListenPort) /\ my' = [my EXCEPT ![Main].seen = wan]
  /\ UNCHANGED <<file, claim, due, record, limits>>

BootTakes ==
  /\ At(Main, "take")
  /\ Saves(Main, IF my[Main].seen = None THEN Unmapped(file)
                 ELSE Mapped(file, my[Main].seen), "sync")
  /\ UNCHANGED <<file, claim, due, router, record, limits>>

(* sync_dns_pipeline_stage, then the node serves. *)
BootSyncs ==
  /\ At(Main, "sync")
  /\ Saves(Main, Staged(file), "serve")
  /\ UNCHANGED <<file, claim, due, router, record, limits>>

(* A probe needs an address and a port; the copy it will save is taken     *)
(* before the master is asked.                                             *)
ToProbe(t) ==
  /\ Goes(t, "probe")
  /\ my' = [my EXCEPT ![t].st = file]

ProbeLater ==
  /\ At(Prober, "due") /\ Started /\ Room
  /\ IF file.wan # None /\ file.port # None THEN ToProbe(Prober) ELSE Ends(Prober)
  /\ UNCHANGED <<file, claim, due, router, record, limits>>

Probed(t) ==
  /\ At(t, "probe")
  /\ Saves(t, my[t].st, "idle")
  /\ UNCHANGED <<file, claim, due, router, record, limits>>

-----------------------------------------------------------------------------
(* /api/port. *)
Enters(r) ==
  /\ At(Main, "serve") /\ At(r, "idle") /\ Room
  /\ UNCHANGED <<file, claim, due, router, record, faults>>

Enter(r) ==
  /\ Enters(r)
  /\ requests < RequestLimit
  /\ requests' = requests + 1
  /\ UNCHANGED changes

Probe(r) ==
  /\ file.wan # None /\ file.port # None
  /\ ToProbe(r)
  /\ Enter(r)

(* upnp: the copy is taken before the router is asked. *)
Upnp(r) ==
  /\ Goes(r, "map")
  /\ my' = [my EXCEPT ![r].st = file]
  /\ Enter(r)

UpnpMaps(r) ==
  /\ r \in Req /\ At(r, "map")
  /\ \/ Rejects /\ Saves(r, Unmapped(my[r].st), "idle")
     \/ Accepts(ListenPort) /\ Saves(r, Mapped(my[r].st, wan), "idle")
  /\ UNCHANGED <<file, claim, due, record, limits>>

(* manual: a port, None to forget it, and perhaps an address; what is then *)
(* known is saved and probed.                                              *)
Manual(r, p, w) ==
  LET s == [file EXCEPT !.port = p, !.upnp = "manual",
                        !.wan = IF w = None THEN @ ELSE w] IN
  /\ Saves(r, s, IF s.wan # None /\ s.port # None THEN "check" ELSE "idle")
  /\ Enter(r)

Check(r) ==
  /\ At(r, "check")
  /\ Saves(r, file, "idle")
  /\ UNCHANGED <<file, claim, due, router, record, limits>>

(* upnp-remap: the previous port is given up first, then others are tried  *)
(* until one is mapped and the master reaches it.                          *)
Remap(r) ==
  /\ Goes(r, IF file.port = None THEN "try" ELSE "delete")
  /\ my' = [my EXCEPT ![r] = [@ EXCEPT !.prev = file.port, !.had = mapped]]
  /\ Enter(r)

DeletePrevious(r) ==
  /\ At(r, "delete")
  /\ Deletes(my[r].prev)
  /\ Goes(r, "try")
  /\ UNCHANGED <<file, claim, due, my, record, requests, changes>>

(* Ports drawn at random, the one it listens on and the previous one never. *)
Candidates(r) == Port \ {ListenPort, my[r].prev}

Try(r, p) ==
  /\ At(r, "try") /\ my[r].tries < TryLimit
  /\ p \in Candidates(r)
  /\ \/ /\ Rejects
        /\ my' = [my EXCEPT ![r].tries = @ + 1]
        /\ UNCHANGED pc
     \/ /\ Accepts(p)
        /\ my' = [my EXCEPT ![r] = [@ EXCEPT !.ext = p, !.seen = wan]]
        /\ Goes(r, "reach")
  /\ UNCHANGED <<file, claim, due, record, limits>>

Reach(r) ==
  /\ At(r, "reach")
  /\ Goes(r, "settle") \/ Goes(r, "rollback")
  /\ UNCHANGED <<file, claim, due, my, router, record, limits>>

(* Mutant: a port that is not reached stays mapped.                        *)
RollBackByHand(r) ==
  /\ At(r, "rollback")
  /\ my' = [my EXCEPT ![r] = [@ EXCEPT !.ext = None, !.seen = None,
                                       !.tries = my[r].tries + 1]]
  /\ Goes(r, "try")
  /\ UNCHANGED <<file, claim, due, router, record, limits>>

RollBack(r) ==
  /\ At(r, "rollback")
  /\ Deletes(my[r].ext)
  /\ my' = [my EXCEPT ![r] = [@ EXCEPT !.ext = None, !.seen = None,
                                       !.tries = my[r].tries + 1]]
  /\ Goes(r, "try")
  /\ UNCHANGED <<file, claim, due, record, requests, changes>>

Exhausted(r) ==
  /\ At(r, "try") /\ my[r].tries = TryLimit
  /\ Goes(r, "settle")
  /\ UNCHANGED <<file, claim, due, my, router, record, limits>>

(* Mutant: a remap that finds no port leaves the state as it was.          *)
SettledIfMapped(r, s) ==
  IF my[r].ext = None
  THEN s
  ELSE [s EXCEPT !.port = my[r].ext, !.wan = my[r].seen, !.upnp = "mapped"]

(* The result goes into the file as it is by now.                          *)
Settled(r, s) ==
  IF my[r].ext = None
  THEN [s EXCEPT !.port = None, !.upnp = "failed"]
  ELSE [s EXCEPT !.port = my[r].ext, !.wan = my[r].seen, !.upnp = "mapped"]

Settle(r) ==
  /\ At(r, "settle")
  /\ Saves(r, Settled(r, file), "idle")
  /\ UNCHANGED <<file, claim, due, router, record, limits>>

-----------------------------------------------------------------------------
(* Sign-in. *)

(* The master comes to refuse, or to take, claims made with what is in     *)
(* dns_claim.json; counted with the requests.                              *)
Turn == requests < RequestLimit /\ requests' = requests + 1

(* The redeem code that u brings from the master is exchanged for a token; *)
(* when that fails, or the code is spent, nothing happens.                 *)
SignIn(r, u) ==
  /\ changes < ChangeLimit
  /\ changes' = changes + 1
  /\ my' = [my EXCEPT ![r].as = u]
  /\ Goes(r, "context")
  /\ Enters(r) /\ UNCHANGED requests

(* save_claim_context writes dns_claim.json, then the runtime state.  The  *)
(* token may be one the master will never verify (session.py:20, 27).      *)
SaveContext(r) ==
  /\ At(r, "context")
  /\ context' = my[r].as
  /\ \/ welcome' = "yes" /\ UNCHANGED requests
     \/ welcome' = "never" /\ Turn
  /\ Goes(r, "bind")
  /\ UNCHANGED <<file, due, my, router, record, faults, changes>>

Bind(r) ==
  /\ At(r, "bind")
  /\ Saves(r, Staged([file EXCEPT !.sub = my[r].as]), "spawn")
  /\ UNCHANGED <<file, claim, due, router, record, limits>>

Spawn(r) ==
  /\ At(r, "spawn")
  /\ due' = OneMoreDue
  /\ Ends(r)
  /\ UNCHANGED <<file, claim, router, record, limits>>

-----------------------------------------------------------------------------
Restart ==
  /\ faults < FaultLimit
  /\ faults' = faults + 1
  /\ pc' = Start /\ my' = [t \in Thread |-> Blank] /\ due' = 0
  /\ UNCHANGED <<file, claim, router, record, requests, changes>>

(* Seven days after the sign-in (session.py:11).                           *)
TokenExpires ==
  /\ welcome # "never" /\ Turn
  /\ welcome' = "never"
  /\ UNCHANGED <<file, context, due, threads, router, record, faults, changes>>

(* The master refuses what it took until now, or takes it again.           *)
MasterTurns ==
  /\ welcome # "never" /\ Turn
  /\ welcome' = IF welcome = "yes" THEN "no" ELSE "yes"
  /\ UNCHANGED <<file, context, due, threads, router, record, faults, changes>>

(* The provider gives the router another address.                          *)
WanChanges(w) ==
  /\ changes < ChangeLimit
  /\ changes' = changes + 1
  /\ wan # w /\ wan' = w
  /\ UNCHANGED <<file, claim, due, threads, mapped, record, requests, faults>>

Asked(r) ==
  \/ Probe(r) \/ Upnp(r) \/ Remap(r)
  \/ \E p \in Port \cup {None}, w \in Wan \cup {None} : Manual(r, p, w)
  \/ \E u \in User : SignIn(r, u)

Proceeds(t) ==
  \/ Replace(t)
  \/ Mark(t) \/ Post(t) \/ Refused(t) \/ Apply(t) \/ DueClaims(t)
  \/ t = Loop   /\ LoopClaims
  \/ t = Main   /\ (Boot \/ BootMaps \/ BootTakes \/ BootSyncs)
  \/ t = Prober /\ ProbeLater
  \/ Probed(t) \/ UpnpMaps(t) \/ Check(t)
  \/ DeletePrevious(t) \/ \E p \in Port : Try(t, p)
  \/ Reach(t) \/ RollBack(t) \/ Exhausted(t) \/ Settle(t)
  \/ SaveContext(t) \/ Bind(t) \/ Spawn(t)

(* History: two threads between the first statement and the last.          *)
Meets ==
  overlapped' = (overlapped \/ \E t, u \in Thread : t # u /\ Busy(t)' /\ Busy(u)')

Works(t) == Proceeds(t) /\ Meets

Next ==
  \/ \E t \in Thread : Works(t)
  \/ /\ \/ \E t \in Thread : ReplaceFails(t) \/ PostFails(t)
        \/ \E r \in Req : Asked(r)
        \/ Restart \/ TokenExpires \/ MasterTurns
        \/ \E w \in Wan : WanChanges(w)
     /\ Meets

(* Every thread runs on, and the claim loop never ends.                    *)
Fairness == \A t \in Thread : WF_vars(Works(t))

Spec     == Init /\ [][Next]_vars
FairSpec == Spec /\ Fairness

-----------------------------------------------------------------------------
(* Properties. *)

Quiet == faults = 0 /\ ~overlapped

(* While no two threads have met and nothing failed, the file is true when *)
(* nobody works: a port called mapped is mapped by the router, and once    *)
(* somebody signed in the node knows whom it is bound to, until a restart  *)
(* writes the file afresh (node/main.py:1468).                             *)
QuietStateTells ==
  Quiet /\ (\A t \in Thread : ~Busy(t)) =>
    /\ file.upnp = "mapped" => file.port \in mapped
    /\ context # None => file.sub = context

(* While nothing failed and no two threads have met: the port a remap      *)
(* settles on is mapped, the one it gave up is not, and of those it tried  *)
(* in between none is that was not mapped before it came                   *)
(* (port_manager.py:298-365).  What it may not try it leaves alone.        *)
RemapCleansUp ==
  \A r \in Req : At(r, "settle") /\ Quiet =>
    /\ {my[r].ext} \ {None} \subseteq mapped
    /\ mapped \subseteq (my[r].had \ {my[r].prev}) \cup {my[r].ext}
    /\ (my[r].had \ {my[r].prev}) \ Candidates(r) \subseteq mapped

(* What there is to claim, and all that a claim depends on.                *)
Claimable == context # None /\ file.wan # None /\ file.port # None
Claims    == <<context, file.wan, file.port, welcome>>

(* Whatever threads overwrite, lose and repeat, and wherever the node was  *)
(* restarted: once user, address and port stay what they are, and the      *)
(* master goes on taking claims, it ends up with them and the node keeps   *)
(* reporting so (dns_claim_node.py:222, a claim every 75 s from a file     *)
(* that is not part of the state).  Where the master goes on refusing them *)
(* the node ends up saying so, and never again that it is published.       *)
ClaimSettles ==
  <>[][FALSE]_Claims =>
    /\ <>[](Claimable /\ welcome = "yes" =>
              record[context] = <<file.wan, file.port>>)
    /\ []<>(Claimable /\ welcome = "yes" => file.dns = "ok" /\ file.stage = "ok")
    /\ <>[](Claimable /\ welcome # "yes" => file.dns = "error")
=============================================================================
