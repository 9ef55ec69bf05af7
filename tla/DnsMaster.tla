-------------------------------- MODULE DnsMaster --------------------------------
(***************************************************************************)
(* The master gives a user's name an address.  A node that claims its      *)
(* subdomain (POST /api/dns/v1/claim-subdomain, again every 75 s), or a    *)
(* user who signs in without one (ensure_hosted_subdomain_after_oauth),    *)
(* goes through the same steps: an A record in the zone at Namecheap, a    *)
(* binding in dns_bindings.json, the map file of nginx, a reload.  The     *)
(* requests run in the threads of waitress.  Only the binding is changed   *)
(* under a lock: the zone is read as a whole and written as a whole, and   *)
(* the map is built in one shared temporary file.                          *)
(*                                                                         *)
(* A label stands for its user: labels are taken to be distinct.  Every A  *)
(* record points to the one ingress, so a record is its name.  A backend   *)
(* is an address and port of a node, or Hosted, the master itself.         *)
(***************************************************************************)
EXTENDS Naturals, FiniteSets

CONSTANTS
  User, Addr, Req,      \* users, addresses of nodes, threads of the master
  Hosted, None,         \* the backend on the master; no backend
  Other,                \* records of the zone that belong to no user
  MaxHosts,             \* 50 in the code
  Mixed, Absent,        \* contents of a file: no valid map; there is no file
  MoveLimit,            \* bound on moves of nodes
  UpsetLimit            \* bound on sign-ins, failures and restarts together

ASSUME DnsAssumption ==
  /\ {Hosted, None} \cap Addr = {} /\ Hosted # None /\ None \notin User
  /\ Other \cap User = {}
  /\ {MaxHosts, MoveLimit, UpsetLimit} \subseteq Nat

Backend == Addr \cup {Hosted, None}
Map     == [User -> Backend]
Empty   == [u \in User |-> None]

ASSUME FileAssumption == Mixed # Absent /\ {Mixed, Absent} \cap Map = {}

VARIABLES
  addr,                 \* where the node of each user is
  zone,                 \* names with a record at Namecheap
  bindings,             \* dns_bindings.json
  tmp, map,             \* the map's temporary file and the map file
  pending, loaded,      \* nginx: told to reload; the map it serves
  pc, who, to,          \* a request: its next statement, user and backend,
  seen, body, fd,       \* records read, map to write, the file it has open
  alone,                \* history: has it met no other request?
  overlapped,           \* history: have two requests ever met?
  moves, upsets

request == <<pc, who, to, seen, body, fd, alone, overlapped>>
files   == <<tmp, map>>
nginx   == <<pending, loaded>>
limits  == <<moves, upsets>>
vars    == <<addr, zone, bindings, files, nginx, request, limits>>

Statement == {"idle", "getHosts", "setHosts", "upsert", "load", "open",
              "write", "replace", "test", "reload", "ok"}

TypeOK ==
  /\ addr \in [User -> Addr \cup {None}]
  /\ zone \in SUBSET (User \cup Other)
  /\ bindings \in Map /\ loaded \in Map /\ pending \in BOOLEAN
  /\ tmp \in Map \cup {Mixed, Absent} /\ map \in Map \cup {Mixed}
  /\ pc \in [Req -> Statement]
  /\ who \in [Req -> User \cup {None}] /\ to \in [Req -> Backend]
  /\ seen \in [Req -> SUBSET (User \cup Other)]
  /\ body \in [Req -> Map]
  /\ fd \in [Req -> {"none", "tmp", "map", "gone"}]
  /\ alone \in [Req -> BOOLEAN] /\ overlapped \in BOOLEAN
  /\ moves \in Nat /\ upsets \in Nat

(* A master that has bound nobody yet, beside any records of the zone.     *)
Init ==
  /\ addr = [u \in User |-> None]
  /\ zone \in SUBSET Other
  /\ bindings = Empty /\ loaded = Empty /\ pending = FALSE
  /\ tmp = Absent /\ map = Empty
  /\ pc = [r \in Req |-> "idle"]
  /\ who = [r \in Req |-> None]
  /\ to = [r \in Req |-> None]
  /\ seen = [r \in Req |-> {}] /\ body = [r \in Req |-> Empty]
  /\ fd = [r \in Req |-> "none"]
  /\ alone = [r \in Req |-> TRUE] /\ overlapped = FALSE
  /\ moves = 0 /\ upsets = 0

-----------------------------------------------------------------------------
(* Requests. *)
Idle(r) == pc[r] = "idle"

Goes(r, s) == pc' = [pc EXCEPT ![r] = s]

(* The end of a request; what its locals held no longer matters.           *)
Ends(r) ==
  /\ Goes(r, "idle")
  /\ who' = [who EXCEPT ![r] = None]
  /\ to' = [to EXCEPT ![r] = None]
  /\ seen' = [seen EXCEPT ![r] = {}]
  /\ body' = [body EXCEPT ![r] = Empty]
  /\ fd' = [fd EXCEPT ![r] = "none"]
  /\ alone' = [alone EXCEPT ![r] = TRUE]
  /\ UNCHANGED overlapped

(* The binding is read once: when it is what the request asks for, the     *)
(* zone is left alone.                                                     *)
Enter(r, u, b) ==
  LET free == \A q \in Req : Idle(q) IN
  /\ Idle(r)
  /\ Goes(r, IF bindings[u] = b THEN "upsert" ELSE "getHosts")
  /\ who' = [who EXCEPT ![r] = u]
  /\ to' = [to EXCEPT ![r] = b]
  /\ alone' = [q \in Req |-> IF q = r THEN free ELSE Idle(q)]
  /\ overlapped' = (overlapped \/ ~free)
  /\ UNCHANGED <<seen, body, fd>>

(* The node sends the address it has; by the time the request ends it may  *)
(* have another, and may have claimed again after its 45 s.                *)
Claim(r, u) ==
  /\ addr[u] # None
  /\ Enter(r, u, addr[u])
  /\ UNCHANGED <<addr, zone, bindings, files, nginx, limits>>

Upset == upsets < UpsetLimit /\ upsets' = upsets + 1

(* Mutant: a sign-in does not look at the binding.                         *)
SignInAlways(r, u) ==
  /\ Upset
  /\ Enter(r, u, Hosted)
  /\ UNCHANGED <<addr, zone, bindings, files, nginx, moves>>

(* A user whose name is bound to a node is left alone.                     *)
SignIn(r, u) ==
  /\ Upset
  /\ bindings[u] \notin Addr
  /\ Enter(r, u, Hosted)
  /\ UNCHANGED <<addr, zone, bindings, files, nginx, moves>>

-----------------------------------------------------------------------------
(* set_hosts_merged: two calls of Namecheap. *)
GetHosts(r) ==
  /\ pc[r] = "getHosts"
  /\ seen' = [seen EXCEPT ![r] = zone]
  /\ Goes(r, "setHosts")
  /\ UNCHANGED <<addr, zone, bindings, files, nginx, who, to, body, fd, alone,
                 overlapped, limits>>

(* Mutant: the zone is replaced by the one record.                         *)
MergedAlone(r) == {who[r]}

Merged(r) == seen[r] \cup {who[r]}

SetHosts(r) ==
  /\ pc[r] = "setHosts"
  /\ Cardinality(Merged(r)) <= MaxHosts
  /\ zone' = Merged(r)
  /\ seen' = [seen EXCEPT ![r] = {}]
  /\ Goes(r, "upsert")
  /\ UNCHANGED <<addr, bindings, files, nginx, who, to, body, fd, alone,
                 overlapped, limits>>

TooManyHosts(r) ==
  /\ pc[r] = "setHosts"
  /\ Cardinality(Merged(r)) > MaxHosts
  /\ Ends(r)
  /\ UNCHANGED <<addr, zone, bindings, files, nginx, limits>>

-----------------------------------------------------------------------------
(* dns_registry.upsert_binding: load, change and save under the lock. *)
Bound(r) == [bindings EXCEPT ![who[r]] = to[r]]

Upsert(r) ==
  /\ pc[r] = "upsert"
  /\ bindings' = Bound(r)
  /\ Goes(r, "load")
  /\ UNCHANGED <<addr, zone, files, nginx, who, to, seen, body, fd, alone,
                 overlapped, limits>>

-----------------------------------------------------------------------------
(* nginx_ingress.rebuild_map_and_reload. *)
(* Mutant: the old map is amended instead of made anew.                    *)
AmendMap(r) ==
  /\ pc[r] = "load"
  /\ body' = [body EXCEPT ![r] =
       [(IF map = Mixed THEN bindings ELSE map) EXCEPT ![who[r]] = to[r]]]
  /\ Goes(r, "open")
  /\ UNCHANGED <<addr, zone, bindings, files, nginx, who, to, seen, fd, alone,
                 overlapped, limits>>

LoadBindings(r) ==
  /\ pc[r] = "load"
  /\ body' = [body EXCEPT ![r] = bindings]
  /\ Goes(r, "open")
  /\ UNCHANGED <<addr, zone, bindings, files, nginx, who, to, seen, fd, alone,
                 overlapped, limits>>

(* Opening for writing truncates the file, also one another request writes.*)
OpenTmp(r) ==
  /\ pc[r] = "open"
  /\ tmp' = Empty
  /\ fd' = [fd EXCEPT ![r] = "tmp"]
  /\ Goes(r, "write")
  /\ UNCHANGED <<addr, zone, bindings, map, nginx, who, to, seen, body, alone,
                 overlapped, limits>>

(* The lines go to the start of the file: of a longer content the tail     *)
(* stays, as lines of users not yet in the new one, or as no valid map.    *)
Written(old, new) ==
  IF old \in {Empty, new} THEN {new}
  ELSE {new, Mixed} \cup
       {f \in Map : old # Mixed /\ \A u \in User :
                      f[u] = new[u] \/ (new[u] = None /\ f[u] = old[u])}

(* The file opened as tmp may have become the map meanwhile, or have been  *)
(* replaced as the map.                                                    *)
WriteTmp(r) ==
  /\ pc[r] = "write"
  /\ tmp' \in IF fd[r] = "tmp" THEN Written(tmp, body[r]) ELSE {tmp}
  /\ map' \in IF fd[r] = "map" THEN Written(map, body[r]) ELSE {map}
  /\ fd' = [fd EXCEPT ![r] = "none"]
  /\ body' = [body EXCEPT ![r] = Empty]
  /\ Goes(r, "replace")
  /\ UNCHANGED <<addr, zone, bindings, nginx, who, to, seen, alone,
                 overlapped, limits>>

(* Mutant: without a temporary file the map is removed.                    *)
ReplaceUnchecked(r) ==
  /\ pc[r] = "replace"
  /\ map' = tmp
  /\ tmp' = Absent
  /\ fd' = [q \in Req |-> IF fd[q] = "none" THEN "none" ELSE "gone"]
  /\ Goes(r, "test")
  /\ UNCHANGED <<addr, zone, bindings, nginx, who, to, seen, body, alone,
                 overlapped, limits>>

ReplaceMap(r) ==
  /\ pc[r] = "replace"
  /\ tmp # Absent
  /\ map' = tmp
  /\ tmp' = Absent
  /\ fd' = [q \in Req |-> CASE fd[q] = "tmp" -> "map"
                            [] fd[q] = "map" -> "gone"
                            [] OTHER -> fd[q]]
  /\ Goes(r, "test")
  /\ UNCHANGED <<addr, zone, bindings, nginx, who, to, seen, body, alone,
                 overlapped, limits>>

(* OSError: another request has taken the file.                            *)
ReplaceFails(r) ==
  /\ pc[r] = "replace"
  /\ tmp = Absent
  /\ Ends(r)
  /\ UNCHANGED <<addr, zone, bindings, files, nginx, limits>>

(* nginx -t. *)
TestMap(r) ==
  /\ pc[r] = "test"
  /\ IF map = Mixed THEN Ends(r)
                    ELSE Goes(r, "reload")
                         /\ UNCHANGED <<who, to, seen, body, fd, alone, overlapped>>
  /\ UNCHANGED <<addr, zone, bindings, files, nginx, limits>>

(* nginx -s reload sends a signal.                                         *)
Reload(r) ==
  /\ pc[r] = "reload"
  /\ pending' = TRUE
  /\ Goes(r, "ok")
  /\ UNCHANGED <<addr, zone, bindings, files, loaded, who, to, seen, body, fd,
                 alone, overlapped, limits>>

Answer(r) ==
  /\ pc[r] = "ok"
  /\ Ends(r)
  /\ UNCHANGED <<addr, zone, bindings, files, nginx, limits>>

-----------------------------------------------------------------------------
(* Failures and the environment. *)
(* A call or statement raises, or nginx reports an error: the request ends *)
(* with 502 or 500.  Namecheap may have done what it failed to answer.     *)
Fails(r) ==
  /\ ~Idle(r) /\ pc[r] # "ok"
  /\ Upset
  /\ zone' \in {zone} \cup
       {z \in {Merged(r)} : pc[r] = "setHosts" /\ Cardinality(z) <= MaxHosts}
  /\ Ends(r)
  /\ UNCHANGED <<addr, bindings, files, nginx, moves>>

(* The master is killed and started again; nginx goes on.                  *)
Restart ==
  /\ Upset
  /\ \E r \in Req : ~Idle(r)
  /\ pc' = [r \in Req |-> "idle"]
  /\ who' = [r \in Req |-> None] /\ to' = [r \in Req |-> None]
  /\ seen' = [r \in Req |-> {}] /\ body' = [r \in Req |-> Empty]
  /\ fd' = [r \in Req |-> "none"] /\ alone' = [r \in Req |-> TRUE]
  /\ UNCHANGED <<addr, zone, bindings, files, nginx, overlapped, moves>>

(* nginx keeps the map it has when it cannot parse the new one.            *)
NginxReloads ==
  /\ pending
  /\ pending' = FALSE
  /\ loaded' = IF map = Mixed THEN loaded ELSE map
  /\ UNCHANGED <<addr, zone, bindings, files, request, limits>>

(* The node of u starts, or its WAN address or public port changes.        *)
Moves(u, a) ==
  /\ moves < MoveLimit
  /\ moves' = moves + 1
  /\ addr[u] # a
  /\ addr' = [addr EXCEPT ![u] = a]
  /\ UNCHANGED <<zone, bindings, files, nginx, request, upsets>>

ReqStep(r) ==
  \/ \E u \in User : Claim(r, u) \/ SignIn(r, u)
  \/ GetHosts(r) \/ SetHosts(r) \/ TooManyHosts(r)
  \/ Upsert(r) \/ LoadBindings(r) \/ OpenTmp(r) \/ WriteTmp(r)
  \/ ReplaceMap(r) \/ ReplaceFails(r) \/ TestMap(r) \/ Reload(r) \/ Answer(r)
  \/ Fails(r)

Next ==
  \/ \E r \in Req : ReqStep(r)
  \/ Restart \/ NginxReloads
  \/ \E u \in User, a \in Addr : Moves(u, a)

Spec == Init /\ [][Next]_vars

-----------------------------------------------------------------------------
(* Properties. *)

(* The binding is written after the record, and only a request that meets  *)
(* another can lose a record: until two have met, every bound name has its *)
(* record in the zone, also when requests fail or die anywhere.            *)
BoundHasRecord ==
  \A u \in User : bindings[u] # None => u \in zone \/ overlapped

(* A request that met no other and answers ok has done all it says: its    *)
(* user is bound to what it asked for and, once nginx has reloaded, every  *)
(* user is served where dns_bindings.json says, whatever earlier requests  *)
(* left in the two files and in nginx.                                     *)
QuietRequestServes ==
  \A r \in Req : pc[r] = "ok" /\ alone[r] =>
    /\ bindings[who[r]] = to[r]
    /\ ~pending => loaded = bindings

(* Whatever requests meet, a name once bound stays bound: the registry     *)
(* forgets nobody (dns_registry._lock).  And a user bound to a node is not *)
(* sent back to the page on the master, but by a sign-in that read the     *)
(* binding before another request wrote it (hosted_subdomain.py:74).       *)
BindingsKept ==
  [][\A u \in User :
       /\ bindings[u] # None => bindings'[u] # None
       /\ bindings[u] \in Addr /\ bindings'[u] \notin Addr =>
            \E r \in Req : pc[r] = "upsert" /\ who[r] = u /\ ~alone[r]]_bindings

(* The records of the zone that belong to no user survive every request,   *)
(* and those of users every request that met no other.                     *)
RecordsSurvive ==
  [][/\ zone \cap Other \subseteq zone'
     /\ zone \subseteq zone' \/ \E r \in Req : pc[r] = "setHosts" /\ ~alone[r]]_zone

(* No step takes a binding or a record away, but where requests meet.      *)
NothingTakenAway == []BoundHasRecord /\ BindingsKept /\ RecordsSurvive

(* libs/dns/namecheap_api.py:97: "the other records are kept".             *)
OthersKept == [][zone \subseteq zone']_zone
=============================================================================
