------------------------------ MODULE MasterProofs ------------------------------
(***************************************************************************)
(* What holds of the master for any number of users, requests, shares and  *)
(* publications, of failures and restarts: the claims of names, then the   *)
(* publications, then both beside the sign-ins that OAuthSignInProofs is   *)
(* about.                                                                  *)
(***************************************************************************)
EXTENDS OAuthSignInProofs, MCMaster

-----------------------------------------------------------------------------
(* Claims. *)

(* A request under way has a user and a backend.                           *)
Named == \A r \in Req : ~Idle(r) => who[r] \in User /\ to[r] \in Addr \cup {Hosted}

(* A request that is marked as alone is alone, and as long as no two have  *)
(* met they all are.                                                       *)
AloneIsAlone ==
  \A r \in Req : ~Idle(r) =>
    /\ alone[r] => \A q \in Req \ {r} : Idle(q)
    /\ overlapped \/ alone[r]

(* What was read of the zone has the records that belong to no user; a     *)
(* request that is alone has read all of it.                               *)
ZoneRead ==
  \A r \in Req : pc[r] = "setHosts" =>
    /\ seen[r] \cap Other = zone \cap Other
    /\ alone[r] => seen[r] = zone

(* Before it binds its user, a request that is alone has seen to the       *)
(* record, and has not found a node where it puts the master.              *)
RecordFirst ==
  \A r \in Req : alone[r] =>
    /\ pc[r] = "upsert" => who[r] \in zone \/ overlapped
    /\ pc[r] \in {"getHosts", "setHosts", "upsert"} /\ to[r] \notin Addr =>
         bindings[who[r]] \notin Addr

(* What a request that is alone has done by each statement.                *)
QuietClaims ==
  \A r \in Req : alone[r] =>
    /\ pc[r] \in {"load", "open", "write", "replace", "test", "reload", "ok"} =>
         bindings[who[r]] = to[r]
    /\ pc[r] \in {"open", "write"} => body[r] = bindings
    /\ pc[r] = "write" => fd[r] = "tmp" /\ tmp = Empty
    /\ pc[r] = "replace" => tmp = bindings
    /\ pc[r] \in {"test", "reload", "ok"} => map = bindings
    /\ pc[r] = "ok" => pending \/ loaded = bindings

(* The inductive invariant.                                                *)
ClaimInv ==
  /\ TypeOK /\ Named /\ AloneIsAlone
  /\ ZoneRead /\ RecordFirst /\ QuietClaims
  /\ BoundHasRecord

-----------------------------------------------------------------------------
(* A map file that nobody has written yet is empty.                        *)
LEMMA EmptyIsMap == Empty \in Map
BY DEF Empty, Map, Backend

(* What a write leaves is a map or none; over an empty file it is the map. *)
LEMMA WrittenIsMap ==
  ASSUME NEW old \in Map \cup {Mixed, Absent}, NEW new \in Map
  PROVE  /\ Written(old, new) \subseteq Map \cup {Mixed}
         /\ Written(Empty, new) = {new}
<1>1. Written(old, new) \subseteq Map \cup {Mixed}
  BY DEF Written
<1>2. Written(Empty, new) = {new}
  BY DEF Written
<1> QED
  BY <1>1, <1>2

(* At the start no request is under way.                                   *)
LEMMA ClaimInitInv == Init => ClaimInv
<1> SUFFICES ASSUME Init PROVE ClaimInv
  OBVIOUS
<1>1. TypeOK
  BY EmptyIsMap DEF Init, TypeOK, Statement, Backend
<1>2. Named /\ AloneIsAlone /\ ZoneRead /\ RecordFirst /\ QuietClaims
  BY DEF Init, Named, AloneIsAlone, ZoneRead, RecordFirst, QuietClaims, Idle
<1>3. BoundHasRecord
  BY DEF Init, BoundHasRecord, Empty
<1> QED
  BY <1>1, <1>2, <1>3 DEF ClaimInv

(* What a request holds keeps its types when it begins and when it ends.   *)
RequestTypes ==
  /\ pc \in [Req -> Statement]
  /\ who \in [Req -> User \cup {None}] /\ to \in [Req -> Backend]
  /\ seen \in [Req -> SUBSET (User \cup Other)]
  /\ body \in [Req -> Map]
  /\ fd \in [Req -> {"none", "tmp", "map", "gone"}]
  /\ alone \in [Req -> BOOLEAN] /\ overlapped \in BOOLEAN

LEMMA EnterTypes ==
  ASSUME TypeOK, NEW r \in Req, NEW u \in User, NEW b \in Backend, Enter(r, u, b)
  PROVE  RequestTypes'
<1>1. pc' \in [Req -> Statement]
  BY DEF TypeOK, Enter, Goes, Statement
<1>2. alone' \in [Req -> BOOLEAN] /\ overlapped' \in BOOLEAN
  BY DEF TypeOK, Enter, Idle
<1> QED
  BY <1>1, <1>2 DEF TypeOK, Enter, RequestTypes

LEMMA EndsTypes ==
  ASSUME TypeOK, NEW r \in Req, Ends(r)
  PROVE  RequestTypes'
<1>1. pc' \in [Req -> Statement]
  BY DEF TypeOK, Ends, Goes, Statement
<1>2. to' \in [Req -> Backend]
  BY DEF TypeOK, Ends, Backend
<1> QED
  BY <1>1, <1>2, EmptyIsMap DEF TypeOK, Ends, RequestTypes

(* Every step keeps the types.                                             *)
LEMMA ClaimTypeStep ==
  ASSUME TypeOK, Named, [Next]_vars
  PROVE  TypeOK'
<1>1. ASSUME NEW r \in Req, NEW u \in User, Claim(r, u) PROVE TypeOK'
  BY <1>1, EmptyIsMap, DnsAssumption DEF Claim, Enter, TypeOK, Named,
     Statement, Backend, files, nginx, limits, request, Idle, Goes, Ends
<1>2. ASSUME NEW r \in Req, NEW u \in User, SignIn(r, u) PROVE TypeOK'
  <2>1. RequestTypes'
    BY <1>2, EnterTypes DEF SignIn, Backend
  <2> QED
    BY <1>2, <2>1 DEF SignIn, Upset, TypeOK, RequestTypes, files, nginx
<1>3. ASSUME NEW r \in Req, GetHosts(r) PROVE TypeOK'
  BY <1>3, EmptyIsMap, DnsAssumption DEF GetHosts, TypeOK, Named, Statement,
     Backend, files, nginx, limits, request, Idle, Goes, Ends
<1>4. ASSUME NEW r \in Req, SetHosts(r) PROVE TypeOK'
  BY <1>4, EmptyIsMap, DnsAssumption DEF SetHosts, Merged, TypeOK, Named,
     Statement, Backend, files, nginx, limits, request, Idle, Goes, Ends
<1>5. ASSUME NEW r \in Req, TooManyHosts(r) PROVE TypeOK'
  BY <1>5, EmptyIsMap, DnsAssumption DEF TooManyHosts, TypeOK, Named,
     Statement, Backend, files, nginx, limits, request, Idle, Goes, Ends
<1>6. ASSUME NEW r \in Req, Upsert(r) PROVE TypeOK'
  BY <1>6, EmptyIsMap, DnsAssumption DEF Upsert, Bound, Map, TypeOK, Named,
     Statement, Backend, files, nginx, limits, request, Idle, Goes, Ends
<1>7. ASSUME NEW r \in Req, LoadBindings(r) PROVE TypeOK'
  BY <1>7, EmptyIsMap, DnsAssumption DEF LoadBindings, TypeOK, Named,
     Statement, Backend, files, nginx, limits, request, Idle, Goes, Ends
<1>8. ASSUME NEW r \in Req, OpenTmp(r) PROVE TypeOK'
  BY <1>8, EmptyIsMap, DnsAssumption DEF OpenTmp, TypeOK, Named, Statement,
     Backend, files, nginx, limits, request, Idle, Goes, Ends
<1>9. ASSUME NEW r \in Req, WriteTmp(r) PROVE TypeOK'
  <2>1. body[r] \in Map
    BY DEF TypeOK
  <2>2. tmp' \in Map \cup {Mixed, Absent}
    <3>1. CASE fd[r] = "tmp"
      <4>1. tmp' \in Written(tmp, body[r])
        BY <1>9, <3>1 DEF WriteTmp
      <4>2. tmp \in Map \cup {Mixed, Absent}
        BY DEF TypeOK
      <4>3. Written(tmp, body[r]) \subseteq Map \cup {Mixed}
        BY <4>2, <2>1, WrittenIsMap
      <4> QED
        BY <4>1, <4>3
    <3>2. CASE fd[r] # "tmp"
      BY <1>9, <3>2 DEF WriteTmp, TypeOK
    <3> QED
      BY <3>1, <3>2
  <2>3. map' \in Map \cup {Mixed}
    BY <1>9, <2>1, WrittenIsMap DEF WriteTmp, TypeOK
  <2> QED
    BY <1>9, <2>2, <2>3, EmptyIsMap DEF WriteTmp, TypeOK, Statement, nginx, limits, Goes
<1>10. ASSUME NEW r \in Req, ReplaceMap(r) PROVE TypeOK'
  <2>1. fd' \in [Req -> {"none", "tmp", "map", "gone"}]
    BY <1>10 DEF ReplaceMap, TypeOK
  <2> QED
    BY <1>10, <2>1 DEF ReplaceMap, TypeOK, Statement, nginx, limits, Goes
<1>11. ASSUME NEW r \in Req, ReplaceFails(r) PROVE TypeOK'
  BY <1>11, EmptyIsMap, DnsAssumption DEF ReplaceFails, TypeOK, Named,
     Statement, Backend, files, nginx, limits, request, Idle, Goes, Ends
<1>12. ASSUME NEW r \in Req, TestMap(r) PROVE TypeOK'
  <2>1. CASE map = Mixed
    BY <1>12, <2>1, EndsTypes DEF TestMap, TypeOK, RequestTypes, files, nginx, limits
  <2>2. CASE map # Mixed
    BY <1>12, <2>2 DEF TestMap, Goes, TypeOK, Statement, files, nginx, limits
  <2> QED
    BY <2>1, <2>2
<1>13. ASSUME NEW r \in Req, Reload(r) PROVE TypeOK'
  BY <1>13, EmptyIsMap, DnsAssumption DEF Reload, TypeOK, Named, Statement,
     Backend, files, nginx, limits, request, Idle, Goes, Ends
<1>14. ASSUME NEW r \in Req, Answer(r) PROVE TypeOK'
  BY <1>14, EmptyIsMap, DnsAssumption DEF Answer, TypeOK, Named, Statement,
     Backend, files, nginx, limits, request, Idle, Goes, Ends
<1>15. ASSUME NEW r \in Req, Fails(r) PROVE TypeOK'
  BY <1>15, EmptyIsMap, DnsAssumption DEF Fails, Upset, Merged, TypeOK, Named,
     Statement, Backend, files, nginx, limits, request, Idle, Goes, Ends
<1>16. ASSUME Restart PROVE TypeOK'
  BY <1>16, EmptyIsMap, DnsAssumption DEF Restart, Upset, TypeOK, Named,
     Statement, Backend, files, nginx, limits, request, Idle, Goes, Ends
<1>17. ASSUME NginxReloads PROVE TypeOK'
  BY <1>17, EmptyIsMap, DnsAssumption DEF NginxReloads, TypeOK, Named,
     Statement, Backend, files, nginx, limits, request, Idle, Goes, Ends
<1>18. ASSUME NEW u \in User, NEW a \in Addr, Moves(u, a) PROVE TypeOK'
  BY <1>18, EmptyIsMap, DnsAssumption DEF Moves, TypeOK, Named, Statement,
     Backend, files, nginx, limits, request, Idle, Goes, Ends
<1>19. CASE UNCHANGED vars
  BY <1>19, EmptyIsMap, DnsAssumption DEF vars, TypeOK, Named, Statement,
     Backend, files, nginx, limits, request, Idle, Goes, Ends
<1> QED
  BY <1>1, <1>2, <1>3, <1>4, <1>5, <1>6, <1>7, <1>8, <1>9, <1>10, <1>11,
     <1>12, <1>13, <1>14, <1>15, <1>16, <1>17, <1>18, <1>19 DEF Next, ReqStep

(* A request keeps its user and backend to its end.                        *)
LEMMA NamedStep ==
  ASSUME TypeOK, Named, [Next]_vars
  PROVE  Named'
<1>1. ASSUME NEW r \in Req, NEW u \in User, Claim(r, u) PROVE Named'
  BY <1>1 DEF Claim, Enter, TypeOK, Named, files, nginx, limits, request,
     Idle, Goes, Ends
<1>2. ASSUME NEW r \in Req, NEW u \in User, SignIn(r, u) PROVE Named'
  BY <1>2 DEF SignIn, Enter, Upset, TypeOK, Named, files, nginx, limits,
     request, Idle, Goes, Ends
<1>3. ASSUME NEW r \in Req, GetHosts(r) PROVE Named'
  BY <1>3 DEF GetHosts, TypeOK, Named, files, nginx, limits, request, Idle,
     Goes, Ends
<1>4. ASSUME NEW r \in Req, SetHosts(r) PROVE Named'
  BY <1>4 DEF SetHosts, Merged, TypeOK, Named, files, nginx, limits, request,
     Idle, Goes, Ends
<1>5. ASSUME NEW r \in Req, TooManyHosts(r) PROVE Named'
  BY <1>5 DEF TooManyHosts, TypeOK, Named, files, nginx, limits, request,
     Idle, Goes, Ends
<1>6. ASSUME NEW r \in Req, Upsert(r) PROVE Named'
  BY <1>6 DEF Upsert, Bound, TypeOK, Named, files, nginx, limits, request,
     Idle, Goes, Ends
<1>7. ASSUME NEW r \in Req, LoadBindings(r) PROVE Named'
  BY <1>7 DEF LoadBindings, TypeOK, Named, files, nginx, limits, request,
     Idle, Goes, Ends
<1>8. ASSUME NEW r \in Req, OpenTmp(r) PROVE Named'
  BY <1>8 DEF OpenTmp, TypeOK, Named, files, nginx, limits, request, Idle,
     Goes, Ends
<1>9. ASSUME NEW r \in Req, WriteTmp(r) PROVE Named'
  BY <1>9 DEF WriteTmp, TypeOK, Named, files, nginx, limits, request, Idle,
     Goes, Ends
<1>10. ASSUME NEW r \in Req, ReplaceMap(r) PROVE Named'
  BY <1>10 DEF ReplaceMap, TypeOK, Named, files, nginx, limits, request, Idle,
     Goes, Ends
<1>11. ASSUME NEW r \in Req, ReplaceFails(r) PROVE Named'
  BY <1>11 DEF ReplaceFails, TypeOK, Named, files, nginx, limits, request,
     Idle, Goes, Ends
<1>12. ASSUME NEW r \in Req, TestMap(r) PROVE Named'
  BY <1>12 DEF TestMap, TypeOK, Named, files, nginx, limits, request, Idle,
     Goes, Ends
<1>13. ASSUME NEW r \in Req, Reload(r) PROVE Named'
  BY <1>13 DEF Reload, TypeOK, Named, files, nginx, limits, request, Idle,
     Goes, Ends
<1>14. ASSUME NEW r \in Req, Answer(r) PROVE Named'
  BY <1>14 DEF Answer, TypeOK, Named, files, nginx, limits, request, Idle,
     Goes, Ends
<1>15. ASSUME NEW r \in Req, Fails(r) PROVE Named'
  BY <1>15 DEF Fails, Upset, Merged, TypeOK, Named, files, nginx, limits,
     request, Idle, Goes, Ends
<1>16. ASSUME Restart PROVE Named'
  BY <1>16 DEF Restart, Upset, TypeOK, Named, files, nginx, limits, request,
     Idle, Goes, Ends
<1>17. ASSUME NginxReloads PROVE Named'
  BY <1>17 DEF NginxReloads, TypeOK, Named, files, nginx, limits, request,
     Idle, Goes, Ends
<1>18. ASSUME NEW u \in User, NEW a \in Addr, Moves(u, a) PROVE Named'
  BY <1>18 DEF Moves, TypeOK, Named, files, nginx, limits, request, Idle,
     Goes, Ends
<1>19. CASE UNCHANGED vars
  BY <1>19 DEF vars, TypeOK, Named, files, nginx, limits, request, Idle, Goes,
     Ends
<1> QED
  BY <1>1, <1>2, <1>3, <1>4, <1>5, <1>6, <1>7, <1>8, <1>9, <1>10, <1>11,
     <1>12, <1>13, <1>14, <1>15, <1>16, <1>17, <1>18, <1>19 DEF Next, ReqStep

(* Whoever comes in while another is there marks both.                     *)
LEMMA AloneStep ==
  ASSUME TypeOK, AloneIsAlone, [Next]_vars
  PROVE  AloneIsAlone'
<1>1. ASSUME NEW r \in Req, NEW u \in User, Claim(r, u) PROVE AloneIsAlone'
  BY <1>1 DEF Claim, Enter, TypeOK, AloneIsAlone, files, nginx, limits,
     request, Idle, Goes, Ends
<1>2. ASSUME NEW r \in Req, NEW u \in User, SignIn(r, u) PROVE AloneIsAlone'
  BY <1>2 DEF SignIn, Enter, Upset, TypeOK, AloneIsAlone, files, nginx,
     limits, request, Idle, Goes, Ends
<1>3. ASSUME NEW r \in Req, GetHosts(r) PROVE AloneIsAlone'
  BY <1>3 DEF GetHosts, TypeOK, AloneIsAlone, files, nginx, limits, request,
     Idle, Goes, Ends
<1>4. ASSUME NEW r \in Req, SetHosts(r) PROVE AloneIsAlone'
  BY <1>4 DEF SetHosts, Merged, TypeOK, AloneIsAlone, files, nginx, limits,
     request, Idle, Goes, Ends
<1>5. ASSUME NEW r \in Req, TooManyHosts(r) PROVE AloneIsAlone'
  BY <1>5 DEF TooManyHosts, TypeOK, AloneIsAlone, files, nginx, limits,
     request, Idle, Goes, Ends
<1>6. ASSUME NEW r \in Req, Upsert(r) PROVE AloneIsAlone'
  BY <1>6 DEF Upsert, Bound, TypeOK, AloneIsAlone, files, nginx, limits,
     request, Idle, Goes, Ends
<1>7. ASSUME NEW r \in Req, LoadBindings(r) PROVE AloneIsAlone'
  BY <1>7 DEF LoadBindings, TypeOK, AloneIsAlone, files, nginx, limits,
     request, Idle, Goes, Ends
<1>8. ASSUME NEW r \in Req, OpenTmp(r) PROVE AloneIsAlone'
  BY <1>8 DEF OpenTmp, TypeOK, AloneIsAlone, files, nginx, limits, request,
     Idle, Goes, Ends
<1>9. ASSUME NEW r \in Req, WriteTmp(r) PROVE AloneIsAlone'
  BY <1>9 DEF WriteTmp, TypeOK, AloneIsAlone, files, nginx, limits, request,
     Idle, Goes, Ends
<1>10. ASSUME NEW r \in Req, ReplaceMap(r) PROVE AloneIsAlone'
  BY <1>10 DEF ReplaceMap, TypeOK, AloneIsAlone, files, nginx, limits,
     request, Idle, Goes, Ends
<1>11. ASSUME NEW r \in Req, ReplaceFails(r) PROVE AloneIsAlone'
  BY <1>11 DEF ReplaceFails, TypeOK, AloneIsAlone, files, nginx, limits,
     request, Idle, Goes, Ends
<1>12. ASSUME NEW r \in Req, TestMap(r) PROVE AloneIsAlone'
  BY <1>12 DEF TestMap, TypeOK, AloneIsAlone, files, nginx, limits, request,
     Idle, Goes, Ends
<1>13. ASSUME NEW r \in Req, Reload(r) PROVE AloneIsAlone'
  BY <1>13 DEF Reload, TypeOK, AloneIsAlone, files, nginx, limits, request,
     Idle, Goes, Ends
<1>14. ASSUME NEW r \in Req, Answer(r) PROVE AloneIsAlone'
  BY <1>14 DEF Answer, TypeOK, AloneIsAlone, files, nginx, limits, request,
     Idle, Goes, Ends
<1>15. ASSUME NEW r \in Req, Fails(r) PROVE AloneIsAlone'
  BY <1>15 DEF Fails, Upset, Merged, TypeOK, AloneIsAlone, files, nginx,
     limits, request, Idle, Goes, Ends
<1>16. ASSUME Restart PROVE AloneIsAlone'
  BY <1>16 DEF Restart, Upset, TypeOK, AloneIsAlone, files, nginx, limits,
     request, Idle, Goes, Ends
<1>17. ASSUME NginxReloads PROVE AloneIsAlone'
  BY <1>17 DEF NginxReloads, TypeOK, AloneIsAlone, files, nginx, limits,
     request, Idle, Goes, Ends
<1>18. ASSUME NEW u \in User, NEW a \in Addr, Moves(u, a) PROVE AloneIsAlone'
  BY <1>18 DEF Moves, TypeOK, AloneIsAlone, files, nginx, limits, request,
     Idle, Goes, Ends
<1>19. CASE UNCHANGED vars
  BY <1>19 DEF vars, TypeOK, AloneIsAlone, files, nginx, limits, request,
     Idle, Goes, Ends
<1> QED
  BY <1>1, <1>2, <1>3, <1>4, <1>5, <1>6, <1>7, <1>8, <1>9, <1>10, <1>11,
     <1>12, <1>13, <1>14, <1>15, <1>16, <1>17, <1>18, <1>19 DEF Next, ReqStep

(* A user's record is the only one that is added.                          *)
LEMMA ZoneStep ==
  ASSUME TypeOK, Named, AloneIsAlone, ZoneRead, [Next]_vars
  PROVE  ZoneRead'
<1>1. ASSUME NEW r \in Req, NEW u \in User, Claim(r, u) PROVE ZoneRead'
  BY <1>1, DnsAssumption DEF Claim, Enter, TypeOK, Named, AloneIsAlone,
     ZoneRead, files, nginx, limits, request, Idle, Goes, Ends
<1>2. ASSUME NEW r \in Req, NEW u \in User, SignIn(r, u) PROVE ZoneRead'
  BY <1>2, DnsAssumption DEF SignIn, Enter, Upset, TypeOK, Named,
     AloneIsAlone, ZoneRead, files, nginx, limits, request, Idle, Goes, Ends
<1>3. ASSUME NEW r \in Req, GetHosts(r) PROVE ZoneRead'
  BY <1>3, DnsAssumption DEF GetHosts, TypeOK, Named, AloneIsAlone, ZoneRead,
     files, nginx, limits, request, Idle, Goes, Ends
<1>4. ASSUME NEW r \in Req, SetHosts(r) PROVE ZoneRead'
  BY <1>4, DnsAssumption DEF SetHosts, Merged, TypeOK, Named, AloneIsAlone,
     ZoneRead, files, nginx, limits, request, Idle, Goes, Ends
<1>5. ASSUME NEW r \in Req, TooManyHosts(r) PROVE ZoneRead'
  BY <1>5, DnsAssumption DEF TooManyHosts, TypeOK, Named, AloneIsAlone,
     ZoneRead, files, nginx, limits, request, Idle, Goes, Ends
<1>6. ASSUME NEW r \in Req, Upsert(r) PROVE ZoneRead'
  BY <1>6, DnsAssumption DEF Upsert, Bound, TypeOK, Named, AloneIsAlone,
     ZoneRead, files, nginx, limits, request, Idle, Goes, Ends
<1>7. ASSUME NEW r \in Req, LoadBindings(r) PROVE ZoneRead'
  BY <1>7, DnsAssumption DEF LoadBindings, TypeOK, Named, AloneIsAlone,
     ZoneRead, files, nginx, limits, request, Idle, Goes, Ends
<1>8. ASSUME NEW r \in Req, OpenTmp(r) PROVE ZoneRead'
  BY <1>8, DnsAssumption DEF OpenTmp, TypeOK, Named, AloneIsAlone, ZoneRead,
     files, nginx, limits, request, Idle, Goes, Ends
<1>9. ASSUME NEW r \in Req, WriteTmp(r) PROVE ZoneRead'
  BY <1>9, DnsAssumption DEF WriteTmp, TypeOK, Named, AloneIsAlone, ZoneRead,
     files, nginx, limits, request, Idle, Goes, Ends
<1>10. ASSUME NEW r \in Req, ReplaceMap(r) PROVE ZoneRead'
  BY <1>10, DnsAssumption DEF ReplaceMap, TypeOK, Named, AloneIsAlone,
     ZoneRead, files, nginx, limits, request, Idle, Goes, Ends
<1>11. ASSUME NEW r \in Req, ReplaceFails(r) PROVE ZoneRead'
  BY <1>11, DnsAssumption DEF ReplaceFails, TypeOK, Named, AloneIsAlone,
     ZoneRead, files, nginx, limits, request, Idle, Goes, Ends
<1>12. ASSUME NEW r \in Req, TestMap(r) PROVE ZoneRead'
  BY <1>12, DnsAssumption DEF TestMap, TypeOK, Named, AloneIsAlone, ZoneRead,
     files, nginx, limits, request, Idle, Goes, Ends
<1>13. ASSUME NEW r \in Req, Reload(r) PROVE ZoneRead'
  BY <1>13, DnsAssumption DEF Reload, TypeOK, Named, AloneIsAlone, ZoneRead,
     files, nginx, limits, request, Idle, Goes, Ends
<1>14. ASSUME NEW r \in Req, Answer(r) PROVE ZoneRead'
  BY <1>14, DnsAssumption DEF Answer, TypeOK, Named, AloneIsAlone, ZoneRead,
     files, nginx, limits, request, Idle, Goes, Ends
<1>15. ASSUME NEW r \in Req, Fails(r) PROVE ZoneRead'
  BY <1>15, DnsAssumption DEF Fails, Upset, Merged, TypeOK, Named,
     AloneIsAlone, ZoneRead, files, nginx, limits, request, Idle, Goes, Ends
<1>16. ASSUME Restart PROVE ZoneRead'
  BY <1>16, DnsAssumption DEF Restart, Upset, TypeOK, Named, AloneIsAlone,
     ZoneRead, files, nginx, limits, request, Idle, Goes, Ends
<1>17. ASSUME NginxReloads PROVE ZoneRead'
  BY <1>17, DnsAssumption DEF NginxReloads, TypeOK, Named, AloneIsAlone,
     ZoneRead, files, nginx, limits, request, Idle, Goes, Ends
<1>18. ASSUME NEW u \in User, NEW a \in Addr, Moves(u, a) PROVE ZoneRead'
  BY <1>18, DnsAssumption DEF Moves, TypeOK, Named, AloneIsAlone, ZoneRead,
     files, nginx, limits, request, Idle, Goes, Ends
<1>19. CASE UNCHANGED vars
  BY <1>19, DnsAssumption DEF vars, TypeOK, Named, AloneIsAlone, ZoneRead,
     files, nginx, limits, request, Idle, Goes, Ends
<1> QED
  BY <1>1, <1>2, <1>3, <1>4, <1>5, <1>6, <1>7, <1>8, <1>9, <1>10, <1>11,
     <1>12, <1>13, <1>14, <1>15, <1>16, <1>17, <1>18, <1>19 DEF Next, ReqStep

(* The record is in the zone before the name is bound.                     *)
LEMMA RecordStep ==
  ASSUME TypeOK, Named, AloneIsAlone, RecordFirst, BoundHasRecord, [Next]_vars
  PROVE  RecordFirst'
<1>1. ASSUME NEW r \in Req, NEW u \in User, Claim(r, u) PROVE RecordFirst'
  BY <1>1, DnsAssumption DEF Claim, Enter, TypeOK, Named, AloneIsAlone,
     RecordFirst, BoundHasRecord, files, nginx, limits, request, Idle, Goes,
     Ends
<1>2. ASSUME NEW r \in Req, NEW u \in User, SignIn(r, u) PROVE RecordFirst'
  BY <1>2, DnsAssumption DEF SignIn, Enter, Upset, TypeOK, Named,
     AloneIsAlone, RecordFirst, BoundHasRecord, files, nginx, limits, request,
     Idle, Goes, Ends
<1>3. ASSUME NEW r \in Req, GetHosts(r) PROVE RecordFirst'
  BY <1>3, DnsAssumption DEF GetHosts, TypeOK, Named, AloneIsAlone,
     RecordFirst, BoundHasRecord, files, nginx, limits, request, Idle, Goes,
     Ends
<1>4. ASSUME NEW r \in Req, SetHosts(r) PROVE RecordFirst'
  BY <1>4, DnsAssumption DEF SetHosts, Merged, TypeOK, Named, AloneIsAlone,
     RecordFirst, BoundHasRecord, files, nginx, limits, request, Idle, Goes,
     Ends
<1>5. ASSUME NEW r \in Req, TooManyHosts(r) PROVE RecordFirst'
  BY <1>5, DnsAssumption DEF TooManyHosts, TypeOK, Named, AloneIsAlone,
     RecordFirst, BoundHasRecord, files, nginx, limits, request, Idle, Goes,
     Ends
<1>6. ASSUME NEW r \in Req, Upsert(r) PROVE RecordFirst'
  BY <1>6, DnsAssumption DEF Upsert, Bound, TypeOK, Named, AloneIsAlone,
     RecordFirst, BoundHasRecord, files, nginx, limits, request, Idle, Goes,
     Ends
<1>7. ASSUME NEW r \in Req, LoadBindings(r) PROVE RecordFirst'
  BY <1>7, DnsAssumption DEF LoadBindings, TypeOK, Named, AloneIsAlone,
     RecordFirst, BoundHasRecord, files, nginx, limits, request, Idle, Goes,
     Ends
<1>8. ASSUME NEW r \in Req, OpenTmp(r) PROVE RecordFirst'
  BY <1>8, DnsAssumption DEF OpenTmp, TypeOK, Named, AloneIsAlone,
     RecordFirst, BoundHasRecord, files, nginx, limits, request, Idle, Goes,
     Ends
<1>9. ASSUME NEW r \in Req, WriteTmp(r) PROVE RecordFirst'
  BY <1>9, DnsAssumption DEF WriteTmp, TypeOK, Named, AloneIsAlone,
     RecordFirst, BoundHasRecord, files, nginx, limits, request, Idle, Goes,
     Ends
<1>10. ASSUME NEW r \in Req, ReplaceMap(r) PROVE RecordFirst'
  BY <1>10, DnsAssumption DEF ReplaceMap, TypeOK, Named, AloneIsAlone,
     RecordFirst, BoundHasRecord, files, nginx, limits, request, Idle, Goes,
     Ends
<1>11. ASSUME NEW r \in Req, ReplaceFails(r) PROVE RecordFirst'
  BY <1>11, DnsAssumption DEF ReplaceFails, TypeOK, Named, AloneIsAlone,
     RecordFirst, BoundHasRecord, files, nginx, limits, request, Idle, Goes,
     Ends
<1>12. ASSUME NEW r \in Req, TestMap(r) PROVE RecordFirst'
  BY <1>12, DnsAssumption DEF TestMap, TypeOK, Named, AloneIsAlone,
     RecordFirst, BoundHasRecord, files, nginx, limits, request, Idle, Goes,
     Ends
<1>13. ASSUME NEW r \in Req, Reload(r) PROVE RecordFirst'
  BY <1>13, DnsAssumption DEF Reload, TypeOK, Named, AloneIsAlone,
     RecordFirst, BoundHasRecord, files, nginx, limits, request, Idle, Goes,
     Ends
<1>14. ASSUME NEW r \in Req, Answer(r) PROVE RecordFirst'
  BY <1>14, DnsAssumption DEF Answer, TypeOK, Named, AloneIsAlone,
     RecordFirst, BoundHasRecord, files, nginx, limits, request, Idle, Goes,
     Ends
<1>15. ASSUME NEW r \in Req, Fails(r) PROVE RecordFirst'
  BY <1>15, DnsAssumption DEF Fails, Upset, Merged, TypeOK, Named,
     AloneIsAlone, RecordFirst, BoundHasRecord, files, nginx, limits, request,
     Idle, Goes, Ends
<1>16. ASSUME Restart PROVE RecordFirst'
  BY <1>16, DnsAssumption DEF Restart, Upset, TypeOK, Named, AloneIsAlone,
     RecordFirst, BoundHasRecord, files, nginx, limits, request, Idle, Goes,
     Ends
<1>17. ASSUME NginxReloads PROVE RecordFirst'
  BY <1>17, DnsAssumption DEF NginxReloads, TypeOK, Named, AloneIsAlone,
     RecordFirst, BoundHasRecord, files, nginx, limits, request, Idle, Goes,
     Ends
<1>18. ASSUME NEW u \in User, NEW a \in Addr, Moves(u, a) PROVE RecordFirst'
  BY <1>18, DnsAssumption DEF Moves, TypeOK, Named, AloneIsAlone, RecordFirst,
     BoundHasRecord, files, nginx, limits, request, Idle, Goes, Ends
<1>19. CASE UNCHANGED vars
  BY <1>19, DnsAssumption DEF vars, TypeOK, Named, AloneIsAlone, RecordFirst,
     BoundHasRecord, files, nginx, limits, request, Idle, Goes, Ends
<1> QED
  BY <1>1, <1>2, <1>3, <1>4, <1>5, <1>6, <1>7, <1>8, <1>9, <1>10, <1>11,
     <1>12, <1>13, <1>14, <1>15, <1>16, <1>17, <1>18, <1>19 DEF Next, ReqStep

(* A request that is alone writes its files alone.                         *)
LEMMA QuietClaimStep ==
  ASSUME TypeOK, Named, AloneIsAlone, QuietClaims, [Next]_vars
  PROVE  QuietClaims'
<1>1. ASSUME NEW r \in Req, NEW u \in User, Claim(r, u) PROVE QuietClaims'
  BY <1>1, DnsAssumption, FileAssumption DEF Claim, Enter, TypeOK, Named,
     AloneIsAlone, QuietClaims, files, nginx, limits, request, Idle, Goes,
     Ends
<1>2. ASSUME NEW r \in Req, NEW u \in User, SignIn(r, u) PROVE QuietClaims'
  BY <1>2, DnsAssumption, FileAssumption DEF SignIn, Enter, Upset, TypeOK,
     Named, AloneIsAlone, QuietClaims, files, nginx, limits, request, Idle,
     Goes, Ends
<1>3. ASSUME NEW r \in Req, GetHosts(r) PROVE QuietClaims'
  BY <1>3, DnsAssumption, FileAssumption DEF GetHosts, TypeOK, Named,
     AloneIsAlone, QuietClaims, files, nginx, limits, request, Idle, Goes,
     Ends
<1>4. ASSUME NEW r \in Req, SetHosts(r) PROVE QuietClaims'
  BY <1>4, DnsAssumption, FileAssumption DEF SetHosts, Merged, TypeOK, Named,
     AloneIsAlone, QuietClaims, files, nginx, limits, request, Idle, Goes,
     Ends
<1>5. ASSUME NEW r \in Req, TooManyHosts(r) PROVE QuietClaims'
  BY <1>5, DnsAssumption, FileAssumption DEF TooManyHosts, TypeOK, Named,
     AloneIsAlone, QuietClaims, files, nginx, limits, request, Idle, Goes,
     Ends
<1>6. ASSUME NEW r \in Req, Upsert(r) PROVE QuietClaims'
  <2>1. bindings'[who[r]] = to[r]
    BY <1>6 DEF Upsert, Bound, TypeOK, Map, Named, Idle
  <2> QED
    BY <1>6, <2>1 DEF Upsert, AloneIsAlone, QuietClaims, TypeOK, files, nginx, limits, Idle, Goes
<1>7. ASSUME NEW r \in Req, LoadBindings(r) PROVE QuietClaims'
  BY <1>7, DnsAssumption, FileAssumption DEF LoadBindings, TypeOK, Named,
     AloneIsAlone, QuietClaims, files, nginx, limits, request, Idle, Goes,
     Ends
<1>8. ASSUME NEW r \in Req, OpenTmp(r) PROVE QuietClaims'
  BY <1>8, DnsAssumption, FileAssumption DEF OpenTmp, TypeOK, Named,
     AloneIsAlone, QuietClaims, files, nginx, limits, request, Idle, Goes,
     Ends
<1>9. ASSUME NEW r \in Req, WriteTmp(r) PROVE QuietClaims'
  <2>1. ASSUME alone[r] PROVE tmp' = bindings
    BY <1>9, <2>1, WrittenIsMap DEF WriteTmp, TypeOK, QuietClaims
  <2> QED
    BY <1>9, <2>1 DEF WriteTmp, AloneIsAlone, QuietClaims, TypeOK, nginx, limits, Idle, Goes
<1>10. ASSUME NEW r \in Req, ReplaceMap(r) PROVE QuietClaims'
  BY <1>10, DnsAssumption, FileAssumption DEF ReplaceMap, TypeOK, Named,
     AloneIsAlone, QuietClaims, files, nginx, limits, request, Idle, Goes,
     Ends
<1>11. ASSUME NEW r \in Req, ReplaceFails(r) PROVE QuietClaims'
  BY <1>11, DnsAssumption, FileAssumption DEF ReplaceFails, TypeOK, Named,
     AloneIsAlone, QuietClaims, files, nginx, limits, request, Idle, Goes,
     Ends
<1>12. ASSUME NEW r \in Req, TestMap(r) PROVE QuietClaims'
  BY <1>12, DnsAssumption, FileAssumption DEF TestMap, TypeOK, Named,
     AloneIsAlone, QuietClaims, files, nginx, limits, request, Idle, Goes,
     Ends
<1>13. ASSUME NEW r \in Req, Reload(r) PROVE QuietClaims'
  BY <1>13, DnsAssumption, FileAssumption DEF Reload, TypeOK, Named,
     AloneIsAlone, QuietClaims, files, nginx, limits, request, Idle, Goes,
     Ends
<1>14. ASSUME NEW r \in Req, Answer(r) PROVE QuietClaims'
  BY <1>14, DnsAssumption, FileAssumption DEF Answer, TypeOK, Named,
     AloneIsAlone, QuietClaims, files, nginx, limits, request, Idle, Goes,
     Ends
<1>15. ASSUME NEW r \in Req, Fails(r) PROVE QuietClaims'
  BY <1>15, DnsAssumption, FileAssumption DEF Fails, Upset, Merged, TypeOK,
     Named, AloneIsAlone, QuietClaims, files, nginx, limits, request, Idle,
     Goes, Ends
<1>16. ASSUME Restart PROVE QuietClaims'
  BY <1>16, DnsAssumption, FileAssumption DEF Restart, Upset, TypeOK, Named,
     AloneIsAlone, QuietClaims, files, nginx, limits, request, Idle, Goes,
     Ends
<1>17. ASSUME NginxReloads PROVE QuietClaims'
  BY <1>17, DnsAssumption, FileAssumption DEF NginxReloads, TypeOK, Named,
     AloneIsAlone, QuietClaims, files, nginx, limits, request, Idle, Goes,
     Ends
<1>18. ASSUME NEW u \in User, NEW a \in Addr, Moves(u, a) PROVE QuietClaims'
  BY <1>18, DnsAssumption, FileAssumption DEF Moves, TypeOK, Named,
     AloneIsAlone, QuietClaims, files, nginx, limits, request, Idle, Goes,
     Ends
<1>19. CASE UNCHANGED vars
  BY <1>19, DnsAssumption, FileAssumption DEF vars, TypeOK, Named,
     AloneIsAlone, QuietClaims, files, nginx, limits, request, Idle, Goes,
     Ends
<1> QED
  BY <1>1, <1>2, <1>3, <1>4, <1>5, <1>6, <1>7, <1>8, <1>9, <1>10, <1>11,
     <1>12, <1>13, <1>14, <1>15, <1>16, <1>17, <1>18, <1>19 DEF Next, ReqStep

(* A request that is alone takes no record away.                           *)
LEMMA BoundStep ==
  ASSUME TypeOK, Named, AloneIsAlone, ZoneRead, RecordFirst, BoundHasRecord, [Next]_vars
  PROVE  BoundHasRecord'
<1>1. ASSUME NEW r \in Req, NEW u \in User, Claim(r, u) PROVE BoundHasRecord'
  BY <1>1, DnsAssumption DEF Claim, Enter, TypeOK, Named, AloneIsAlone,
     ZoneRead, RecordFirst, BoundHasRecord, files, nginx, limits, request,
     Idle, Goes, Ends
<1>2. ASSUME NEW r \in Req, NEW u \in User, SignIn(r, u) PROVE BoundHasRecord'
  BY <1>2, DnsAssumption DEF SignIn, Enter, Upset, TypeOK, Named,
     AloneIsAlone, ZoneRead, RecordFirst, BoundHasRecord, files, nginx,
     limits, request, Idle, Goes, Ends
<1>3. ASSUME NEW r \in Req, GetHosts(r) PROVE BoundHasRecord'
  BY <1>3, DnsAssumption DEF GetHosts, TypeOK, Named, AloneIsAlone, ZoneRead,
     RecordFirst, BoundHasRecord, files, nginx, limits, request, Idle, Goes,
     Ends
<1>4. ASSUME NEW r \in Req, SetHosts(r) PROVE BoundHasRecord'
  BY <1>4, DnsAssumption DEF SetHosts, Merged, TypeOK, Named, AloneIsAlone,
     ZoneRead, RecordFirst, BoundHasRecord, files, nginx, limits, request,
     Idle, Goes, Ends
<1>5. ASSUME NEW r \in Req, TooManyHosts(r) PROVE BoundHasRecord'
  BY <1>5, DnsAssumption DEF TooManyHosts, TypeOK, Named, AloneIsAlone,
     ZoneRead, RecordFirst, BoundHasRecord, files, nginx, limits, request,
     Idle, Goes, Ends
<1>6. ASSUME NEW r \in Req, Upsert(r) PROVE BoundHasRecord'
  <2>1. \A u \in User : u # who[r] => bindings'[u] = bindings[u]
    BY <1>6 DEF Upsert, Bound, TypeOK, Map
  <2>2. who[r] \in zone \/ overlapped
    BY <1>6 DEF Upsert, AloneIsAlone, RecordFirst, Idle
  <2> QED
    BY <1>6, <2>1, <2>2 DEF Upsert, BoundHasRecord
<1>7. ASSUME NEW r \in Req, LoadBindings(r) PROVE BoundHasRecord'
  BY <1>7, DnsAssumption DEF LoadBindings, TypeOK, Named, AloneIsAlone,
     ZoneRead, RecordFirst, BoundHasRecord, files, nginx, limits, request,
     Idle, Goes, Ends
<1>8. ASSUME NEW r \in Req, OpenTmp(r) PROVE BoundHasRecord'
  BY <1>8, DnsAssumption DEF OpenTmp, TypeOK, Named, AloneIsAlone, ZoneRead,
     RecordFirst, BoundHasRecord, files, nginx, limits, request, Idle, Goes,
     Ends
<1>9. ASSUME NEW r \in Req, WriteTmp(r) PROVE BoundHasRecord'
  BY <1>9, DnsAssumption DEF WriteTmp, TypeOK, Named, AloneIsAlone, ZoneRead,
     RecordFirst, BoundHasRecord, files, nginx, limits, request, Idle, Goes,
     Ends
<1>10. ASSUME NEW r \in Req, ReplaceMap(r) PROVE BoundHasRecord'
  BY <1>10, DnsAssumption DEF ReplaceMap, TypeOK, Named, AloneIsAlone,
     ZoneRead, RecordFirst, BoundHasRecord, files, nginx, limits, request,
     Idle, Goes, Ends
<1>11. ASSUME NEW r \in Req, ReplaceFails(r) PROVE BoundHasRecord'
  BY <1>11, DnsAssumption DEF ReplaceFails, TypeOK, Named, AloneIsAlone,
     ZoneRead, RecordFirst, BoundHasRecord, files, nginx, limits, request,
     Idle, Goes, Ends
<1>12. ASSUME NEW r \in Req, TestMap(r) PROVE BoundHasRecord'
  BY <1>12, DnsAssumption DEF TestMap, TypeOK, Named, AloneIsAlone, ZoneRead,
     RecordFirst, BoundHasRecord, files, nginx, limits, request, Idle, Goes,
     Ends
<1>13. ASSUME NEW r \in Req, Reload(r) PROVE BoundHasRecord'
  BY <1>13, DnsAssumption DEF Reload, TypeOK, Named, AloneIsAlone, ZoneRead,
     RecordFirst, BoundHasRecord, files, nginx, limits, request, Idle, Goes,
     Ends
<1>14. ASSUME NEW r \in Req, Answer(r) PROVE BoundHasRecord'
  BY <1>14, DnsAssumption DEF Answer, TypeOK, Named, AloneIsAlone, ZoneRead,
     RecordFirst, BoundHasRecord, files, nginx, limits, request, Idle, Goes,
     Ends
<1>15. ASSUME NEW r \in Req, Fails(r) PROVE BoundHasRecord'
  BY <1>15, DnsAssumption DEF Fails, Upset, Merged, TypeOK, Named,
     AloneIsAlone, ZoneRead, RecordFirst, BoundHasRecord, files, nginx,
     limits, request, Idle, Goes, Ends
<1>16. ASSUME Restart PROVE BoundHasRecord'
  BY <1>16, DnsAssumption DEF Restart, Upset, TypeOK, Named, AloneIsAlone,
     ZoneRead, RecordFirst, BoundHasRecord, files, nginx, limits, request,
     Idle, Goes, Ends
<1>17. ASSUME NginxReloads PROVE BoundHasRecord'
  BY <1>17, DnsAssumption DEF NginxReloads, TypeOK, Named, AloneIsAlone,
     ZoneRead, RecordFirst, BoundHasRecord, files, nginx, limits, request,
     Idle, Goes, Ends
<1>18. ASSUME NEW u \in User, NEW a \in Addr, Moves(u, a) PROVE BoundHasRecord'
  BY <1>18, DnsAssumption DEF Moves, TypeOK, Named, AloneIsAlone, ZoneRead,
     RecordFirst, BoundHasRecord, files, nginx, limits, request, Idle, Goes,
     Ends
<1>19. CASE UNCHANGED vars
  BY <1>19, DnsAssumption DEF vars, TypeOK, Named, AloneIsAlone, ZoneRead,
     RecordFirst, BoundHasRecord, files, nginx, limits, request, Idle, Goes,
     Ends
<1> QED
  BY <1>1, <1>2, <1>3, <1>4, <1>5, <1>6, <1>7, <1>8, <1>9, <1>10, <1>11,
     <1>12, <1>13, <1>14, <1>15, <1>16, <1>17, <1>18, <1>19 DEF Next, ReqStep

-----------------------------------------------------------------------------
(* Every step keeps all of it.                                             *)
LEMMA ClaimNextInv == ClaimInv /\ [Next]_vars => ClaimInv'
BY ClaimTypeStep, NamedStep, AloneStep, ZoneStep, RecordStep, QuietClaimStep, BoundStep DEF ClaimInv

(* The invariant holds: every action of the master keeps each part of it.  *)
THEOREM ClaimInvariance == Spec => []ClaimInv
BY ClaimNextInv, ClaimInitInv, PTL DEF Spec

(* Until two requests have met, every bound name has its record, for any   *)
(* number of failures and restarts (set_hosts_merged, upsert_binding).     *)
THEOREM RecordsBound == Spec => []BoundHasRecord
<1>1. ClaimInv => BoundHasRecord
  BY DEF ClaimInv
<1> QED
  BY <1>1, ClaimInvariance, PTL

(* Every variable has its type, whatever is left in the two files.         *)
THEOREM ClaimTypeCorrect == Spec => []TypeOK
<1>1. ClaimInv => TypeOK
  BY DEF ClaimInv
<1> QED
  BY <1>1, ClaimInvariance, PTL

(* A request that met no other and answers ok has bound its user, and      *)
(* nginx serves everybody as dns_bindings.json says once it has reloaded.  *)
THEOREM QuietRequests == Spec => []QuietRequestServes
<1>1. ClaimInv => QuietRequestServes
  BY DEF ClaimInv, QuietClaims, QuietRequestServes
<1> QED
  BY <1>1, ClaimInvariance, PTL

(* Only the write of a request changes a binding.                          *)
LEMMA OnlyUpsertBinds ==
  ASSUME [Next]_vars, bindings' # bindings
  PROVE  \E r \in Req : Upsert(r)
<1>1. ~Restart /\ ~NginxReloads /\ ~(\E u \in User, a \in Addr : Moves(u, a))
  BY DEF Restart, NginxReloads, Moves
<1>2. PICK r \in Req : ReqStep(r)
  BY <1>1 DEF Next, vars
<1>3. ~(\E u \in User : Claim(r, u) \/ SignIn(r, u))
  BY DEF Claim, SignIn
<1>4. ~GetHosts(r) /\ ~SetHosts(r) /\ ~TooManyHosts(r) /\ ~LoadBindings(r)
  BY DEF GetHosts, SetHosts, TooManyHosts, LoadBindings
<1>5. ~OpenTmp(r) /\ ~WriteTmp(r) /\ ~ReplaceMap(r) /\ ~ReplaceFails(r)
  BY DEF OpenTmp, WriteTmp, ReplaceMap, ReplaceFails
<1>6. ~TestMap(r) /\ ~Reload(r) /\ ~Answer(r) /\ ~Fails(r)
  BY DEF TestMap, Reload, Answer, Fails
<1> QED
  BY <1>2, <1>3, <1>4, <1>5, <1>6 DEF ReqStep

(* A binding that is written replaces one of its user only.                *)
LEMMA KeptStep ==
  ASSUME ClaimInv, [Next]_vars, bindings' # bindings, NEW u \in User
  PROVE  /\ bindings[u] # None => bindings'[u] # None
         /\ bindings[u] \in Addr /\ bindings'[u] \notin Addr =>
              \E r \in Req : pc[r] = "upsert" /\ who[r] = u /\ ~alone[r]
<1>1. PICK r \in Req : Upsert(r)
  BY OnlyUpsertBinds
<1>2. bindings \in [User -> Backend]
  BY DEF ClaimInv, TypeOK, Map
<1>3. CASE who[r] = u
  <2>1. bindings'[u] = to[r]
    BY <1>1, <1>2, <1>3 DEF Upsert, Bound
  <2>2. to[r] # None
    BY <1>1, DnsAssumption DEF Upsert, ClaimInv, Named, Idle
  <2>3. alone[r] /\ to[r] \notin Addr => bindings[u] \notin Addr
    BY <1>1, <1>3 DEF Upsert, ClaimInv, RecordFirst
  <2>4. pc[r] = "upsert"
    BY <1>1 DEF Upsert
  <2> QED
    BY <1>3, <2>1, <2>2, <2>3, <2>4
<1>4. CASE who[r] # u
  BY <1>1, <1>2, <1>4 DEF Upsert, Bound
<1> QED
  BY <1>3, <1>4

(* Only the call of Namecheap changes the zone, and it merges.             *)
LEMMA OnlyMergeWrites ==
  ASSUME [Next]_vars, zone' # zone
  PROVE  \E r \in Req : pc[r] = "setHosts" /\ zone' = Merged(r)
<1>1. ~Restart /\ ~NginxReloads /\ ~(\E u \in User, a \in Addr : Moves(u, a))
  BY DEF Restart, NginxReloads, Moves
<1>2. PICK r \in Req : ReqStep(r)
  BY <1>1 DEF Next, vars
<1>3. ~(\E u \in User : Claim(r, u) \/ SignIn(r, u))
  BY DEF Claim, SignIn
<1>4. ~GetHosts(r) /\ ~Upsert(r) /\ ~TooManyHosts(r) /\ ~LoadBindings(r)
  BY DEF GetHosts, Upsert, TooManyHosts, LoadBindings
<1>5. ~OpenTmp(r) /\ ~WriteTmp(r) /\ ~ReplaceMap(r) /\ ~ReplaceFails(r)
  BY DEF OpenTmp, WriteTmp, ReplaceMap, ReplaceFails
<1>6. ~TestMap(r) /\ ~Reload(r) /\ ~Answer(r)
  BY DEF TestMap, Reload, Answer
<1>7. SetHosts(r) \/ Fails(r)
  BY <1>2, <1>3, <1>4, <1>5, <1>6 DEF ReqStep
<1>8. CASE SetHosts(r)
  BY <1>8 DEF SetHosts
<1>9. CASE Fails(r)
  BY <1>9 DEF Fails
<1> QED
  BY <1>7, <1>8, <1>9

(* What is written of the zone has what was read.                          *)
LEMMA SurviveStep ==
  ASSUME ClaimInv, [Next]_vars, zone' # zone
  PROVE  /\ zone \cap Other \subseteq zone'
         /\ zone \subseteq zone' \/ \E r \in Req : pc[r] = "setHosts" /\ ~alone[r]
<1>1. PICK r \in Req : pc[r] = "setHosts" /\ zone' = Merged(r)
  BY OnlyMergeWrites
<1>2. zone \cap Other \subseteq seen[r] /\ (alone[r] => seen[r] = zone)
  BY <1>1 DEF ClaimInv, ZoneRead
<1> QED
  BY <1>1, <1>2 DEF Merged

(* For any number of requests, failures and restarts: a name once bound    *)
(* stays bound, the records of nobody stay in the zone, and of users only  *)
(* a request that met another loses any (upsert_binding, set_hosts_merged).*)
THEOREM NothingLost == Spec => NothingTakenAway
<1>1. ClaimInv /\ [Next]_vars =>
        [\A u \in User :
           /\ bindings[u] # None => bindings'[u] # None
           /\ bindings[u] \in Addr /\ bindings'[u] \notin Addr =>
                \E r \in Req : pc[r] = "upsert" /\ who[r] = u /\ ~alone[r]]_bindings
  BY KeptStep
<1>2. ClaimInv /\ [Next]_vars =>
        [/\ zone \cap Other \subseteq zone'
         /\ zone \subseteq zone' \/ \E r \in Req : pc[r] = "setHosts" /\ ~alone[r]]_zone
  BY SurviveStep
<1>3. Spec => BindingsKept
  BY <1>1, ClaimInvariance, PTL DEF Spec, BindingsKept
<1>4. Spec => RecordsSurvive
  BY <1>2, ClaimInvariance, PTL DEF Spec, RecordsSurvive
<1> QED
  BY <1>3, <1>4, RecordsBound DEF NothingTakenAway

-----------------------------------------------------------------------------
(* Publications. *)

(* Publications of one share that are underway together have met.          *)
PubsNoticed ==
  \A p, q \in Pub :
    p # q /\ of[p] = of[q] /\ p \in Underway /\ q \in Underway => p \in mingled

(* A publication that met no other and has written its revision is behind: *)
(* the share has that revision or a later one, and so will whoever read it *)
(* since.                                                                  *)
Wrote(p) == step[p] \in {"register", "announce", "note", "done"}

WrittenBehind ==
  \A p \in Pub \ mingled : Wrote(p) =>
    /\ of[p] \in shares => revision[of[p]] >= no[p]
    /\ \A q \in Pub : of[q] = of[p] /\ step[q] \in {"list", "update"} => no[q] > no[p]

(* A publication that meets nothing has listed and written what it should. *)
QuietPubs ==
  \A p \in Underway : p \notin mingled \cup rescanned =>
    /\ of[p] \in shares /\ indexed[of[p]] = FileCount
    /\ step[p] \notin {"read", "list"} =>
         manifest[p] = IF FileCount <= ManifestLimit THEN FileCount ELSE ManifestLimit
    /\ step[p] \in {"register", "announce", "note"} =>
         snapshot[of[p]] = p /\ revision[of[p]] = no[p]

(* A publication past its registration is listed or knows it failed.       *)
Accounted ==
  \A p \in Pub : step[p] \in {"announce", "note", "done"} =>
    refused[p] \/ forgotten \/ p \in listed

(* The inductive invariant.                                                *)
PublishInv ==
  /\ PubTypeOK
  /\ PubsNoticed /\ WrittenBehind /\ RevisionNamesOne
  /\ QuietPubs
  /\ Accounted /\ RegisteredIsListed

-----------------------------------------------------------------------------
(* At the start nothing is underway, listed or noted.                      *)
LEMMA PubInitInv == PubInit => PublishInv
<1> SUFFICES ASSUME PubInit PROVE PublishInv
  OBVIOUS
<1>1. PubTypeOK
  <2>1. FileCount \in Nat
    BY PublishAssumption
  <2>2. indexed \in [Share -> 0..FileCount]
    BY <2>1 DEF PubInit
  <2>3. shares \subseteq Share /\ listed \subseteq Pub /\ swarm \subseteq Pub
        /\ mingled \subseteq Pub /\ rescanned \subseteq Pub /\ forgotten \in BOOLEAN
    BY DEF PubInit
  <2>4. step \in [Pub -> Step] /\ refused \in [Pub -> BOOLEAN] /\ of \in [Pub -> Share]
    BY DEF PubInit, Step
  <2>5. /\ revision \in [Share -> Nat] /\ no \in [Pub -> Nat] /\ manifest \in [Pub -> Nat]
        /\ troubles \in Nat
    BY DEF PubInit
  <2>6. snapshot \in [Share -> Pub \cup {Nothing}] /\ told \in [Share -> Pub \cup {Nothing}]
    BY DEF PubInit
  <2> QED
    BY <2>2, <2>3, <2>4, <2>5, <2>6 DEF PubTypeOK
<1>2. \A p \in Pub : step[p] = "new"
  BY DEF PubInit
<1>3. PubsNoticed /\ QuietPubs
  BY <1>2 DEF PubsNoticed, QuietPubs, Underway
<1>4. WrittenBehind /\ RevisionNamesOne /\ Accounted
  BY <1>2 DEF WrittenBehind, Wrote, RevisionNamesOne, Accounted
<1>5. RegisteredIsListed
  BY DEF PubInit, RegisteredIsListed
<1> QED
  BY <1>1, <1>3, <1>4, <1>5 DEF PublishInv

(* Every step keeps the types.                                             *)
LEMMA PubTypeStep ==
  ASSUME PubTypeOK, [PubNext]_pubVars
  PROVE  PubTypeOK'
<1>1. ASSUME NEW p \in Pub, Request(p) PROVE PubTypeOK'
  BY <1>1 DEF Request, UnderwayOn, Underway, PubTypeOK, Step, Does, node,
     mine, past, tracker
<1>2. ASSUME NEW p \in Pub, ReadShare(p) PROVE PubTypeOK'
  BY <1>2, PublishAssumption DEF ReadShare, PubTypeOK, Step, Does, node,
     mine, past, tracker
<1>3. ASSUME NEW p \in Pub, ListFiles(p) PROVE PubTypeOK'
  BY <1>3, PublishAssumption DEF ListFiles, PubTypeOK, Step, Does, node,
     mine, past, tracker
<1>4. ASSUME NEW p \in Pub, Update(p) PROVE PubTypeOK'
  BY <1>4 DEF Update, PubTypeOK, Step, Does, node, mine, past, tracker
<1>5. ASSUME NEW p \in Pub, Register(p) PROVE PubTypeOK'
  BY <1>5 DEF Register, PubTypeOK, Step, Does, node, mine, past, tracker
<1>6. ASSUME NEW p \in Pub, RegisterFails(p) PROVE PubTypeOK'
  BY <1>6 DEF RegisterFails, Trouble, PubTypeOK, Step, Does, node, mine,
     past, tracker
<1>7. ASSUME NEW p \in Pub, Announce(p) PROVE PubTypeOK'
  BY <1>7 DEF Announce, PubTypeOK, Step, Does, node, mine, past, tracker
<1>8. ASSUME NEW p \in Pub, AnnounceFails(p) PROVE PubTypeOK'
  BY <1>8 DEF AnnounceFails, Trouble, PubTypeOK, Step, Does, node, mine,
     past, tracker
<1>9. ASSUME NEW p \in Pub, Note(p) PROVE PubTypeOK'
  BY <1>9 DEF Note, PubTypeOK, Step, Does, node, mine, past, tracker
<1>10. ASSUME NEW p \in Pub, PeerExpires(p) PROVE PubTypeOK'
  BY <1>10 DEF PeerExpires, PubTypeOK, Step, Does, node, mine, past,
     tracker
<1>11. ASSUME NEW s \in Share, Rescan(s) PROVE PubTypeOK'
  BY <1>11, PublishAssumption DEF Rescan, Trouble, UnderwayOn, Underway,
     PubTypeOK, Step, Does, node, mine, past, tracker
<1>12. ASSUME NEW s \in Share, AddRow(s) PROVE PubTypeOK'
  BY <1>12, PublishAssumption DEF AddRow, PubTypeOK, Step, Does, node,
     mine, past, tracker
<1>13. ASSUME NEW s \in Share, RemoveShare(s) PROVE PubTypeOK'
  BY <1>13, PublishAssumption DEF RemoveShare, UnderwayOn, Underway,
     PubTypeOK, Step, Does, node, mine, past, tracker
<1>14. ASSUME MasterRestarts PROVE PubTypeOK'
  BY <1>14 DEF MasterRestarts, Trouble, PubTypeOK, Step, Does, node, mine,
     past, tracker
<1>15. ASSUME NodeRestarts PROVE PubTypeOK'
  BY <1>15 DEF NodeRestarts, Trouble, PubTypeOK, Step, Does, node, mine,
     past, tracker
<1>16. CASE UNCHANGED pubVars
  BY <1>16 DEF pubVars, PubTypeOK, Step, Does, node, mine, past, tracker
<1> QED
  BY <1>1, <1>2, <1>3, <1>4, <1>5, <1>6, <1>7, <1>8, <1>9, <1>10, <1>11,
     <1>12, <1>13, <1>14, <1>15, <1>16 DEF PubNext

(* Whoever begins while another is underway is noticed, with that other.   *)
LEMMA PubsMeetStep ==
  ASSUME PubTypeOK, PubsNoticed, [PubNext]_pubVars
  PROVE  PubsNoticed'
<1>1. ASSUME NEW p \in Pub, Request(p) PROVE PubsNoticed'
  BY <1>1 DEF Request, UnderwayOn, PubsNoticed, PubTypeOK, Underway,
     Does, node, mine, past, tracker
<1>2. ASSUME NEW p \in Pub, ReadShare(p) PROVE PubsNoticed'
  BY <1>2 DEF ReadShare, PubsNoticed, PubTypeOK, Underway, Does, node,
     mine, past, tracker
<1>3. ASSUME NEW p \in Pub, ListFiles(p) PROVE PubsNoticed'
  BY <1>3 DEF ListFiles, PubsNoticed, PubTypeOK, Underway, Does, node,
     mine, past, tracker
<1>4. ASSUME NEW p \in Pub, Update(p) PROVE PubsNoticed'
  BY <1>4 DEF Update, PubsNoticed, PubTypeOK, Underway, Does, node,
     mine, past, tracker
<1>5. ASSUME NEW p \in Pub, Register(p) PROVE PubsNoticed'
  BY <1>5 DEF Register, PubsNoticed, PubTypeOK, Underway, Does, node,
     mine, past, tracker
<1>6. ASSUME NEW p \in Pub, RegisterFails(p) PROVE PubsNoticed'
  BY <1>6 DEF RegisterFails, Trouble, PubsNoticed, PubTypeOK,
     Underway, Does, node, mine, past, tracker
<1>7. ASSUME NEW p \in Pub, Announce(p) PROVE PubsNoticed'
  BY <1>7 DEF Announce, PubsNoticed, PubTypeOK, Underway, Does, node,
     mine, past, tracker
<1>8. ASSUME NEW p \in Pub, AnnounceFails(p) PROVE PubsNoticed'
  BY <1>8 DEF AnnounceFails, Trouble, PubsNoticed, PubTypeOK,
     Underway, Does, node, mine, past, tracker
<1>9. ASSUME NEW p \in Pub, Note(p) PROVE PubsNoticed'
  BY <1>9 DEF Note, PubsNoticed, PubTypeOK, Underway, Does, node,
     mine, past, tracker
<1>10. ASSUME NEW p \in Pub, PeerExpires(p) PROVE PubsNoticed'
  BY <1>10 DEF PeerExpires, PubsNoticed, PubTypeOK, Underway, Does,
     node, mine, past, tracker
<1>11. ASSUME NEW s \in Share, Rescan(s) PROVE PubsNoticed'
  BY <1>11 DEF Rescan, Trouble, PubsNoticed, PubTypeOK, Underway,
     Does, node, mine, past, tracker
<1>12. ASSUME NEW s \in Share, AddRow(s) PROVE PubsNoticed'
  BY <1>12 DEF AddRow, PubsNoticed, PubTypeOK, Underway, Does, node,
     mine, past, tracker
<1>13. ASSUME NEW s \in Share, RemoveShare(s) PROVE PubsNoticed'
  BY <1>13 DEF RemoveShare, PubsNoticed, PubTypeOK, Underway, Does,
     node, mine, past, tracker
<1>14. ASSUME MasterRestarts PROVE PubsNoticed'
  BY <1>14 DEF MasterRestarts, Trouble, PubsNoticed, PubTypeOK,
     Underway, Does, node, mine, past, tracker
<1>15. ASSUME NodeRestarts PROVE PubsNoticed'
  BY <1>15 DEF NodeRestarts, Trouble, PubsNoticed, PubTypeOK,
     Underway, Does, node, mine, past, tracker
<1>16. CASE UNCHANGED pubVars
  BY <1>16 DEF pubVars, PubsNoticed, PubTypeOK, Underway, Does, node,
     mine, past, tracker
<1> QED
  BY <1>1, <1>2, <1>3, <1>4, <1>5, <1>6, <1>7, <1>8, <1>9, <1>10, <1>11,
     <1>12, <1>13, <1>14, <1>15, <1>16 DEF PubNext

(* Who reads the revision counts from one no written one exceeds; nobody    *)
(* else of the share is underway when an unmingled publication writes.     *)
LEMMA BehindStep ==
  ASSUME PubTypeOK, PubsNoticed, WrittenBehind, [PubNext]_pubVars
  PROVE  WrittenBehind'
<1>1. ASSUME NEW p \in Pub, Request(p) PROVE WrittenBehind'
  BY <1>1 DEF Request, UnderwayOn, WrittenBehind, Wrote, PubsNoticed,
     PubTypeOK, Underway, Does, node, mine, past, tracker
<1>2. ASSUME NEW p \in Pub, ReadShare(p) PROVE WrittenBehind'
  BY <1>2 DEF ReadShare, WrittenBehind, Wrote, PubsNoticed, PubTypeOK,
     Underway, Does, node, mine, past, tracker
<1>3. ASSUME NEW p \in Pub, ListFiles(p) PROVE WrittenBehind'
  BY <1>3 DEF ListFiles, WrittenBehind, Wrote, PubsNoticed, PubTypeOK,
     Underway, Does, node, mine, past, tracker
<1>4. ASSUME NEW p \in Pub, Update(p) PROVE WrittenBehind'
  BY <1>4 DEF Update, WrittenBehind, Wrote, PubsNoticed, PubTypeOK,
     Underway, Does, node, mine, past, tracker
<1>5. ASSUME NEW p \in Pub, Register(p) PROVE WrittenBehind'
  BY <1>5 DEF Register, WrittenBehind, Wrote, PubsNoticed, PubTypeOK,
     Underway, Does, node, mine, past, tracker
<1>6. ASSUME NEW p \in Pub, RegisterFails(p) PROVE WrittenBehind'
  BY <1>6 DEF RegisterFails, Trouble, WrittenBehind, Wrote,
     PubsNoticed, PubTypeOK, Underway, Does, node, mine, past, tracker
<1>7. ASSUME NEW p \in Pub, Announce(p) PROVE WrittenBehind'
  BY <1>7 DEF Announce, WrittenBehind, Wrote, PubsNoticed, PubTypeOK,
     Underway, Does, node, mine, past, tracker
<1>8. ASSUME NEW p \in Pub, AnnounceFails(p) PROVE WrittenBehind'
  BY <1>8 DEF AnnounceFails, Trouble, WrittenBehind, Wrote,
     PubsNoticed, PubTypeOK, Underway, Does, node, mine, past, tracker
<1>9. ASSUME NEW p \in Pub, Note(p) PROVE WrittenBehind'
  BY <1>9 DEF Note, WrittenBehind, Wrote, PubsNoticed, PubTypeOK,
     Underway, Does, node, mine, past, tracker
<1>10. ASSUME NEW p \in Pub, PeerExpires(p) PROVE WrittenBehind'
  BY <1>10 DEF PeerExpires, WrittenBehind, Wrote, PubsNoticed,
     PubTypeOK, Underway, Does, node, mine, past, tracker
<1>11. ASSUME NEW s \in Share, Rescan(s) PROVE WrittenBehind'
  BY <1>11 DEF Rescan, Trouble, WrittenBehind, Wrote, PubsNoticed,
     PubTypeOK, Underway, Does, node, mine, past, tracker
<1>12. ASSUME NEW s \in Share, AddRow(s) PROVE WrittenBehind'
  BY <1>12 DEF AddRow, WrittenBehind, Wrote, PubsNoticed, PubTypeOK,
     Underway, Does, node, mine, past, tracker
<1>13. ASSUME NEW s \in Share, RemoveShare(s) PROVE WrittenBehind'
  BY <1>13 DEF RemoveShare, WrittenBehind, Wrote, PubsNoticed,
     PubTypeOK, Underway, Does, node, mine, past, tracker
<1>14. ASSUME MasterRestarts PROVE WrittenBehind'
  BY <1>14 DEF MasterRestarts, Trouble, WrittenBehind, Wrote,
     PubsNoticed, PubTypeOK, Underway, Does, node, mine, past, tracker
<1>15. ASSUME NodeRestarts PROVE WrittenBehind'
  BY <1>15 DEF NodeRestarts, Trouble, WrittenBehind, Wrote,
     PubsNoticed, PubTypeOK, Underway, Does, node, mine, past, tracker
<1>16. CASE UNCHANGED pubVars
  BY <1>16 DEF pubVars, WrittenBehind, Wrote, PubsNoticed, PubTypeOK,
     Underway, Does, node, mine, past, tracker
<1> QED
  BY <1>1, <1>2, <1>3, <1>4, <1>5, <1>6, <1>7, <1>8, <1>9, <1>10, <1>11,
     <1>12, <1>13, <1>14, <1>15, <1>16 DEF PubNext

(* A new number is greater than those of all that are done.                *)
LEMMA NamesStep ==
  ASSUME PubTypeOK, PubsNoticed, WrittenBehind, RevisionNamesOne, [PubNext]_pubVars
  PROVE  RevisionNamesOne'
<1>1. ASSUME NEW p \in Pub, Request(p) PROVE RevisionNamesOne'
  BY <1>1 DEF Request, UnderwayOn, RevisionNamesOne, WrittenBehind, Wrote,
     PubsNoticed, PubTypeOK, Step, Underway, Does, node, mine, past,
     tracker
<1>2. ASSUME NEW p \in Pub, ReadShare(p) PROVE RevisionNamesOne'
  <2>1. CASE of[p] \in shares
    <3>1. ASSUME NEW q \in Pub \ mingled, q # p, of[q] = of[p], p \notin mingled,
                 step[q] \notin {"new", "read", "failed"}
          PROVE  revision[of[p]] >= no[q]
      BY <1>2, <2>1, <3>1
         DEF ReadShare, PubsNoticed, WrittenBehind, Wrote, PubTypeOK, Step, Underway
    <3>2. no' = [no EXCEPT ![p] = revision[of[p]] + 1]
      BY <1>2, <2>1 DEF ReadShare
    <3>3. \A q \in Pub : q # p => step'[q] = step[q] /\ no'[q] = no[q]
      BY <1>2, <3>2 DEF ReadShare, Does, PubTypeOK
    <3>4. no'[p] = revision[of[p]] + 1
      BY <3>2 DEF PubTypeOK
    <3>5. revision[of[p]] \in Nat /\ \A q \in Pub : no[q] \in Nat
      BY DEF PubTypeOK
    <3>6. \A q \in Pub \ mingled :
             /\ q # p /\ of[q] = of[p] /\ p \notin mingled
             /\ step[q] \notin {"new", "read", "failed"}
             => no'[p] # no[q]
      BY <3>1, <3>4, <3>5
    <3>7. of' = of /\ mingled' = mingled
      BY <1>2 DEF ReadShare, past
    <3> QED
      <4> SUFFICES ASSUME NEW q \in Pub \ mingled, NEW r \in Pub \ mingled,
                          q # r, of[q] = of[r],
                          {step'[q], step'[r]} \cap {"new", "read", "failed"} = {}
                   PROVE  no'[q] # no'[r]
        BY <3>7 DEF RevisionNamesOne
      <4>1. CASE q = p
        BY <3>3, <3>6, <4>1
      <4>2. CASE r = p
        BY <3>3, <3>6, <4>2
      <4>3. CASE q # p /\ r # p
        BY <3>3, <4>3 DEF RevisionNamesOne
      <4> QED
        BY <4>1, <4>2, <4>3
  <2>2. CASE of[p] \notin shares
    BY <1>2, <2>2 DEF ReadShare, RevisionNamesOne, PubTypeOK, Does, past
  <2> QED
    BY <2>1, <2>2
<1>3. ASSUME NEW p \in Pub, ListFiles(p) PROVE RevisionNamesOne'
  BY <1>3 DEF ListFiles, RevisionNamesOne, WrittenBehind, Wrote,
     PubsNoticed, PubTypeOK, Step, Underway, Does, node, mine, past,
     tracker
<1>4. ASSUME NEW p \in Pub, Update(p) PROVE RevisionNamesOne'
  BY <1>4 DEF Update, RevisionNamesOne, WrittenBehind, Wrote,
     PubsNoticed, PubTypeOK, Step, Underway, Does, node, mine, past,
     tracker
<1>5. ASSUME NEW p \in Pub, Register(p) PROVE RevisionNamesOne'
  BY <1>5 DEF Register, RevisionNamesOne, WrittenBehind, Wrote,
     PubsNoticed, PubTypeOK, Step, Underway, Does, node, mine, past,
     tracker
<1>6. ASSUME NEW p \in Pub, RegisterFails(p) PROVE RevisionNamesOne'
  BY <1>6 DEF RegisterFails, Trouble, RevisionNamesOne, WrittenBehind,
     Wrote, PubsNoticed, PubTypeOK, Step, Underway, Does, node, mine,
     past, tracker
<1>7. ASSUME NEW p \in Pub, Announce(p) PROVE RevisionNamesOne'
  BY <1>7 DEF Announce, RevisionNamesOne, WrittenBehind, Wrote,
     PubsNoticed, PubTypeOK, Step, Underway, Does, node, mine, past,
     tracker
<1>8. ASSUME NEW p \in Pub, AnnounceFails(p) PROVE RevisionNamesOne'
  BY <1>8 DEF AnnounceFails, Trouble, RevisionNamesOne, WrittenBehind,
     Wrote, PubsNoticed, PubTypeOK, Step, Underway, Does, node, mine,
     past, tracker
<1>9. ASSUME NEW p \in Pub, Note(p) PROVE RevisionNamesOne'
  BY <1>9 DEF Note, RevisionNamesOne, WrittenBehind, Wrote,
     PubsNoticed, PubTypeOK, Step, Underway, Does, node, mine, past,
     tracker
<1>10. ASSUME NEW p \in Pub, PeerExpires(p) PROVE RevisionNamesOne'
  BY <1>10 DEF PeerExpires, RevisionNamesOne, WrittenBehind, Wrote,
     PubsNoticed, PubTypeOK, Step, Underway, Does, node, mine, past,
     tracker
<1>11. ASSUME NEW s \in Share, Rescan(s) PROVE RevisionNamesOne'
  BY <1>11 DEF Rescan, Trouble, RevisionNamesOne, WrittenBehind, Wrote,
     PubsNoticed, PubTypeOK, Step, Underway, Does, node, mine, past,
     tracker
<1>12. ASSUME NEW s \in Share, AddRow(s) PROVE RevisionNamesOne'
  BY <1>12 DEF AddRow, RevisionNamesOne, WrittenBehind, Wrote,
     PubsNoticed, PubTypeOK, Step, Underway, Does, node, mine, past,
     tracker
<1>13. ASSUME NEW s \in Share, RemoveShare(s) PROVE RevisionNamesOne'
  BY <1>13 DEF RemoveShare, RevisionNamesOne, WrittenBehind, Wrote,
     PubsNoticed, PubTypeOK, Step, Underway, Does, node, mine, past,
     tracker
<1>14. ASSUME MasterRestarts PROVE RevisionNamesOne'
  BY <1>14 DEF MasterRestarts, Trouble, RevisionNamesOne, WrittenBehind,
     Wrote, PubsNoticed, PubTypeOK, Step, Underway, Does, node, mine,
     past, tracker
<1>15. ASSUME NodeRestarts PROVE RevisionNamesOne'
  BY <1>15 DEF NodeRestarts, Trouble, RevisionNamesOne, WrittenBehind,
     Wrote, PubsNoticed, PubTypeOK, Step, Underway, Does, node, mine,
     past, tracker
<1>16. CASE UNCHANGED pubVars
  BY <1>16 DEF pubVars, RevisionNamesOne, WrittenBehind, Wrote,
     PubsNoticed, PubTypeOK, Step, Underway, Does, node, mine, past,
     tracker
<1> QED
  BY <1>1, <1>2, <1>3, <1>4, <1>5, <1>6, <1>7, <1>8, <1>9, <1>10, <1>11,
     <1>12, <1>13, <1>14, <1>15, <1>16 DEF PubNext

(* What disturbs a publication is another of its share, a scan or its       *)
(* removal, and each of them is noticed.                                   *)
LEMMA QuietPubStep ==
  ASSUME PubTypeOK, PubsNoticed, QuietPubs, [PubNext]_pubVars
  PROVE  QuietPubs'
<1>1. ASSUME NEW p \in Pub, Request(p) PROVE QuietPubs'
  BY <1>1 DEF Request, UnderwayOn, QuietPubs, PubsNoticed,
     PubTypeOK, Step, Underway, Does, node, mine, past, tracker
<1>2. ASSUME NEW p \in Pub, ReadShare(p) PROVE QuietPubs'
  BY <1>2 DEF ReadShare, QuietPubs, PubsNoticed, PubTypeOK, Step,
     Underway, Does, node, mine, past, tracker
<1>3. ASSUME NEW p \in Pub, ListFiles(p) PROVE QuietPubs'
  BY <1>3 DEF ListFiles, QuietPubs, PubsNoticed, PubTypeOK, Step,
     Underway, Does, node, mine, past, tracker
<1>4. ASSUME NEW p \in Pub, Update(p) PROVE QuietPubs'
  BY <1>4 DEF Update, QuietPubs, PubsNoticed, PubTypeOK, Step,
     Underway, Does, node, mine, past, tracker
<1>5. ASSUME NEW p \in Pub, Register(p) PROVE QuietPubs'
  BY <1>5 DEF Register, QuietPubs, PubsNoticed, PubTypeOK, Step,
     Underway, Does, node, mine, past, tracker
<1>6. ASSUME NEW p \in Pub, RegisterFails(p) PROVE QuietPubs'
  BY <1>6 DEF RegisterFails, Trouble, QuietPubs, PubsNoticed,
     PubTypeOK, Step, Underway, Does, node, mine, past, tracker
<1>7. ASSUME NEW p \in Pub, Announce(p) PROVE QuietPubs'
  BY <1>7 DEF Announce, QuietPubs, PubsNoticed, PubTypeOK, Step,
     Underway, Does, node, mine, past, tracker
<1>8. ASSUME NEW p \in Pub, AnnounceFails(p) PROVE QuietPubs'
  BY <1>8 DEF AnnounceFails, Trouble, QuietPubs, PubsNoticed,
     PubTypeOK, Step, Underway, Does, node, mine, past, tracker
<1>9. ASSUME NEW p \in Pub, Note(p) PROVE QuietPubs'
  BY <1>9 DEF Note, QuietPubs, PubsNoticed, PubTypeOK, Step,
     Underway, Does, node, mine, past, tracker
<1>10. ASSUME NEW p \in Pub, PeerExpires(p) PROVE QuietPubs'
  BY <1>10 DEF PeerExpires, QuietPubs, PubsNoticed, PubTypeOK,
     Step, Underway, Does, node, mine, past, tracker
<1>11. ASSUME NEW s \in Share, Rescan(s) PROVE QuietPubs'
  BY <1>11 DEF Rescan, Trouble, UnderwayOn, QuietPubs, PubsNoticed,
     PubTypeOK, Step, Underway, Does, node, mine, past, tracker
<1>12. ASSUME NEW s \in Share, AddRow(s) PROVE QuietPubs'
  BY <1>12 DEF AddRow, QuietPubs, PubsNoticed, PubTypeOK, Step,
     Underway, Does, node, mine, past, tracker
<1>13. ASSUME NEW s \in Share, RemoveShare(s) PROVE QuietPubs'
  BY <1>13 DEF RemoveShare, UnderwayOn, QuietPubs, PubsNoticed,
     PubTypeOK, Step, Underway, Does, node, mine, past, tracker
<1>14. ASSUME MasterRestarts PROVE QuietPubs'
  BY <1>14 DEF MasterRestarts, Trouble, QuietPubs, PubsNoticed,
     PubTypeOK, Step, Underway, Does, node, mine, past, tracker
<1>15. ASSUME NodeRestarts PROVE QuietPubs'
  BY <1>15 DEF NodeRestarts, Trouble, QuietPubs, PubsNoticed,
     PubTypeOK, Step, Underway, Does, node, mine, past, tracker
<1>16. CASE UNCHANGED pubVars
  BY <1>16 DEF pubVars, QuietPubs, PubsNoticed, PubTypeOK, Step,
     Underway, Does, node, mine, past, tracker
<1> QED
  BY <1>1, <1>2, <1>3, <1>4, <1>5, <1>6, <1>7, <1>8, <1>9, <1>10, <1>11,
     <1>12, <1>13, <1>14, <1>15, <1>16 DEF PubNext

(* The tracker forgets by a restart only.                                  *)
LEMMA AccountedStep ==
  ASSUME PubTypeOK, Accounted, [PubNext]_pubVars
  PROVE  Accounted'
<1>1. ASSUME NEW p \in Pub, Request(p) PROVE Accounted'
  BY <1>1 DEF Request, UnderwayOn, Accounted, PubTypeOK, Underway, Does,
     node, mine, past, tracker
<1>2. ASSUME NEW p \in Pub, ReadShare(p) PROVE Accounted'
  BY <1>2 DEF ReadShare, Accounted, PubTypeOK, Underway, Does, node, mine,
     past, tracker
<1>3. ASSUME NEW p \in Pub, ListFiles(p) PROVE Accounted'
  BY <1>3 DEF ListFiles, Accounted, PubTypeOK, Underway, Does, node, mine,
     past, tracker
<1>4. ASSUME NEW p \in Pub, Update(p) PROVE Accounted'
  BY <1>4 DEF Update, Accounted, PubTypeOK, Underway, Does, node, mine,
     past, tracker
<1>5. ASSUME NEW p \in Pub, Register(p) PROVE Accounted'
  BY <1>5 DEF Register, Accounted, PubTypeOK, Underway, Does, node, mine,
     past, tracker
<1>6. ASSUME NEW p \in Pub, RegisterFails(p) PROVE Accounted'
  BY <1>6 DEF RegisterFails, Trouble, Accounted, PubTypeOK, Underway,
     Does, node, mine, past, tracker
<1>7. ASSUME NEW p \in Pub, Announce(p) PROVE Accounted'
  BY <1>7 DEF Announce, Accounted, PubTypeOK, Underway, Does, node, mine,
     past, tracker
<1>8. ASSUME NEW p \in Pub, AnnounceFails(p) PROVE Accounted'
  BY <1>8 DEF AnnounceFails, Trouble, Accounted, PubTypeOK, Underway,
     Does, node, mine, past, tracker
<1>9. ASSUME NEW p \in Pub, Note(p) PROVE Accounted'
  BY <1>9 DEF Note, Accounted, PubTypeOK, Underway, Does, node, mine,
     past, tracker
<1>10. ASSUME NEW p \in Pub, PeerExpires(p) PROVE Accounted'
  BY <1>10 DEF PeerExpires, Accounted, PubTypeOK, Underway, Does, node,
     mine, past, tracker
<1>11. ASSUME NEW s \in Share, Rescan(s) PROVE Accounted'
  BY <1>11 DEF Rescan, Trouble, Accounted, PubTypeOK, Underway, Does,
     node, mine, past, tracker
<1>12. ASSUME NEW s \in Share, AddRow(s) PROVE Accounted'
  BY <1>12 DEF AddRow, Accounted, PubTypeOK, Underway, Does, node, mine,
     past, tracker
<1>13. ASSUME NEW s \in Share, RemoveShare(s) PROVE Accounted'
  BY <1>13 DEF RemoveShare, Accounted, PubTypeOK, Underway, Does, node,
     mine, past, tracker
<1>14. ASSUME MasterRestarts PROVE Accounted'
  BY <1>14 DEF MasterRestarts, Trouble, Accounted, PubTypeOK, Underway,
     Does, node, mine, past, tracker
<1>15. ASSUME NodeRestarts PROVE Accounted'
  BY <1>15 DEF NodeRestarts, Trouble, Accounted, PubTypeOK, Underway,
     Does, node, mine, past, tracker
<1>16. CASE UNCHANGED pubVars
  BY <1>16 DEF pubVars, Accounted, PubTypeOK, Underway, Does, node, mine,
     past, tracker
<1> QED
  BY <1>1, <1>2, <1>3, <1>4, <1>5, <1>6, <1>7, <1>8, <1>9, <1>10, <1>11,
     <1>12, <1>13, <1>14, <1>15, <1>16 DEF PubNext

(* What is announced and noted is past its registration.                   *)
LEMMA ListedStep ==
  ASSUME PubTypeOK, Accounted, RegisteredIsListed, [PubNext]_pubVars
  PROVE  RegisteredIsListed'
<1>1. ASSUME NEW p \in Pub, Request(p) PROVE RegisteredIsListed'
  BY <1>1 DEF Request, UnderwayOn, RegisteredIsListed, Accounted,
     PubTypeOK, Does, node, mine, past, tracker
<1>2. ASSUME NEW p \in Pub, ReadShare(p) PROVE RegisteredIsListed'
  BY <1>2 DEF ReadShare, RegisteredIsListed, Accounted, PubTypeOK, Does,
     node, mine, past, tracker
<1>3. ASSUME NEW p \in Pub, ListFiles(p) PROVE RegisteredIsListed'
  BY <1>3 DEF ListFiles, RegisteredIsListed, Accounted, PubTypeOK, Does,
     node, mine, past, tracker
<1>4. ASSUME NEW p \in Pub, Update(p) PROVE RegisteredIsListed'
  BY <1>4 DEF Update, RegisteredIsListed, Accounted, PubTypeOK, Does,
     node, mine, past, tracker
<1>5. ASSUME NEW p \in Pub, Register(p) PROVE RegisteredIsListed'
  BY <1>5 DEF Register, RegisteredIsListed, Accounted, PubTypeOK, Does,
     node, mine, past, tracker
<1>6. ASSUME NEW p \in Pub, RegisterFails(p) PROVE RegisteredIsListed'
  BY <1>6 DEF RegisterFails, Trouble, RegisteredIsListed, Accounted,
     PubTypeOK, Does, node, mine, past, tracker
<1>7. ASSUME NEW p \in Pub, Announce(p) PROVE RegisteredIsListed'
  BY <1>7 DEF Announce, RegisteredIsListed, Accounted, PubTypeOK, Does,
     node, mine, past, tracker
<1>8. ASSUME NEW p \in Pub, AnnounceFails(p) PROVE RegisteredIsListed'
  BY <1>8 DEF AnnounceFails, Trouble, RegisteredIsListed, Accounted,
     PubTypeOK, Does, node, mine, past, tracker
<1>9. ASSUME NEW p \in Pub, Note(p) PROVE RegisteredIsListed'
  BY <1>9, PublishAssumption DEF Note, RegisteredIsListed, Accounted,
     PubTypeOK, Does, node, mine, past, tracker
<1>10. ASSUME NEW p \in Pub, PeerExpires(p) PROVE RegisteredIsListed'
  BY <1>10 DEF PeerExpires, RegisteredIsListed, Accounted, PubTypeOK,
     Does, node, mine, past, tracker
<1>11. ASSUME NEW s \in Share, Rescan(s) PROVE RegisteredIsListed'
  BY <1>11 DEF Rescan, Trouble, RegisteredIsListed, Accounted, PubTypeOK,
     Does, node, mine, past, tracker
<1>12. ASSUME NEW s \in Share, AddRow(s) PROVE RegisteredIsListed'
  BY <1>12 DEF AddRow, RegisteredIsListed, Accounted, PubTypeOK, Does,
     node, mine, past, tracker
<1>13. ASSUME NEW s \in Share, RemoveShare(s) PROVE RegisteredIsListed'
  BY <1>13 DEF RemoveShare, RegisteredIsListed, Accounted, PubTypeOK,
     Does, node, mine, past, tracker
<1>14. ASSUME MasterRestarts PROVE RegisteredIsListed'
  BY <1>14 DEF MasterRestarts, Trouble, RegisteredIsListed, Accounted,
     PubTypeOK, Does, node, mine, past, tracker
<1>15. ASSUME NodeRestarts PROVE RegisteredIsListed'
  BY <1>15, PublishAssumption DEF NodeRestarts, Trouble,
     RegisteredIsListed, Accounted, PubTypeOK, Does, node, mine, past,
     tracker
<1>16. CASE UNCHANGED pubVars
  BY <1>16 DEF pubVars, RegisteredIsListed, Accounted, PubTypeOK, Does,
     node, mine, past, tracker
<1> QED
  BY <1>1, <1>2, <1>3, <1>4, <1>5, <1>6, <1>7, <1>8, <1>9, <1>10, <1>11,
     <1>12, <1>13, <1>14, <1>15, <1>16 DEF PubNext

-----------------------------------------------------------------------------
(* Every step keeps all of it.                                             *)
LEMMA PubNextInv == PublishInv /\ [PubNext]_pubVars => PublishInv'
BY PubTypeStep, PubsMeetStep, BehindStep, NamesStep, QuietPubStep, AccountedStep, ListedStep
   DEF PublishInv

(* Every reachable state satisfies the invariant.                          *)
THEOREM PubInvariance == PubSpec => []PublishInv
BY PubNextInv, PubInitInv, PTL DEF PubSpec

(* Every variable keeps its type.                                          *)
THEOREM PubTypeCorrect == PubSpec => []PubTypeOK
<1>1. PublishInv => PubTypeOK
  BY DEF PublishInv
<1> QED
  BY <1>1, PubInvariance, PTL

(* Publications that met no other of their share have different revisions, *)
(* although the revision is read, and written in a later statement.        *)
THEOREM RevisionsDiffer == PubSpec => []RevisionNamesOne
<1>1. PublishInv => RevisionNamesOne
  BY DEF PublishInv
<1> QED
  BY <1>1, PubInvariance, PTL

(* What the worker's table calls registered, the tracker lists until it is *)
(* restarted, unless the registration failed.                              *)
THEOREM NotedIsListed == PubSpec => []RegisteredIsListed
<1>1. PublishInv => RegisteredIsListed
  BY DEF PublishInv
<1> QED
  BY <1>1, PubInvariance, PTL

(* publish_and_register leaves the share with its snapshot, every file up  *)
(* to the limit in it, and listed, unless it met a publication or a scan.  *)
THEOREM QuietPublished == PubSpec => []QuietPublication
<1>1. PublishInv => QuietPublication
  BY DEF PublishInv, QuietPubs, Accounted, QuietPublication, Underway
<1> QED
  BY <1>1, PubInvariance, PTL

-----------------------------------------------------------------------------
(* The three services, as they are model-checked. *)

(* Every step of the master is one of a service; the others stand still.   *)
LEMMA ServicesStep ==
  ASSUME [MasterNext]_masterVars
  PROVE  /\ [Next]_vars /\ [FlowNext]_flowVars /\ [PubNext]_pubVars
         /\ UNCHANGED part
<1> DEFINE Goal == /\ [Next]_vars /\ [FlowNext]_flowVars /\ [PubNext]_pubVars
                   /\ UNCHANGED part
<1>1. ASSUME Claims, Next PROVE Goal
  BY <1>1 DEF Claims
<1>2. ASSUME SignIns, FlowNext PROVE Goal
  BY <1>2 DEF SignIns
<1>3. ASSUME Publications, PubNext PROVE Goal
  BY <1>3 DEF Publications
<1>4. ASSUME UNCHANGED masterVars PROVE Goal
  BY <1>4 DEF masterVars
<1> HIDE DEF Goal
<1>5. ASSUME MasterNext PROVE Goal
  <2>1. ASSUME \/ \E r \in Req : Claims /\ ReqStep(r)
               \/ Claims /\ Restart
               \/ Claims /\ NginxReloads
               \/ \E u \in User, a \in Addr : Claims /\ Moves(u, a)
        PROVE  Goal
    BY <1>1, <2>1 DEF Next
  <2>2. ASSUME NEW f \in Flow,
               \/ \E v \in {"node", "master"} : SignIns /\ Login(f, v)
               \/ \E a \in Account : SignIns /\ Consents(f, a)
               \/ SignIns /\ Denies(f)
               \/ SignIns /\ Onward(f)
               \/ SignIns /\ Lapses(f)
               \/ SignIns /\ Leaves(f)
               \/ SignIns /\ FlowFails(f)
        PROVE  Goal
    BY <1>2, <2>2 DEF FlowNext
  <2>3. ASSUME \/ SignIns /\ MasterForgets
               \/ SignIns /\ NodeForgets
               \/ SignIns /\ Expires
               \/ \E a \in Account, n \in Name : SignIns /\ Renames(a, n)
        PROVE  Goal
    BY <1>2, <2>3 DEF FlowNext
  <2>4. ASSUME NEW p \in Pub,
               \/ Publications /\ Request(p)
               \/ Publications /\ ReadShare(p)
               \/ Publications /\ ListFiles(p)
               \/ Publications /\ Update(p)
               \/ Publications /\ Register(p)
               \/ Publications /\ RegisterFails(p)
               \/ Publications /\ Announce(p)
               \/ Publications /\ AnnounceFails(p)
               \/ Publications /\ Note(p)
               \/ Publications /\ PeerExpires(p)
        PROVE  Goal
    BY <1>3, <2>4 DEF PubNext
  <2>5. ASSUME \/ \E s \in Share :
                    \/ Publications /\ Rescan(s)
                    \/ Publications /\ AddRow(s)
                    \/ Publications /\ RemoveShare(s)
               \/ Publications /\ MasterRestarts
               \/ Publications /\ NodeRestarts
        PROVE  Goal
    BY <1>3, <2>5 DEF PubNext
  <2> QED
    BY <1>5, <2>1, <2>2, <2>3, <2>4, <2>5 DEF MasterNext
<1> QED
  BY <1>4, <1>5 DEF Goal

MasterInv ==
  /\ part \in {"claims", "sign-ins", "publications"}
  /\ ClaimInv /\ IInv /\ PublishInv

(* The invariants of the three services hold of the master.                *)
THEOREM MasterInvariance == MasterSpec => []MasterInv
<1>1. MasterInit => MasterInv
  BY ClaimInitInv, InitInv, PubInitInv DEF MasterInit, MasterInv
<1>2. ASSUME MasterInv, [MasterNext]_masterVars PROVE MasterInv'
  BY <1>2, ServicesStep, ClaimNextInv, NextInv, PubNextInv DEF MasterInv
<1> QED
  BY <1>1, <1>2, PTL DEF MasterSpec

(* Every variable of the three services keeps its type.                    *)
THEOREM MasterTypeCorrect == MasterSpec => []MasterTypeOK
<1>1. MasterInv => MasterTypeOK
  BY DEF MasterInv, ClaimInv, IInv, PublishInv, MasterTypeOK
<1> QED
  BY <1>1, MasterInvariance, PTL

(* What the safety checks of the master check on a small instance: a claim *)
(* alone is served, what the node stored of a sign-in fits the master's    *)
(* users, a sign-in or publication alone takes effect, and what fails or   *)
(* is not listed has its cause.                                            *)
THEOREM MasterSafe ==
  MasterSpec => [](/\ QuietRequestServes
                   /\ ClaimsFit /\ QuietSignInTakes /\ FailureHasCause
                   /\ QuietPublication /\ RevisionNamesOne /\ RegisteredIsListed)
<1>1. MasterInv => QuietRequestServes
  BY DEF MasterInv, ClaimInv, QuietClaims, QuietRequestServes
<1>2. MasterInv => ClaimsFit
  BY SignInAssumption
     DEF MasterInv, IInv, ContextsCurrent, UsersCurrent, Current, ClaimsFit, Verdict, Context,
         FlowTypeOK
<1>3. MasterInv => QuietSignInTakes /\ FailureHasCause
  BY DEF MasterInv, IInv, QuietInOrder, QuietSignInTakes
<1>4. MasterInv => QuietPublication
  BY DEF MasterInv, PublishInv, QuietPubs, Accounted, QuietPublication, Underway
<1>5. MasterInv => RevisionNamesOne /\ RegisteredIsListed
  BY DEF MasterInv, PublishInv
<1> QED
  BY <1>1, <1>2, <1>3, <1>4, <1>5, MasterInvariance, PTL

(* The master, sign-ins and publications beside the claims, takes away     *)
(* from nobody what a claim has given, unless claims meet.                 *)
THEOREM MasterKeeps == MasterSpec => NothingTakenAway
<1>1. MasterInv /\ [MasterNext]_masterVars =>
        [\A u \in User :
           /\ bindings[u] # None => bindings'[u] # None
           /\ bindings[u] \in Addr /\ bindings'[u] \notin Addr =>
                \E r \in Req : pc[r] = "upsert" /\ who[r] = u /\ ~alone[r]]_bindings
  BY ServicesStep, KeptStep DEF MasterInv
<1>2. MasterInv /\ [MasterNext]_masterVars =>
        [/\ zone \cap Other \subseteq zone'
         /\ zone \subseteq zone' \/ \E r \in Req : pc[r] = "setHosts" /\ ~alone[r]]_zone
  BY ServicesStep, SurviveStep DEF MasterInv
<1>3. MasterSpec => BindingsKept
  BY <1>1, MasterInvariance, PTL DEF MasterSpec, BindingsKept
<1>4. MasterSpec => RecordsSurvive
  BY <1>2, MasterInvariance, PTL DEF MasterSpec, RecordsSurvive
<1>5. MasterInv => BoundHasRecord
  BY DEF MasterInv, ClaimInv
<1>6. MasterSpec => []BoundHasRecord
  BY <1>5, MasterInvariance, PTL
<1> QED
  BY <1>3, <1>4, <1>6 DEF NothingTakenAway
=============================================================================
