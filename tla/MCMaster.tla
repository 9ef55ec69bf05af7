------------------------------ MODULE MCMaster ------------------------------
(* The three services of the master on small instances: claims of names,   *)
(* sign-ins, publications.  They share no variable, and no property speaks *)
(* of two of them, so that a behaviour of one part, chosen at the start,   *)
(* shows all that their interleavings would.  Users are alike, and so are  *)
(* addresses and request threads.                                          *)
EXTENDS DnsMaster, OAuthSignIn, TorrentPublish, TLC

VARIABLE part

masterVars == <<vars, flowVars, pubVars, part>>

MasterTypeOK ==
  /\ part \in {"claims", "sign-ins", "publications"}
  /\ TypeOK /\ FlowTypeOK /\ PubTypeOK

MasterInit ==
  /\ part \in {"claims", "sign-ins", "publications"}
  /\ Init /\ FlowInit /\ PubInit
  /\ part # "sign-ins" => google = [a \in Account |-> CHOOSE n \in Name : TRUE]
  /\ part # "claims" => zone = {}

Claims       == part = "claims"       /\ UNCHANGED <<flowVars, pubVars, part>>
SignIns      == part = "sign-ins"     /\ UNCHANGED <<vars, pubVars, part>>
Publications == part = "publications" /\ UNCHANGED <<vars, flowVars, part>>

MasterNext ==
  \/ \E r \in Req : Claims /\ ReqStep(r)
  \/ Claims /\ Restart
  \/ Claims /\ NginxReloads
  \/ \E u \in User, a \in Addr : Claims /\ Moves(u, a)
  \/ \E f \in Flow :
       \/ \E v \in {"node", "master"} : SignIns /\ Login(f, v)
       \/ \E a \in Account : SignIns /\ Consents(f, a)
       \/ SignIns /\ Denies(f)
       \/ SignIns /\ Onward(f)
       \/ SignIns /\ Lapses(f)
       \/ SignIns /\ Leaves(f)
       \/ SignIns /\ FlowFails(f)
  \/ SignIns /\ MasterForgets
  \/ SignIns /\ NodeForgets
  \/ SignIns /\ Expires
  \/ \E a \in Account, n \in Name : SignIns /\ Renames(a, n)
  \/ \E p \in Pub :
       \/ Publications /\ Request(p)
       \/ Publications /\ ReadShare(p)
       \/ Publications /\ ListFiles(p)
       \/ Publications /\ Update(p)
       \/ Publications /\ Register(p)
       \/ Publications /\ RegisterFails(p)
       \/ Publications /\ Announce(p)
       \/ Publications /\ AnnounceFails(p)
       \/ Publications /\ Note(p)
       \/ Publications /\ PeerExpires(p)
  \/ \E s \in Share :
       \/ Publications /\ Rescan(s)
       \/ Publications /\ AddRow(s)
       \/ Publications /\ RemoveShare(s)
  \/ Publications /\ MasterRestarts
  \/ Publications /\ NodeRestarts

MasterSpec == MasterInit /\ [][MasterNext]_masterVars

Symmetric ==
  Permutations(User) \cup Permutations(Addr) \cup Permutations(Req)
=============================================================================
