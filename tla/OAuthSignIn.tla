------------------------------ MODULE OAuthSignIn ------------------------------
(***************************************************************************)
(* A user signs in with Google.  The master keeps the state of a login and *)
(* the redeem codes in memory (_OAUTH_STATES, delegated._redeem), the      *)
(* users in users.json; it sends the browser back to the node on the       *)
(* user's machine with a code, which the node redeems at the master for    *)
(* the user's data and a token for DNS claims.  The node keeps the user in *)
(* a users.json of its own and the token in dns_claim.json, from which it  *)
(* claims until somebody else signs in.                                    *)
(*                                                                         *)
(* A flow is one login of one browser: it is at most one request at a      *)
(* time, at the master, at Google or at the node, and different flows      *)
(* interleave.  Times are not counted: what has a time to live may lapse   *)
(* whenever it waits.  A name is the part of the e-mail address that       *)
(* becomes user name and label; nothing keeps two accounts from having the *)
(* same one.  What happens to the zone and to nginx is in DnsMaster, what  *)
(* happens to runtime_state.json in NodeState.                             *)
(***************************************************************************)
EXTENDS Naturals

CONSTANTS
  Flow,                \* logins, numbered as they begin
  Account, Name,       \* accounts at Google, names
  Unset, Broken,       \* nothing; a file that holds no JSON
  RenameLimit,         \* bound on accounts that get another address
  LossLimit            \* bound on failures and restarts

ASSUME SignInAssumption ==
  /\ Flow \subseteq Nat
  /\ Unset # Broken /\ Unset \notin Account \cup Name
  /\ {RenameLimit, LossLimit} \subseteq Nat

VARIABLES
  google,              \* the name each account has at Google
  states, codes,       \* at the master: states and codes not yet used
  masterUsers,         \* users.json of the master: name by account
  nodeUsers,           \* users.json of the node
  draft, context,      \* dns_claim.json.tmp and dns_claim.json
  at, via,             \* a flow: where it is, and where it is to end
  account, name,       \* its account, the name it carries,
  token,               \* its token for claims,
  late, open,          \* is its state or code too old?  the file it has open
  met,                 \* history: flows that met another one at the node
  excused,             \* history: flows something has gone wrong with
  renamed,             \* history: accounts that have changed their name
  renames, losses

master    == <<states, codes, masterUsers>>
nodeFiles == <<nodeUsers, draft, context>>
carried   == <<via, account, name, token, late, open>>
history   == <<met, excused, renamed, renames, losses>>
flowVars  == <<google, master, nodeFiles, at, carried, history>>

Token   == {"good", "split", "expired"}
Context == [who : Account, name : Name, token : Token]

ASSUME ContextAssumption == {Unset, Broken} \cap Context = {}

Place == {"new", "google", "callback", "exchange", "register", "grant", "carry",
          "redeem", "answer", "open", "write", "replace", "cookie",
          "in", "failed", "left"}

FlowTypeOK ==
  /\ google \in [Account -> Name]
  /\ states \subseteq Flow /\ codes \subseteq Flow
  /\ masterUsers \in [Account -> Name \cup {Unset}]
  /\ nodeUsers \in [Account -> Name \cup {Unset}]
  /\ draft \in Context \cup {Unset, Broken}
  /\ context \in Context \cup {Unset, Broken}
  /\ at \in [Flow -> Place] /\ via \in [Flow -> {"node", "master"}]
  /\ account \in [Flow -> Account \cup {Unset}]
  /\ name \in [Flow -> Name \cup {Unset}]
  /\ token \in [Flow -> Token \cup {Unset}]
  /\ late \in [Flow -> BOOLEAN]
  /\ open \in [Flow -> {"none", "draft", "context", "gone"}]
  /\ met \subseteq Flow /\ excused \subseteq Flow /\ renamed \subseteq Account
  /\ renames \in Nat /\ losses \in Nat

FlowInit ==
  /\ google \in [Account -> Name]
  /\ states = {} /\ codes = {}
  /\ masterUsers = [a \in Account |-> Unset]
  /\ nodeUsers = [a \in Account |-> Unset]
  /\ draft = Unset /\ context = Unset
  /\ at = [f \in Flow |-> "new"] /\ via = [f \in Flow |-> "node"]
  /\ account = [f \in Flow |-> Unset] /\ name = [f \in Flow |-> Unset]
  /\ token = [f \in Flow |-> Unset] /\ late = [f \in Flow |-> FALSE]
  /\ open = [f \in Flow |-> "none"]
  /\ met = {} /\ excused = {} /\ renamed = {}
  /\ renames = 0 /\ losses = 0

-----------------------------------------------------------------------------
Reaches(f, p) == at' = [at EXCEPT ![f] = p]

(* The places in which a request is being served, and by whom.             *)
AtMaster == {"exchange", "register", "grant"}
AtNode   == {"redeem", "answer", "open", "write", "replace", "cookie"}

-----------------------------------------------------------------------------
(* The login at the master. *)

(* GET /api/oauth/v1/login, directly or by way of the node's /oauth/start. *)
Login(f, v) ==
  /\ at[f] = "new" /\ \A g \in Flow : g < f => at[g] # "new"
  /\ states' = states \cup {f}
  /\ via' = [via EXCEPT ![f] = v]
  /\ Reaches(f, "google")
  /\ UNCHANGED <<google, codes, masterUsers, nodeFiles, account, name, token, late, open,
                 history>>

Consents(f, a) ==
  /\ at[f] = "google"
  /\ account' = [account EXCEPT ![f] = a]
  /\ Reaches(f, "callback")
  /\ UNCHANGED <<google, master, nodeFiles, via, name, token, late, open, history>>

(* An error from Google is answered before the state is looked up.         *)
Denies(f) ==
  /\ at[f] = "google"
  /\ excused' = excused \cup {f}
  /\ Reaches(f, "failed")
  /\ UNCHANGED <<google, master, nodeFiles, carried, met, renamed, renames, losses>>

(* Mutant: a callback empties the table of states.                         *)
CallbackClears(f) ==
  /\ at[f] = "callback"
  /\ states' = {}
  /\ Reaches(f, IF f \in states /\ ~late[f] THEN "exchange" ELSE "failed")
  /\ UNCHANGED <<google, codes, masterUsers, nodeFiles, carried, history>>

(* The state is used up, and refused when it is unknown or too old.        *)
Callback(f) ==
  /\ at[f] = "callback"
  /\ states' = states \ {f}
  /\ Reaches(f, IF f \in states /\ ~late[f] THEN "exchange" ELSE "failed")
  /\ UNCHANGED <<google, codes, masterUsers, nodeFiles, carried, history>>

(* Google tells the address the account has now.                           *)
Exchange(f) ==
  /\ at[f] = "exchange"
  /\ name' = [name EXCEPT ![f] = google[account[f]]]
  /\ Reaches(f, "register")
  /\ UNCHANGED <<google, master, nodeFiles, via, account, token, late, open, history>>

(* Mutant: a user is looked up by name.                                    *)
RegisterByName(f) ==
  /\ at[f] = "register"
  /\ masterUsers' = IF \E a \in Account : masterUsers[a] = name[f]
                    THEN masterUsers
                    ELSE [masterUsers EXCEPT ![account[f]] = name[f]]
  /\ Reaches(f, "grant")
  /\ UNCHANGED <<google, states, codes, nodeFiles, carried, history>>

(* users.upsert_user: load, change and save under its lock.                *)
RegisterUser(f) ==
  /\ at[f] = "register"
  /\ masterUsers' = [masterUsers EXCEPT ![account[f]] = name[f]]
  /\ Reaches(f, "grant")
  /\ UNCHANGED <<google, states, codes, nodeFiles, carried, history>>

(* A login by way of the node ends in a code, one at the master in a       *)
(* cookie.                                                                 *)
Grant(f) ==
  /\ at[f] = "grant"
  /\ IF via[f] = "node" THEN /\ codes' = codes \cup {f} /\ Reaches(f, "carry")
                        ELSE /\ Reaches(f, "in") /\ UNCHANGED codes
  /\ UNCHANGED <<google, states, masterUsers, nodeFiles, carried, history>>

-----------------------------------------------------------------------------
(* The node redeems the code. *)
(* GET /oauth/callback of the node, which asks the master.                 *)
Follow(f) ==
  /\ at[f] = "carry"
  /\ Reaches(f, "redeem")
  /\ met' = IF \E g \in Flow : at[g] \in AtNode
            THEN met \cup {f} \cup {g \in Flow : at[g] \in AtNode} ELSE met
  /\ UNCHANGED <<google, master, nodeFiles, carried, excused, renamed, renames, losses>>

(* POST /api/oauth/v1/redeem: the code is used up; the name is the one the *)
(* master has by now, else the one of the address.  sign_session joins     *)
(* body and signature with a dot and verify_session looks for the last     *)
(* one: a signature with a dot among its bytes gives a token that is never *)
(* accepted.                                                               *)
Consume(f) ==
  /\ at[f] = "redeem"
  /\ codes' = codes \ {f}
  /\ IF f \in codes /\ ~late[f]
     THEN /\ name' = [name EXCEPT ![f] = IF masterUsers[account[f]] = Unset THEN @
                                        ELSE masterUsers[account[f]]]
          /\ \E t \in {"good", "split"} : token' = [token EXCEPT ![f] = t]
          /\ Reaches(f, "answer")
     ELSE Reaches(f, "failed") /\ UNCHANGED <<name, token>>
  /\ UNCHANGED <<google, states, masterUsers, nodeFiles, via, account, late, open,
                 history>>

(* upsert_user again, in the node's own users.json.                        *)
NodeRegister(f) ==
  /\ at[f] = "answer"
  /\ nodeUsers' = [nodeUsers EXCEPT ![account[f]] = name[f]]
  /\ Reaches(f, "open")
  /\ UNCHANGED <<google, master, draft, context, carried, history>>

-----------------------------------------------------------------------------
(* save_claim_context: one temporary file for all. *)
Own(f) == [who |-> account[f], name |-> name[f], token |-> token[f]]

OpenDraft(f) ==
  /\ at[f] = "open"
  /\ draft' = Broken
  /\ open' = [open EXCEPT ![f] = "draft"]
  /\ Reaches(f, "write")
  /\ UNCHANGED <<google, master, nodeUsers, context, via, account, name, token, late,
                 history>>

(* What another flow has written to the file may be longer.                *)
Over(old, new) == IF old = Broken THEN {new} ELSE {new, Broken}

WriteDraft(f) ==
  /\ at[f] = "write"
  /\ draft' \in IF open[f] = "draft" THEN Over(draft, Own(f)) ELSE {draft}
  /\ context' \in IF open[f] = "context" THEN Over(context, Own(f)) ELSE {context}
  /\ open' = [open EXCEPT ![f] = "none"]
  /\ Reaches(f, "replace")
  /\ UNCHANGED <<google, master, nodeUsers, via, account, name, token, late, history>>

(* Mutant: the context of the first user stays.                            *)
ReplaceFirst(f) ==
  /\ at[f] = "replace"
  /\ draft # Unset
  /\ context' = IF context = Unset THEN draft ELSE context
  /\ draft' = Unset
  /\ open' = [g \in Flow |-> IF open[g] = "none" THEN "none" ELSE "gone"]
  /\ Reaches(f, "cookie")
  /\ UNCHANGED <<google, master, nodeUsers, via, account, name, token, late, history>>

ReplaceContext(f) ==
  /\ at[f] = "replace"
  /\ draft # Unset
  /\ context' = draft
  /\ draft' = Unset
  /\ open' = [g \in Flow |-> CASE open[g] = "draft" -> "context"
                               [] open[g] = "context" -> "gone"
                               [] OTHER -> open[g]]
  /\ Reaches(f, "cookie")
  /\ UNCHANGED <<google, master, nodeUsers, via, account, name, token, late, history>>

(* Another flow has renamed the file: the answer is 500.                   *)
ReplaceContextFails(f) ==
  /\ at[f] = "replace"
  /\ draft = Unset
  /\ Reaches(f, "failed")
  /\ UNCHANGED <<google, master, nodeFiles, carried, history>>

(* The runtime state is saved (its own module), a claim is started, and    *)
(* the browser gets the node's cookie.                                     *)
SignedIn(f) ==
  /\ at[f] = "cookie"
  /\ Reaches(f, "in")
  /\ UNCHANGED <<google, master, nodeFiles, carried, history>>

-----------------------------------------------------------------------------
(* What a claim of the node meets at the master before DnsMaster begins. *)
Verdict(c) ==
  CASE c.token # "good"           -> "not_authenticated"
    [] masterUsers[c.who] = Unset  -> "user_unknown"
    [] masterUsers[c.who] # c.name -> "label_must_match_username"
    [] OTHER                       -> "accepted"

-----------------------------------------------------------------------------
(* Time, failures and people. *)
(* A state lives 600 s, a code 300 s.                                      *)
Lapses(f) ==
  /\ at[f] \in {"google", "carry"}
  /\ ~late[f]
  /\ late' = [late EXCEPT ![f] = TRUE]
  /\ excused' = excused \cup {f}
  /\ UNCHANGED <<google, master, nodeFiles, at, via, account, name, token, open, met,
                 renamed, renames, losses>>

(* Nobody removes the state or the code then.                              *)
Leaves(f) ==
  /\ at[f] \in {"google", "carry"}
  /\ excused' = excused \cup {f}
  /\ Reaches(f, "left")
  /\ UNCHANGED <<google, master, nodeFiles, carried, met, renamed, renames, losses>>

(* The token of a context lives seven days.                                *)
Expires ==
  /\ context \in Context
  /\ context.token = "good"
  /\ context' = [context EXCEPT !.token = "expired"]
  /\ UNCHANGED <<google, master, nodeUsers, draft, at, carried, history>>

Renames(a, n) ==
  /\ renames < RenameLimit
  /\ google[a] # n
  /\ google' = [google EXCEPT ![a] = n]
  /\ renamed' = renamed \cup {a}
  /\ renames' = renames + 1
  /\ UNCHANGED <<master, nodeFiles, at, carried, met, excused, losses>>

(* A call or a statement raises: at "cookie" it is save_state, with the    *)
(* context in its place already.  The master may have used the code up     *)
(* when its answer is lost.                                                *)
FlowFails(f) ==
  /\ at[f] \in AtMaster \cup AtNode
  /\ losses < LossLimit
  /\ losses' = losses + 1
  /\ codes' \in {codes} \cup {codes \ {g} : g \in {g \in {f} : at[f] = "redeem"}}
  /\ open' = [open EXCEPT ![f] = "none"]
  /\ excused' = excused \cup {f}
  /\ Reaches(f, "failed")
  /\ UNCHANGED <<google, states, masterUsers, nodeFiles, via, account, name, token, late,
                 met, renamed, renames>>

(* A restart ends the requests that are being served.                      *)
Cut(places) ==
  /\ losses < LossLimit
  /\ losses' = losses + 1
  /\ at' = [f \in Flow |-> IF at[f] \in places THEN "failed" ELSE at[f]]
  /\ open' = [f \in Flow |-> IF at[f] \in places THEN "none" ELSE open[f]]

(* States and codes are in the memory of the master.                       *)
MasterForgets ==
  /\ Cut(AtMaster \cup {"redeem"})
  /\ states' = {} /\ codes' = {}
  /\ excused' = excused \cup states \cup codes
                        \cup {f \in Flow : at[f] \in AtMaster \cup {"redeem"}}
  /\ UNCHANGED <<google, masterUsers, nodeFiles, via, account, name, token, late, met,
                 renamed, renames>>

NodeForgets ==
  /\ \E f \in Flow : at[f] \in AtNode
  /\ Cut(AtNode)
  /\ excused' = excused \cup {f \in Flow : at[f] \in AtNode}
  /\ UNCHANGED <<google, master, nodeFiles, via, account, name, token, late, met, renamed,
                 renames>>

(* A redirect the browser follows, or a statement of a request.            *)
Onward(f) ==
  \/ Callback(f) \/ Exchange(f) \/ RegisterUser(f) \/ Grant(f) \/ Follow(f) \/ Consume(f)
  \/ NodeRegister(f) \/ OpenDraft(f) \/ WriteDraft(f)
  \/ ReplaceContext(f) \/ ReplaceContextFails(f) \/ SignedIn(f)

FlowNext ==
  \/ \E f \in Flow :
       \/ \E v \in {"node", "master"} : Login(f, v)
       \/ \E a \in Account : Consents(f, a)
       \/ Denies(f) \/ Onward(f) \/ Lapses(f) \/ Leaves(f) \/ FlowFails(f)
  \/ MasterForgets \/ NodeForgets \/ Expires
  \/ \E a \in Account, n \in Name : Renames(a, n)

FlowSpec == FlowInit /\ [][FlowNext]_flowVars

-----------------------------------------------------------------------------
(* Properties. *)

(* Whoever the node claims for is known at the master, under the label it  *)
(* asks for, whatever flows interleave, fail or die: a claim with a live   *)
(* token is refused only to a user whose address at Google has changed     *)
(* since, who then has to sign in at the node again.                       *)
ClaimsFit ==
  context \in Context /\ context.token = "good" =>
    \/ Verdict(context) = "accepted"
    \/ Verdict(context) = "label_must_match_username" /\ context.who \in renamed

(* A flow that met no other at the node and is about to get its cookie has *)
(* left its user in users.json and the token in dns_claim.json, whatever   *)
(* earlier flows left in the temporary file.                               *)
QuietSignInTakes ==
  \A f \in Flow : at[f] = "cookie" /\ f \notin met =>
    /\ nodeUsers[account[f]] = name[f]
    /\ context \in Context
    /\ context.who = account[f] /\ context.name = name[f]

(* No sign-in fails without a cause of its own: a refusal, a time to live, *)
(* a failure, a restart, or another flow that met it at the node.  States  *)
(* and codes of other flows, used up or forgotten, do it no harm.          *)
FailureHasCause ==
  \A f \in Flow : at[f] = "failed" => f \in excused \cup met

(* libs/auth/dns_claim_node.py:1: after OAuth the record is registered     *)
(* with the token from redeem.                                             *)
FreshTokenAccepted ==
  \A f \in Flow : at[f] = "cookie" /\ f \notin met /\ account[f] \notin renamed =>
    context.token = "expired" \/ Verdict(context) = "accepted"
=============================================================================
