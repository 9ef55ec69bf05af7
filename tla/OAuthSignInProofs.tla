--------------------------- MODULE OAuthSignInProofs ---------------------------
(***************************************************************************)
(* What holds of sign-ins for any number of flows, accounts, names,        *)
(* failures and restarts.                                                  *)
(***************************************************************************)
EXTENDS OAuthSignIn, TLAPS

Ended == {"failed", "left"}

(* What a flow carries once it has passed Google, the exchange and the     *)
(* master's answer.                                                        *)
Carries ==
  \A f \in Flow :
    /\ at[f] \notin {"new", "google"} \cup Ended => account[f] \in Account
    /\ at[f] \notin {"new", "google", "callback", "exchange"} \cup Ended => name[f] \in Name
    /\ at[f] \in {"answer", "open", "write", "replace", "cookie"} => token[f] \in Token

(* A name is the one at Google, or the account has had another since.      *)
Current(a, n) == n = google[a] \/ a \in renamed

(* Names and contexts are of accounts the master knows, and current.       *)
UsersCurrent == \A a \in Account : masterUsers[a] # Unset => Current(a, masterUsers[a])

FlowsCurrent ==
  \A f \in Flow :
    /\ at[f] \notin {"new", "google", "callback", "exchange"} \cup Ended =>
         Current(account[f], name[f])
    /\ at[f] \notin {"new", "google", "callback", "exchange", "register"} \cup Ended =>
         masterUsers[account[f]] # Unset

ContextsCurrent ==
  \A c \in Context : c \in {draft, context} =>
    masterUsers[c.who] # Unset /\ Current(c.who, c.name)

(* A state or code is missing, or too old, only for a cause.               *)
HoldsPass ==
  \A f \in Flow :
    /\ late[f] => f \in excused
    /\ at[f] \in {"google", "callback"} => f \in states \cup excused
    /\ at[f] \in {"carry", "redeem"} => f \in codes \cup excused

(* Flows at the node together have met.                                    *)
MeetingsNoticed ==
  \A f, g \in Flow : f # g /\ at[f] \in AtNode /\ at[g] \in AtNode => f \in met

(* What a flow that met no other has left at the node so far.              *)
QuietInOrder ==
  \A f \in Flow \ met :
    /\ at[f] \in {"open", "write", "replace", "cookie"} => nodeUsers[account[f]] = name[f]
    /\ at[f] = "write" => open[f] = "draft" /\ draft = Broken
    /\ at[f] = "replace" => draft = Own(f)
    /\ at[f] = "cookie" =>
         context \in Context /\ context.who = account[f] /\ context.name = name[f]

(* The inductive invariant.                                                *)
IInv ==
  /\ FlowTypeOK /\ Carries
  /\ UsersCurrent /\ FlowsCurrent /\ ContextsCurrent
  /\ HoldsPass /\ MeetingsNoticed /\ QuietInOrder
  /\ FailureHasCause

-----------------------------------------------------------------------------
(* At the start nobody has signed in.                                      *)
LEMMA InitInv == FlowInit => IInv
<1> SUFFICES ASSUME FlowInit PROVE IInv
  OBVIOUS
<1>1. FlowTypeOK
  BY DEF FlowInit, FlowTypeOK, Place
<1>2. Carries /\ FlowsCurrent /\ MeetingsNoticed /\ QuietInOrder /\ FailureHasCause
  BY DEF FlowInit, Carries, FlowsCurrent, MeetingsNoticed, QuietInOrder, FailureHasCause, AtNode
<1>3. UsersCurrent
  BY DEF FlowInit, UsersCurrent
<1>4. ContextsCurrent
  BY ContextAssumption DEF FlowInit, ContextsCurrent
<1>5. HoldsPass
  BY DEF FlowInit, HoldsPass
<1> QED
  BY <1>1, <1>2, <1>3, <1>4, <1>5 DEF IInv

(* What a flow writes to the file is a context.                            *)
LEMMA OwnIsContext ==
  ASSUME Carries, NEW f \in Flow, at[f] \in {"answer", "open", "write", "replace", "cookie"}
  PROVE  Own(f) \in Context
BY DEF Carries, Own, Context, Ended

(* Time changes the token only.                                            *)
LEMMA ExpiredContext ==
  ASSUME Expires
  PROVE  context' \in Context /\ context'.who = context.who /\ context'.name = context.name
BY DEF Expires, Context, Token

(* Every step keeps the types.                                             *)
LEMMA TypeStep ==
  ASSUME FlowTypeOK, Carries, [FlowNext]_flowVars
  PROVE  FlowTypeOK'
<1>1. ASSUME NEW f \in Flow, NEW v \in {"node", "master"}, Login(f, v) PROVE FlowTypeOK'
  BY <1>1 DEF Login, FlowTypeOK, Carries, Place, Ended, master, nodeFiles,
     carried, history, Reaches
<1>2. ASSUME NEW f \in Flow, NEW a \in Account, Consents(f, a) PROVE FlowTypeOK'
  BY <1>2 DEF Consents, FlowTypeOK, Carries, Place, Ended, master, nodeFiles,
     carried, history, Reaches
<1>3. ASSUME NEW f \in Flow, Denies(f) PROVE FlowTypeOK'
  BY <1>3 DEF Denies, FlowTypeOK, Carries, Place, Ended, master, nodeFiles,
     carried, history, Reaches
<1>4. ASSUME NEW f \in Flow, Callback(f) PROVE FlowTypeOK'
  BY <1>4 DEF Callback, FlowTypeOK, Carries, Place, Ended, master, nodeFiles,
     carried, history, Reaches
<1>5. ASSUME NEW f \in Flow, Exchange(f) PROVE FlowTypeOK'
  BY <1>5 DEF Exchange, FlowTypeOK, Carries, Place, Ended, master, nodeFiles,
     carried, history, Reaches
<1>6. ASSUME NEW f \in Flow, RegisterUser(f) PROVE FlowTypeOK'
  BY <1>6 DEF RegisterUser, FlowTypeOK, Carries, Place, Ended, master,
     nodeFiles, carried, history, Reaches
<1>7. ASSUME NEW f \in Flow, Grant(f) PROVE FlowTypeOK'
  BY <1>7 DEF Grant, FlowTypeOK, Carries, Place, Ended, master, nodeFiles,
     carried, history, Reaches
<1>8. ASSUME NEW f \in Flow, Follow(f) PROVE FlowTypeOK'
  BY <1>8 DEF Follow, AtNode, FlowTypeOK, Carries, Place, Ended, master,
     nodeFiles, carried, history, Reaches
<1>9. ASSUME NEW f \in Flow, Consume(f) PROVE FlowTypeOK'
  <2>1. CASE f \in codes /\ ~late[f]
    <3>1. PICK t \in {"good", "split"} : token' = [token EXCEPT ![f] = t]
      BY <1>9, <2>1 DEF Consume
    <3>2. token' \in [Flow -> Token \cup {Unset}]
      BY <3>1 DEF FlowTypeOK, Token
    <3>3. name' \in [Flow -> Name \cup {Unset}]
      BY <1>9, <2>1 DEF Consume, FlowTypeOK, Carries, Ended
    <3>4. at' \in [Flow -> Place] /\ codes' \subseteq Flow
      BY <1>9, <2>1 DEF Consume, FlowTypeOK, Place, Reaches
    <3> QED
      BY <1>9, <3>2, <3>3, <3>4 DEF Consume, FlowTypeOK, nodeFiles, history
  <2>2. CASE ~(f \in codes /\ ~late[f])
    BY <1>9, <2>2 DEF Consume, FlowTypeOK, Place, nodeFiles, history, Reaches
  <2> QED
    BY <2>1, <2>2
<1>10. ASSUME NEW f \in Flow, NodeRegister(f) PROVE FlowTypeOK'
  BY <1>10 DEF NodeRegister, FlowTypeOK, Carries, Place, Ended, master,
     nodeFiles, carried, history, Reaches
<1>11. ASSUME NEW f \in Flow, OpenDraft(f) PROVE FlowTypeOK'
  BY <1>11 DEF OpenDraft, FlowTypeOK, Carries, Place, Ended, master,
     nodeFiles, carried, history, Reaches
<1>12. ASSUME NEW f \in Flow, WriteDraft(f) PROVE FlowTypeOK'
  BY <1>12, OwnIsContext DEF WriteDraft, Over, FlowTypeOK, Carries, Place,
     Ended, master, nodeFiles, carried, history, Reaches
<1>13. ASSUME NEW f \in Flow, ReplaceContext(f) PROVE FlowTypeOK'
  BY <1>13 DEF ReplaceContext, FlowTypeOK, Carries, Place, Ended, master,
     nodeFiles, carried, history, Reaches
<1>14. ASSUME NEW f \in Flow, ReplaceContextFails(f) PROVE FlowTypeOK'
  BY <1>14 DEF ReplaceContextFails, FlowTypeOK, Carries, Place, Ended, master,
     nodeFiles, carried, history, Reaches
<1>15. ASSUME NEW f \in Flow, SignedIn(f) PROVE FlowTypeOK'
  BY <1>15 DEF SignedIn, FlowTypeOK, Carries, Place, Ended, master, nodeFiles,
     carried, history, Reaches
<1>16. ASSUME NEW f \in Flow, Lapses(f) PROVE FlowTypeOK'
  BY <1>16 DEF Lapses, FlowTypeOK, Carries, Place, Ended, master, nodeFiles,
     carried, history, Reaches
<1>17. ASSUME NEW f \in Flow, Leaves(f) PROVE FlowTypeOK'
  BY <1>17 DEF Leaves, FlowTypeOK, Carries, Place, Ended, master, nodeFiles,
     carried, history, Reaches
<1>18. ASSUME NEW f \in Flow, FlowFails(f) PROVE FlowTypeOK'
  BY <1>18 DEF FlowFails, AtMaster, AtNode, FlowTypeOK, Carries, Place, Ended,
     master, nodeFiles, carried, history, Reaches
<1>19. ASSUME MasterForgets PROVE FlowTypeOK'
  BY <1>19 DEF MasterForgets, Cut, AtMaster, FlowTypeOK, Carries, Place,
     Ended, master, nodeFiles, carried, history, Reaches
<1>20. ASSUME NodeForgets PROVE FlowTypeOK'
  BY <1>20 DEF NodeForgets, Cut, AtNode, FlowTypeOK, Carries, Place, Ended,
     master, nodeFiles, carried, history, Reaches
<1>21. ASSUME Expires PROVE FlowTypeOK'
  BY <1>21, ExpiredContext DEF Expires, FlowTypeOK, Carries, Place, Ended,
     master, nodeFiles, carried, history, Reaches
<1>22. ASSUME NEW a \in Account, NEW n \in Name, Renames(a, n) PROVE FlowTypeOK'
  BY <1>22 DEF Renames, FlowTypeOK, Carries, Place, Ended, master, nodeFiles,
     carried, history, Reaches
<1>23. CASE UNCHANGED flowVars
  BY <1>23 DEF flowVars, FlowTypeOK, Carries, Place, Ended, master, nodeFiles,
     carried, history, Reaches
<1> QED
  BY <1>1, <1>2, <1>3, <1>4, <1>5, <1>6, <1>7, <1>8, <1>9, <1>10, <1>11,
     <1>12, <1>13, <1>14, <1>15, <1>16, <1>17, <1>18, <1>19, <1>20, <1>21,
     <1>22, <1>23 DEF FlowNext, Onward

(* Nothing a flow has been given is taken from it.                         *)
LEMMA CarriesStep ==
  ASSUME FlowTypeOK, Carries, [FlowNext]_flowVars
  PROVE  Carries'
<1>1. ASSUME NEW f \in Flow, NEW v \in {"node", "master"}, Login(f, v) PROVE Carries'
  BY <1>1, SignInAssumption DEF Login, FlowTypeOK, Carries, Token, Ended,
     master, nodeFiles, carried, history, Reaches
<1>2. ASSUME NEW f \in Flow, NEW a \in Account, Consents(f, a) PROVE Carries'
  BY <1>2, SignInAssumption DEF Consents, FlowTypeOK, Carries, Token, Ended,
     master, nodeFiles, carried, history, Reaches
<1>3. ASSUME NEW f \in Flow, Denies(f) PROVE Carries'
  BY <1>3, SignInAssumption DEF Denies, FlowTypeOK, Carries, Token, Ended,
     master, nodeFiles, carried, history, Reaches
<1>4. ASSUME NEW f \in Flow, Callback(f) PROVE Carries'
  BY <1>4, SignInAssumption DEF Callback, FlowTypeOK, Carries, Token, Ended,
     master, nodeFiles, carried, history, Reaches
<1>5. ASSUME NEW f \in Flow, Exchange(f) PROVE Carries'
  BY <1>5, SignInAssumption DEF Exchange, FlowTypeOK, Carries, Token, Ended,
     master, nodeFiles, carried, history, Reaches
<1>6. ASSUME NEW f \in Flow, RegisterUser(f) PROVE Carries'
  BY <1>6, SignInAssumption DEF RegisterUser, FlowTypeOK, Carries, Token,
     Ended, master, nodeFiles, carried, history, Reaches
<1>7. ASSUME NEW f \in Flow, Grant(f) PROVE Carries'
  BY <1>7, SignInAssumption DEF Grant, FlowTypeOK, Carries, Token, Ended,
     master, nodeFiles, carried, history, Reaches
<1>8. ASSUME NEW f \in Flow, Follow(f) PROVE Carries'
  BY <1>8, SignInAssumption DEF Follow, AtNode, FlowTypeOK, Carries, Token,
     Ended, master, nodeFiles, carried, history, Reaches
<1>9. ASSUME NEW f \in Flow, Consume(f) PROVE Carries'
  BY <1>9, SignInAssumption DEF Consume, FlowTypeOK, Carries, Token, Ended,
     master, nodeFiles, carried, history, Reaches
<1>10. ASSUME NEW f \in Flow, NodeRegister(f) PROVE Carries'
  BY <1>10, SignInAssumption DEF NodeRegister, FlowTypeOK, Carries, Token,
     Ended, master, nodeFiles, carried, history, Reaches
<1>11. ASSUME NEW f \in Flow, OpenDraft(f) PROVE Carries'
  BY <1>11, SignInAssumption DEF OpenDraft, FlowTypeOK, Carries, Token, Ended,
     master, nodeFiles, carried, history, Reaches
<1>12. ASSUME NEW f \in Flow, WriteDraft(f) PROVE Carries'
  BY <1>12, SignInAssumption DEF WriteDraft, Over, Own, FlowTypeOK, Carries,
     Token, Ended, master, nodeFiles, carried, history, Reaches
<1>13. ASSUME NEW f \in Flow, ReplaceContext(f) PROVE Carries'
  BY <1>13, SignInAssumption DEF ReplaceContext, FlowTypeOK, Carries, Token,
     Ended, master, nodeFiles, carried, history, Reaches
<1>14. ASSUME NEW f \in Flow, ReplaceContextFails(f) PROVE Carries'
  BY <1>14, SignInAssumption DEF ReplaceContextFails, FlowTypeOK, Carries,
     Token, Ended, master, nodeFiles, carried, history, Reaches
<1>15. ASSUME NEW f \in Flow, SignedIn(f) PROVE Carries'
  BY <1>15, SignInAssumption DEF SignedIn, FlowTypeOK, Carries, Token, Ended,
     master, nodeFiles, carried, history, Reaches
<1>16. ASSUME NEW f \in Flow, Lapses(f) PROVE Carries'
  BY <1>16, SignInAssumption DEF Lapses, FlowTypeOK, Carries, Token, Ended,
     master, nodeFiles, carried, history, Reaches
<1>17. ASSUME NEW f \in Flow, Leaves(f) PROVE Carries'
  BY <1>17, SignInAssumption DEF Leaves, FlowTypeOK, Carries, Token, Ended,
     master, nodeFiles, carried, history, Reaches
<1>18. ASSUME NEW f \in Flow, FlowFails(f) PROVE Carries'
  BY <1>18, SignInAssumption DEF FlowFails, AtMaster, AtNode, FlowTypeOK,
     Carries, Token, Ended, master, nodeFiles, carried, history, Reaches
<1>19. ASSUME MasterForgets PROVE Carries'
  BY <1>19, SignInAssumption DEF MasterForgets, Cut, AtMaster, FlowTypeOK,
     Carries, Token, Ended, master, nodeFiles, carried, history, Reaches
<1>20. ASSUME NodeForgets PROVE Carries'
  BY <1>20, SignInAssumption DEF NodeForgets, Cut, AtNode, FlowTypeOK,
     Carries, Token, Ended, master, nodeFiles, carried, history, Reaches
<1>21. ASSUME Expires PROVE Carries'
  BY <1>21, SignInAssumption DEF Expires, FlowTypeOK, Carries, Token, Ended,
     master, nodeFiles, carried, history, Reaches
<1>22. ASSUME NEW a \in Account, NEW n \in Name, Renames(a, n) PROVE Carries'
  BY <1>22, SignInAssumption DEF Renames, FlowTypeOK, Carries, Token, Ended,
     master, nodeFiles, carried, history, Reaches
<1>23. CASE UNCHANGED flowVars
  BY <1>23, SignInAssumption DEF flowVars, FlowTypeOK, Carries, Token, Ended,
     master, nodeFiles, carried, history, Reaches
<1> QED
  BY <1>1, <1>2, <1>3, <1>4, <1>5, <1>6, <1>7, <1>8, <1>9, <1>10, <1>11,
     <1>12, <1>13, <1>14, <1>15, <1>16, <1>17, <1>18, <1>19, <1>20, <1>21,
     <1>22, <1>23 DEF FlowNext, Onward

(* Whose name changes at Google is remembered.                             *)
LEMMA UsersStep ==
  ASSUME FlowTypeOK, Carries, UsersCurrent, FlowsCurrent, [FlowNext]_flowVars
  PROVE  UsersCurrent'
<1>1. ASSUME NEW f \in Flow, NEW v \in {"node", "master"}, Login(f, v) PROVE UsersCurrent'
  BY <1>1 DEF Login, FlowTypeOK, Carries, UsersCurrent, FlowsCurrent, Current,
     Ended, master, nodeFiles, carried, history, Reaches
<1>2. ASSUME NEW f \in Flow, NEW a \in Account, Consents(f, a) PROVE UsersCurrent'
  BY <1>2 DEF Consents, FlowTypeOK, Carries, UsersCurrent, FlowsCurrent,
     Current, Ended, master, nodeFiles, carried, history, Reaches
<1>3. ASSUME NEW f \in Flow, Denies(f) PROVE UsersCurrent'
  BY <1>3 DEF Denies, FlowTypeOK, Carries, UsersCurrent, FlowsCurrent,
     Current, Ended, master, nodeFiles, carried, history, Reaches
<1>4. ASSUME NEW f \in Flow, Callback(f) PROVE UsersCurrent'
  BY <1>4 DEF Callback, FlowTypeOK, Carries, UsersCurrent, FlowsCurrent,
     Current, Ended, master, nodeFiles, carried, history, Reaches
<1>5. ASSUME NEW f \in Flow, Exchange(f) PROVE UsersCurrent'
  BY <1>5 DEF Exchange, FlowTypeOK, Carries, UsersCurrent, FlowsCurrent,
     Current, Ended, master, nodeFiles, carried, history, Reaches
<1>6. ASSUME NEW f \in Flow, RegisterUser(f) PROVE UsersCurrent'
  BY <1>6 DEF RegisterUser, FlowTypeOK, Carries, UsersCurrent, FlowsCurrent,
     Current, Ended, master, nodeFiles, carried, history, Reaches
<1>7. ASSUME NEW f \in Flow, Grant(f) PROVE UsersCurrent'
  BY <1>7 DEF Grant, FlowTypeOK, Carries, UsersCurrent, FlowsCurrent, Current,
     Ended, master, nodeFiles, carried, history, Reaches
<1>8. ASSUME NEW f \in Flow, Follow(f) PROVE UsersCurrent'
  BY <1>8 DEF Follow, AtNode, FlowTypeOK, Carries, UsersCurrent, FlowsCurrent,
     Current, Ended, master, nodeFiles, carried, history, Reaches
<1>9. ASSUME NEW f \in Flow, Consume(f) PROVE UsersCurrent'
  BY <1>9 DEF Consume, FlowTypeOK, Carries, UsersCurrent, FlowsCurrent,
     Current, Ended, master, nodeFiles, carried, history, Reaches
<1>10. ASSUME NEW f \in Flow, NodeRegister(f) PROVE UsersCurrent'
  BY <1>10 DEF NodeRegister, FlowTypeOK, Carries, UsersCurrent, FlowsCurrent,
     Current, Ended, master, nodeFiles, carried, history, Reaches
<1>11. ASSUME NEW f \in Flow, OpenDraft(f) PROVE UsersCurrent'
  BY <1>11 DEF OpenDraft, FlowTypeOK, Carries, UsersCurrent, FlowsCurrent,
     Current, Ended, master, nodeFiles, carried, history, Reaches
<1>12. ASSUME NEW f \in Flow, WriteDraft(f) PROVE UsersCurrent'
  BY <1>12 DEF WriteDraft, Over, Own, FlowTypeOK, Carries, UsersCurrent,
     FlowsCurrent, Current, Ended, master, nodeFiles, carried, history,
     Reaches
<1>13. ASSUME NEW f \in Flow, ReplaceContext(f) PROVE UsersCurrent'
  BY <1>13 DEF ReplaceContext, FlowTypeOK, Carries, UsersCurrent,
     FlowsCurrent, Current, Ended, master, nodeFiles, carried, history,
     Reaches
<1>14. ASSUME NEW f \in Flow, ReplaceContextFails(f) PROVE UsersCurrent'
  BY <1>14 DEF ReplaceContextFails, FlowTypeOK, Carries, UsersCurrent,
     FlowsCurrent, Current, Ended, master, nodeFiles, carried, history,
     Reaches
<1>15. ASSUME NEW f \in Flow, SignedIn(f) PROVE UsersCurrent'
  BY <1>15 DEF SignedIn, FlowTypeOK, Carries, UsersCurrent, FlowsCurrent,
     Current, Ended, master, nodeFiles, carried, history, Reaches
<1>16. ASSUME NEW f \in Flow, Lapses(f) PROVE UsersCurrent'
  BY <1>16 DEF Lapses, FlowTypeOK, Carries, UsersCurrent, FlowsCurrent,
     Current, Ended, master, nodeFiles, carried, history, Reaches
<1>17. ASSUME NEW f \in Flow, Leaves(f) PROVE UsersCurrent'
  BY <1>17 DEF Leaves, FlowTypeOK, Carries, UsersCurrent, FlowsCurrent,
     Current, Ended, master, nodeFiles, carried, history, Reaches
<1>18. ASSUME NEW f \in Flow, FlowFails(f) PROVE UsersCurrent'
  BY <1>18 DEF FlowFails, AtMaster, AtNode, FlowTypeOK, Carries, UsersCurrent,
     FlowsCurrent, Current, Ended, master, nodeFiles, carried, history,
     Reaches
<1>19. ASSUME MasterForgets PROVE UsersCurrent'
  BY <1>19 DEF MasterForgets, Cut, AtMaster, FlowTypeOK, Carries,
     UsersCurrent, FlowsCurrent, Current, Ended, master, nodeFiles, carried,
     history, Reaches
<1>20. ASSUME NodeForgets PROVE UsersCurrent'
  BY <1>20 DEF NodeForgets, Cut, AtNode, FlowTypeOK, Carries, UsersCurrent,
     FlowsCurrent, Current, Ended, master, nodeFiles, carried, history,
     Reaches
<1>21. ASSUME Expires PROVE UsersCurrent'
  BY <1>21 DEF Expires, FlowTypeOK, Carries, UsersCurrent, FlowsCurrent,
     Current, Ended, master, nodeFiles, carried, history, Reaches
<1>22. ASSUME NEW a \in Account, NEW n \in Name, Renames(a, n) PROVE UsersCurrent'
  BY <1>22 DEF Renames, FlowTypeOK, Carries, UsersCurrent, FlowsCurrent,
     Current, Ended, master, nodeFiles, carried, history, Reaches
<1>23. CASE UNCHANGED flowVars
  BY <1>23 DEF flowVars, FlowTypeOK, Carries, UsersCurrent, FlowsCurrent,
     Current, Ended, master, nodeFiles, carried, history, Reaches
<1> QED
  BY <1>1, <1>2, <1>3, <1>4, <1>5, <1>6, <1>7, <1>8, <1>9, <1>10, <1>11,
     <1>12, <1>13, <1>14, <1>15, <1>16, <1>17, <1>18, <1>19, <1>20, <1>21,
     <1>22, <1>23 DEF FlowNext, Onward

(* A flow past its registration is known to the master.                    *)
LEMMA FlowsStep ==
  ASSUME FlowTypeOK, Carries, UsersCurrent, FlowsCurrent, [FlowNext]_flowVars
  PROVE  FlowsCurrent'
<1>1. ASSUME NEW f \in Flow, NEW v \in {"node", "master"}, Login(f, v) PROVE FlowsCurrent'
  BY <1>1, SignInAssumption DEF Login, FlowTypeOK, Carries, UsersCurrent,
     FlowsCurrent, Current, Ended, master, nodeFiles, carried, history,
     Reaches
<1>2. ASSUME NEW f \in Flow, NEW a \in Account, Consents(f, a) PROVE FlowsCurrent'
  BY <1>2, SignInAssumption DEF Consents, FlowTypeOK, Carries, UsersCurrent,
     FlowsCurrent, Current, Ended, master, nodeFiles, carried, history,
     Reaches
<1>3. ASSUME NEW f \in Flow, Denies(f) PROVE FlowsCurrent'
  BY <1>3, SignInAssumption DEF Denies, FlowTypeOK, Carries, UsersCurrent,
     FlowsCurrent, Current, Ended, master, nodeFiles, carried, history,
     Reaches
<1>4. ASSUME NEW f \in Flow, Callback(f) PROVE FlowsCurrent'
  BY <1>4, SignInAssumption DEF Callback, FlowTypeOK, Carries, UsersCurrent,
     FlowsCurrent, Current, Ended, master, nodeFiles, carried, history,
     Reaches
<1>5. ASSUME NEW f \in Flow, Exchange(f) PROVE FlowsCurrent'
  BY <1>5, SignInAssumption DEF Exchange, FlowTypeOK, Carries, UsersCurrent,
     FlowsCurrent, Current, Ended, master, nodeFiles, carried, history,
     Reaches
<1>6. ASSUME NEW f \in Flow, RegisterUser(f) PROVE FlowsCurrent'
  BY <1>6, SignInAssumption DEF RegisterUser, FlowTypeOK, Carries,
     UsersCurrent, FlowsCurrent, Current, Ended, master, nodeFiles, carried,
     history, Reaches
<1>7. ASSUME NEW f \in Flow, Grant(f) PROVE FlowsCurrent'
  BY <1>7, SignInAssumption DEF Grant, FlowTypeOK, Carries, UsersCurrent,
     FlowsCurrent, Current, Ended, master, nodeFiles, carried, history,
     Reaches
<1>8. ASSUME NEW f \in Flow, Follow(f) PROVE FlowsCurrent'
  BY <1>8, SignInAssumption DEF Follow, AtNode, FlowTypeOK, Carries,
     UsersCurrent, FlowsCurrent, Current, Ended, master, nodeFiles, carried,
     history, Reaches
<1>9. ASSUME NEW f \in Flow, Consume(f) PROVE FlowsCurrent'
  BY <1>9, SignInAssumption DEF Consume, FlowTypeOK, Carries, UsersCurrent,
     FlowsCurrent, Current, Ended, master, nodeFiles, carried, history,
     Reaches
<1>10. ASSUME NEW f \in Flow, NodeRegister(f) PROVE FlowsCurrent'
  BY <1>10, SignInAssumption DEF NodeRegister, FlowTypeOK, Carries,
     UsersCurrent, FlowsCurrent, Current, Ended, master, nodeFiles, carried,
     history, Reaches
<1>11. ASSUME NEW f \in Flow, OpenDraft(f) PROVE FlowsCurrent'
  BY <1>11, SignInAssumption DEF OpenDraft, FlowTypeOK, Carries, UsersCurrent,
     FlowsCurrent, Current, Ended, master, nodeFiles, carried, history,
     Reaches
<1>12. ASSUME NEW f \in Flow, WriteDraft(f) PROVE FlowsCurrent'
  BY <1>12, SignInAssumption DEF WriteDraft, Over, Own, FlowTypeOK, Carries,
     UsersCurrent, FlowsCurrent, Current, Ended, master, nodeFiles, carried,
     history, Reaches
<1>13. ASSUME NEW f \in Flow, ReplaceContext(f) PROVE FlowsCurrent'
  BY <1>13, SignInAssumption DEF ReplaceContext, FlowTypeOK, Carries,
     UsersCurrent, FlowsCurrent, Current, Ended, master, nodeFiles, carried,
     history, Reaches
<1>14. ASSUME NEW f \in Flow, ReplaceContextFails(f) PROVE FlowsCurrent'
  BY <1>14, SignInAssumption DEF ReplaceContextFails, FlowTypeOK, Carries,
     UsersCurrent, FlowsCurrent, Current, Ended, master, nodeFiles, carried,
     history, Reaches
<1>15. ASSUME NEW f \in Flow, SignedIn(f) PROVE FlowsCurrent'
  BY <1>15, SignInAssumption DEF SignedIn, FlowTypeOK, Carries, UsersCurrent,
     FlowsCurrent, Current, Ended, master, nodeFiles, carried, history,
     Reaches
<1>16. ASSUME NEW f \in Flow, Lapses(f) PROVE FlowsCurrent'
  BY <1>16, SignInAssumption DEF Lapses, FlowTypeOK, Carries, UsersCurrent,
     FlowsCurrent, Current, Ended, master, nodeFiles, carried, history,
     Reaches
<1>17. ASSUME NEW f \in Flow, Leaves(f) PROVE FlowsCurrent'
  BY <1>17, SignInAssumption DEF Leaves, FlowTypeOK, Carries, UsersCurrent,
     FlowsCurrent, Current, Ended, master, nodeFiles, carried, history,
     Reaches
<1>18. ASSUME NEW f \in Flow, FlowFails(f) PROVE FlowsCurrent'
  BY <1>18, SignInAssumption DEF FlowFails, AtMaster, AtNode, FlowTypeOK,
     Carries, UsersCurrent, FlowsCurrent, Current, Ended, master, nodeFiles,
     carried, history, Reaches
<1>19. ASSUME MasterForgets PROVE FlowsCurrent'
  BY <1>19, SignInAssumption DEF MasterForgets, Cut, AtMaster, FlowTypeOK,
     Carries, UsersCurrent, FlowsCurrent, Current, Ended, master, nodeFiles,
     carried, history, Reaches
<1>20. ASSUME NodeForgets PROVE FlowsCurrent'
  BY <1>20, SignInAssumption DEF NodeForgets, Cut, AtNode, FlowTypeOK,
     Carries, UsersCurrent, FlowsCurrent, Current, Ended, master, nodeFiles,
     carried, history, Reaches
<1>21. ASSUME Expires PROVE FlowsCurrent'
  BY <1>21, SignInAssumption DEF Expires, FlowTypeOK, Carries, UsersCurrent,
     FlowsCurrent, Current, Ended, master, nodeFiles, carried, history,
     Reaches
<1>22. ASSUME NEW a \in Account, NEW n \in Name, Renames(a, n) PROVE FlowsCurrent'
  BY <1>22, SignInAssumption DEF Renames, FlowTypeOK, Carries, UsersCurrent,
     FlowsCurrent, Current, Ended, master, nodeFiles, carried, history,
     Reaches
<1>23. CASE UNCHANGED flowVars
  BY <1>23, SignInAssumption DEF flowVars, FlowTypeOK, Carries, UsersCurrent,
     FlowsCurrent, Current, Ended, master, nodeFiles, carried, history,
     Reaches
<1> QED
  BY <1>1, <1>2, <1>3, <1>4, <1>5, <1>6, <1>7, <1>8, <1>9, <1>10, <1>11,
     <1>12, <1>13, <1>14, <1>15, <1>16, <1>17, <1>18, <1>19, <1>20, <1>21,
     <1>22, <1>23 DEF FlowNext, Onward

(* What gets into the files comes from a flow.                             *)
LEMMA ContextsStep ==
  ASSUME FlowTypeOK, Carries, FlowsCurrent, ContextsCurrent, [FlowNext]_flowVars
  PROVE  ContextsCurrent'
<1>1. ASSUME NEW f \in Flow, NEW v \in {"node", "master"}, Login(f, v) PROVE ContextsCurrent'
  BY <1>1, SignInAssumption, ContextAssumption DEF Login, FlowTypeOK, Carries,
     FlowsCurrent, ContextsCurrent, Current, Context, Ended, master,
     nodeFiles, carried, history, Reaches
<1>2. ASSUME NEW f \in Flow, NEW a \in Account, Consents(f, a) PROVE ContextsCurrent'
  BY <1>2, SignInAssumption, ContextAssumption DEF Consents, FlowTypeOK,
     Carries, FlowsCurrent, ContextsCurrent, Current, Context, Ended, master,
     nodeFiles, carried, history, Reaches
<1>3. ASSUME NEW f \in Flow, Denies(f) PROVE ContextsCurrent'
  BY <1>3, SignInAssumption, ContextAssumption DEF Denies, FlowTypeOK,
     Carries, FlowsCurrent, ContextsCurrent, Current, Context, Ended, master,
     nodeFiles, carried, history, Reaches
<1>4. ASSUME NEW f \in Flow, Callback(f) PROVE ContextsCurrent'
  BY <1>4, SignInAssumption, ContextAssumption DEF Callback, FlowTypeOK,
     Carries, FlowsCurrent, ContextsCurrent, Current, Context, Ended, master,
     nodeFiles, carried, history, Reaches
<1>5. ASSUME NEW f \in Flow, Exchange(f) PROVE ContextsCurrent'
  BY <1>5, SignInAssumption, ContextAssumption DEF Exchange, FlowTypeOK,
     Carries, FlowsCurrent, ContextsCurrent, Current, Context, Ended, master,
     nodeFiles, carried, history, Reaches
<1>6. ASSUME NEW f \in Flow, RegisterUser(f) PROVE ContextsCurrent'
  BY <1>6, SignInAssumption, ContextAssumption DEF RegisterUser, FlowTypeOK,
     Carries, FlowsCurrent, ContextsCurrent, Current, Context, Ended, master,
     nodeFiles, carried, history, Reaches
<1>7. ASSUME NEW f \in Flow, Grant(f) PROVE ContextsCurrent'
  BY <1>7, SignInAssumption, ContextAssumption DEF Grant, FlowTypeOK, Carries,
     FlowsCurrent, ContextsCurrent, Current, Context, Ended, master,
     nodeFiles, carried, history, Reaches
<1>8. ASSUME NEW f \in Flow, Follow(f) PROVE ContextsCurrent'
  BY <1>8, SignInAssumption, ContextAssumption DEF Follow, AtNode, FlowTypeOK,
     Carries, FlowsCurrent, ContextsCurrent, Current, Context, Ended, master,
     nodeFiles, carried, history, Reaches
<1>9. ASSUME NEW f \in Flow, Consume(f) PROVE ContextsCurrent'
  BY <1>9, SignInAssumption, ContextAssumption DEF Consume, FlowTypeOK,
     Carries, FlowsCurrent, ContextsCurrent, Current, Context, Ended, master,
     nodeFiles, carried, history, Reaches
<1>10. ASSUME NEW f \in Flow, NodeRegister(f) PROVE ContextsCurrent'
  BY <1>10, SignInAssumption, ContextAssumption DEF NodeRegister, FlowTypeOK,
     Carries, FlowsCurrent, ContextsCurrent, Current, Context, Ended, master,
     nodeFiles, carried, history, Reaches
<1>11. ASSUME NEW f \in Flow, OpenDraft(f) PROVE ContextsCurrent'
  BY <1>11, SignInAssumption, ContextAssumption DEF OpenDraft, FlowTypeOK,
     Carries, FlowsCurrent, ContextsCurrent, Current, Context, Ended, master,
     nodeFiles, carried, history, Reaches
<1>12. ASSUME NEW f \in Flow, WriteDraft(f) PROVE ContextsCurrent'
  BY <1>12, OwnIsContext, SignInAssumption, ContextAssumption DEF WriteDraft,
     Over, Own, FlowTypeOK, Carries, FlowsCurrent, ContextsCurrent, Current,
     Context, Ended, master, nodeFiles, carried, history, Reaches
<1>13. ASSUME NEW f \in Flow, ReplaceContext(f) PROVE ContextsCurrent'
  BY <1>13, SignInAssumption, ContextAssumption DEF ReplaceContext,
     FlowTypeOK, Carries, FlowsCurrent, ContextsCurrent, Current, Context,
     Ended, master, nodeFiles, carried, history, Reaches
<1>14. ASSUME NEW f \in Flow, ReplaceContextFails(f) PROVE ContextsCurrent'
  BY <1>14, SignInAssumption, ContextAssumption DEF ReplaceContextFails,
     FlowTypeOK, Carries, FlowsCurrent, ContextsCurrent, Current, Context,
     Ended, master, nodeFiles, carried, history, Reaches
<1>15. ASSUME NEW f \in Flow, SignedIn(f) PROVE ContextsCurrent'
  BY <1>15, SignInAssumption, ContextAssumption DEF SignedIn, FlowTypeOK,
     Carries, FlowsCurrent, ContextsCurrent, Current, Context, Ended, master,
     nodeFiles, carried, history, Reaches
<1>16. ASSUME NEW f \in Flow, Lapses(f) PROVE ContextsCurrent'
  BY <1>16, SignInAssumption, ContextAssumption DEF Lapses, FlowTypeOK,
     Carries, FlowsCurrent, ContextsCurrent, Current, Context, Ended, master,
     nodeFiles, carried, history, Reaches
<1>17. ASSUME NEW f \in Flow, Leaves(f) PROVE ContextsCurrent'
  BY <1>17, SignInAssumption, ContextAssumption DEF Leaves, FlowTypeOK,
     Carries, FlowsCurrent, ContextsCurrent, Current, Context, Ended, master,
     nodeFiles, carried, history, Reaches
<1>18. ASSUME NEW f \in Flow, FlowFails(f) PROVE ContextsCurrent'
  BY <1>18, SignInAssumption, ContextAssumption DEF FlowFails, AtMaster,
     AtNode, FlowTypeOK, Carries, FlowsCurrent, ContextsCurrent, Current,
     Context, Ended, master, nodeFiles, carried, history, Reaches
<1>19. ASSUME MasterForgets PROVE ContextsCurrent'
  BY <1>19, SignInAssumption, ContextAssumption DEF MasterForgets, Cut,
     AtMaster, FlowTypeOK, Carries, FlowsCurrent, ContextsCurrent, Current,
     Context, Ended, master, nodeFiles, carried, history, Reaches
<1>20. ASSUME NodeForgets PROVE ContextsCurrent'
  BY <1>20, SignInAssumption, ContextAssumption DEF NodeForgets, Cut, AtNode,
     FlowTypeOK, Carries, FlowsCurrent, ContextsCurrent, Current, Context,
     Ended, master, nodeFiles, carried, history, Reaches
<1>21. ASSUME Expires PROVE ContextsCurrent'
  BY <1>21, SignInAssumption, ContextAssumption DEF Expires, FlowTypeOK,
     Carries, FlowsCurrent, ContextsCurrent, Current, Context, Ended, master,
     nodeFiles, carried, history, Reaches
<1>22. ASSUME NEW a \in Account, NEW n \in Name, Renames(a, n) PROVE ContextsCurrent'
  BY <1>22, SignInAssumption, ContextAssumption DEF Renames, FlowTypeOK,
     Carries, FlowsCurrent, ContextsCurrent, Current, Context, Ended, master,
     nodeFiles, carried, history, Reaches
<1>23. CASE UNCHANGED flowVars
  BY <1>23, SignInAssumption, ContextAssumption DEF flowVars, FlowTypeOK,
     Carries, FlowsCurrent, ContextsCurrent, Current, Context, Ended, master,
     nodeFiles, carried, history, Reaches
<1> QED
  BY <1>1, <1>2, <1>3, <1>4, <1>5, <1>6, <1>7, <1>8, <1>9, <1>10, <1>11,
     <1>12, <1>13, <1>14, <1>15, <1>16, <1>17, <1>18, <1>19, <1>20, <1>21,
     <1>22, <1>23 DEF FlowNext, Onward

(* A flow uses up its own state and code only.                             *)
LEMMA PassStep ==
  ASSUME FlowTypeOK, HoldsPass, [FlowNext]_flowVars
  PROVE  HoldsPass'
<1>1. ASSUME NEW f \in Flow, NEW v \in {"node", "master"}, Login(f, v) PROVE HoldsPass'
  BY <1>1 DEF Login, FlowTypeOK, HoldsPass, AtMaster, AtNode, master,
     nodeFiles, carried, history, Reaches
<1>2. ASSUME NEW f \in Flow, NEW a \in Account, Consents(f, a) PROVE HoldsPass'
  BY <1>2 DEF Consents, FlowTypeOK, HoldsPass, AtMaster, AtNode, master,
     nodeFiles, carried, history, Reaches
<1>3. ASSUME NEW f \in Flow, Denies(f) PROVE HoldsPass'
  BY <1>3 DEF Denies, FlowTypeOK, HoldsPass, AtMaster, AtNode, master,
     nodeFiles, carried, history, Reaches
<1>4. ASSUME NEW f \in Flow, Callback(f) PROVE HoldsPass'
  BY <1>4 DEF Callback, FlowTypeOK, HoldsPass, AtMaster, AtNode, master,
     nodeFiles, carried, history, Reaches
<1>5. ASSUME NEW f \in Flow, Exchange(f) PROVE HoldsPass'
  BY <1>5 DEF Exchange, FlowTypeOK, HoldsPass, AtMaster, AtNode, master,
     nodeFiles, carried, history, Reaches
<1>6. ASSUME NEW f \in Flow, RegisterUser(f) PROVE HoldsPass'
  BY <1>6 DEF RegisterUser, FlowTypeOK, HoldsPass, AtMaster, AtNode, master,
     nodeFiles, carried, history, Reaches
<1>7. ASSUME NEW f \in Flow, Grant(f) PROVE HoldsPass'
  BY <1>7 DEF Grant, FlowTypeOK, HoldsPass, AtMaster, AtNode, master,
     nodeFiles, carried, history, Reaches
<1>8. ASSUME NEW f \in Flow, Follow(f) PROVE HoldsPass'
  BY <1>8 DEF Follow, FlowTypeOK, HoldsPass, AtMaster, AtNode, master,
     nodeFiles, carried, history, Reaches
<1>9. ASSUME NEW f \in Flow, Consume(f) PROVE HoldsPass'
  BY <1>9 DEF Consume, FlowTypeOK, HoldsPass, AtMaster, AtNode, master,
     nodeFiles, carried, history, Reaches
<1>10. ASSUME NEW f \in Flow, NodeRegister(f) PROVE HoldsPass'
  BY <1>10 DEF NodeRegister, FlowTypeOK, HoldsPass, AtMaster, AtNode, master,
     nodeFiles, carried, history, Reaches
<1>11. ASSUME NEW f \in Flow, OpenDraft(f) PROVE HoldsPass'
  BY <1>11 DEF OpenDraft, FlowTypeOK, HoldsPass, AtMaster, AtNode, master,
     nodeFiles, carried, history, Reaches
<1>12. ASSUME NEW f \in Flow, WriteDraft(f) PROVE HoldsPass'
  BY <1>12 DEF WriteDraft, Over, Own, FlowTypeOK, HoldsPass, AtMaster, AtNode,
     master, nodeFiles, carried, history, Reaches
<1>13. ASSUME NEW f \in Flow, ReplaceContext(f) PROVE HoldsPass'
  BY <1>13 DEF ReplaceContext, FlowTypeOK, HoldsPass, AtMaster, AtNode,
     master, nodeFiles, carried, history, Reaches
<1>14. ASSUME NEW f \in Flow, ReplaceContextFails(f) PROVE HoldsPass'
  BY <1>14 DEF ReplaceContextFails, FlowTypeOK, HoldsPass, AtMaster, AtNode,
     master, nodeFiles, carried, history, Reaches
<1>15. ASSUME NEW f \in Flow, SignedIn(f) PROVE HoldsPass'
  BY <1>15 DEF SignedIn, FlowTypeOK, HoldsPass, AtMaster, AtNode, master,
     nodeFiles, carried, history, Reaches
<1>16. ASSUME NEW f \in Flow, Lapses(f) PROVE HoldsPass'
  BY <1>16 DEF Lapses, FlowTypeOK, HoldsPass, AtMaster, AtNode, master,
     nodeFiles, carried, history, Reaches
<1>17. ASSUME NEW f \in Flow, Leaves(f) PROVE HoldsPass'
  BY <1>17 DEF Leaves, FlowTypeOK, HoldsPass, AtMaster, AtNode, master,
     nodeFiles, carried, history, Reaches
<1>18. ASSUME NEW f \in Flow, FlowFails(f) PROVE HoldsPass'
  BY <1>18 DEF FlowFails, FlowTypeOK, HoldsPass, AtMaster, AtNode, master,
     nodeFiles, carried, history, Reaches
<1>19. ASSUME MasterForgets PROVE HoldsPass'
  BY <1>19 DEF MasterForgets, Cut, FlowTypeOK, HoldsPass, AtMaster, AtNode,
     master, nodeFiles, carried, history, Reaches
<1>20. ASSUME NodeForgets PROVE HoldsPass'
  BY <1>20 DEF NodeForgets, Cut, FlowTypeOK, HoldsPass, AtMaster, AtNode,
     master, nodeFiles, carried, history, Reaches
<1>21. ASSUME Expires PROVE HoldsPass'
  BY <1>21 DEF Expires, FlowTypeOK, HoldsPass, AtMaster, AtNode, master,
     nodeFiles, carried, history, Reaches
<1>22. ASSUME NEW a \in Account, NEW n \in Name, Renames(a, n) PROVE HoldsPass'
  BY <1>22 DEF Renames, FlowTypeOK, HoldsPass, AtMaster, AtNode, master,
     nodeFiles, carried, history, Reaches
<1>23. CASE UNCHANGED flowVars
  BY <1>23 DEF flowVars, FlowTypeOK, HoldsPass, AtMaster, AtNode, master,
     nodeFiles, carried, history, Reaches
<1> QED
  BY <1>1, <1>2, <1>3, <1>4, <1>5, <1>6, <1>7, <1>8, <1>9, <1>10, <1>11,
     <1>12, <1>13, <1>14, <1>15, <1>16, <1>17, <1>18, <1>19, <1>20, <1>21,
     <1>22, <1>23 DEF FlowNext, Onward

(* Whoever comes to the node while another is there is noticed.            *)
LEMMA MeetingsStep ==
  ASSUME FlowTypeOK, MeetingsNoticed, [FlowNext]_flowVars
  PROVE  MeetingsNoticed'
<1>1. ASSUME NEW f \in Flow, NEW v \in {"node", "master"}, Login(f, v) PROVE MeetingsNoticed'
  BY <1>1 DEF Login, FlowTypeOK, MeetingsNoticed, AtMaster, AtNode, master,
     nodeFiles, carried, history, Reaches
<1>2. ASSUME NEW f \in Flow, NEW a \in Account, Consents(f, a) PROVE MeetingsNoticed'
  BY <1>2 DEF Consents, FlowTypeOK, MeetingsNoticed, AtMaster, AtNode, master,
     nodeFiles, carried, history, Reaches
<1>3. ASSUME NEW f \in Flow, Denies(f) PROVE MeetingsNoticed'
  BY <1>3 DEF Denies, FlowTypeOK, MeetingsNoticed, AtMaster, AtNode, master,
     nodeFiles, carried, history, Reaches
<1>4. ASSUME NEW f \in Flow, Callback(f) PROVE MeetingsNoticed'
  BY <1>4 DEF Callback, FlowTypeOK, MeetingsNoticed, AtMaster, AtNode, master,
     nodeFiles, carried, history, Reaches
<1>5. ASSUME NEW f \in Flow, Exchange(f) PROVE MeetingsNoticed'
  BY <1>5 DEF Exchange, FlowTypeOK, MeetingsNoticed, AtMaster, AtNode, master,
     nodeFiles, carried, history, Reaches
<1>6. ASSUME NEW f \in Flow, RegisterUser(f) PROVE MeetingsNoticed'
  BY <1>6 DEF RegisterUser, FlowTypeOK, MeetingsNoticed, AtMaster, AtNode,
     master, nodeFiles, carried, history, Reaches
<1>7. ASSUME NEW f \in Flow, Grant(f) PROVE MeetingsNoticed'
  BY <1>7 DEF Grant, FlowTypeOK, MeetingsNoticed, AtMaster, AtNode, master,
     nodeFiles, carried, history, Reaches
<1>8. ASSUME NEW f \in Flow, Follow(f) PROVE MeetingsNoticed'
  BY <1>8 DEF Follow, FlowTypeOK, MeetingsNoticed, AtMaster, AtNode, master,
     nodeFiles, carried, history, Reaches
<1>9. ASSUME NEW f \in Flow, Consume(f) PROVE MeetingsNoticed'
  BY <1>9 DEF Consume, FlowTypeOK, MeetingsNoticed, AtMaster, AtNode, master,
     nodeFiles, carried, history, Reaches
<1>10. ASSUME NEW f \in Flow, NodeRegister(f) PROVE MeetingsNoticed'
  BY <1>10 DEF NodeRegister, FlowTypeOK, MeetingsNoticed, AtMaster, AtNode,
     master, nodeFiles, carried, history, Reaches
<1>11. ASSUME NEW f \in Flow, OpenDraft(f) PROVE MeetingsNoticed'
  BY <1>11 DEF OpenDraft, FlowTypeOK, MeetingsNoticed, AtMaster, AtNode,
     master, nodeFiles, carried, history, Reaches
<1>12. ASSUME NEW f \in Flow, WriteDraft(f) PROVE MeetingsNoticed'
  BY <1>12 DEF WriteDraft, Over, Own, FlowTypeOK, MeetingsNoticed, AtMaster,
     AtNode, master, nodeFiles, carried, history, Reaches
<1>13. ASSUME NEW f \in Flow, ReplaceContext(f) PROVE MeetingsNoticed'
  BY <1>13 DEF ReplaceContext, FlowTypeOK, MeetingsNoticed, AtMaster, AtNode,
     master, nodeFiles, carried, history, Reaches
<1>14. ASSUME NEW f \in Flow, ReplaceContextFails(f) PROVE MeetingsNoticed'
  BY <1>14 DEF ReplaceContextFails, FlowTypeOK, MeetingsNoticed, AtMaster,
     AtNode, master, nodeFiles, carried, history, Reaches
<1>15. ASSUME NEW f \in Flow, SignedIn(f) PROVE MeetingsNoticed'
  BY <1>15 DEF SignedIn, FlowTypeOK, MeetingsNoticed, AtMaster, AtNode,
     master, nodeFiles, carried, history, Reaches
<1>16. ASSUME NEW f \in Flow, Lapses(f) PROVE MeetingsNoticed'
  BY <1>16 DEF Lapses, FlowTypeOK, MeetingsNoticed, AtMaster, AtNode, master,
     nodeFiles, carried, history, Reaches
<1>17. ASSUME NEW f \in Flow, Leaves(f) PROVE MeetingsNoticed'
  BY <1>17 DEF Leaves, FlowTypeOK, MeetingsNoticed, AtMaster, AtNode, master,
     nodeFiles, carried, history, Reaches
<1>18. ASSUME NEW f \in Flow, FlowFails(f) PROVE MeetingsNoticed'
  BY <1>18 DEF FlowFails, FlowTypeOK, MeetingsNoticed, AtMaster, AtNode,
     master, nodeFiles, carried, history, Reaches
<1>19. ASSUME MasterForgets PROVE MeetingsNoticed'
  BY <1>19 DEF MasterForgets, Cut, FlowTypeOK, MeetingsNoticed, AtMaster,
     AtNode, master, nodeFiles, carried, history, Reaches
<1>20. ASSUME NodeForgets PROVE MeetingsNoticed'
  BY <1>20 DEF NodeForgets, Cut, FlowTypeOK, MeetingsNoticed, AtMaster,
     AtNode, master, nodeFiles, carried, history, Reaches
<1>21. ASSUME Expires PROVE MeetingsNoticed'
  BY <1>21 DEF Expires, FlowTypeOK, MeetingsNoticed, AtMaster, AtNode, master,
     nodeFiles, carried, history, Reaches
<1>22. ASSUME NEW a \in Account, NEW n \in Name, Renames(a, n) PROVE MeetingsNoticed'
  BY <1>22 DEF Renames, FlowTypeOK, MeetingsNoticed, AtMaster, AtNode, master,
     nodeFiles, carried, history, Reaches
<1>23. CASE UNCHANGED flowVars
  BY <1>23 DEF flowVars, FlowTypeOK, MeetingsNoticed, AtMaster, AtNode,
     master, nodeFiles, carried, history, Reaches
<1> QED
  BY <1>1, <1>2, <1>3, <1>4, <1>5, <1>6, <1>7, <1>8, <1>9, <1>10, <1>11,
     <1>12, <1>13, <1>14, <1>15, <1>16, <1>17, <1>18, <1>19, <1>20, <1>21,
     <1>22, <1>23 DEF FlowNext, Onward

(* Only flows at the node write its files.                                 *)
LEMMA QuietStep ==
  ASSUME FlowTypeOK, Carries, MeetingsNoticed, QuietInOrder, [FlowNext]_flowVars
  PROVE  QuietInOrder'
<1>1. ASSUME NEW f \in Flow, NEW v \in {"node", "master"}, Login(f, v) PROVE QuietInOrder'
  BY <1>1 DEF Login, FlowTypeOK, Carries, MeetingsNoticed, QuietInOrder, Own,
     Context, AtMaster, AtNode, Ended, master, nodeFiles, carried, history,
     Reaches
<1>2. ASSUME NEW f \in Flow, NEW a \in Account, Consents(f, a) PROVE QuietInOrder'
  BY <1>2 DEF Consents, FlowTypeOK, Carries, MeetingsNoticed, QuietInOrder,
     Own, Context, AtMaster, AtNode, Ended, master, nodeFiles, carried,
     history, Reaches
<1>3. ASSUME NEW f \in Flow, Denies(f) PROVE QuietInOrder'
  BY <1>3 DEF Denies, FlowTypeOK, Carries, MeetingsNoticed, QuietInOrder, Own,
     Context, AtMaster, AtNode, Ended, master, nodeFiles, carried, history,
     Reaches
<1>4. ASSUME NEW f \in Flow, Callback(f) PROVE QuietInOrder'
  BY <1>4 DEF Callback, FlowTypeOK, Carries, MeetingsNoticed, QuietInOrder,
     Own, Context, AtMaster, AtNode, Ended, master, nodeFiles, carried,
     history, Reaches
<1>5. ASSUME NEW f \in Flow, Exchange(f) PROVE QuietInOrder'
  BY <1>5 DEF Exchange, FlowTypeOK, Carries, MeetingsNoticed, QuietInOrder,
     Own, Context, AtMaster, AtNode, Ended, master, nodeFiles, carried,
     history, Reaches
<1>6. ASSUME NEW f \in Flow, RegisterUser(f) PROVE QuietInOrder'
  BY <1>6 DEF RegisterUser, FlowTypeOK, Carries, MeetingsNoticed,
     QuietInOrder, Own, Context, AtMaster, AtNode, Ended, master, nodeFiles,
     carried, history, Reaches
<1>7. ASSUME NEW f \in Flow, Grant(f) PROVE QuietInOrder'
  BY <1>7 DEF Grant, FlowTypeOK, Carries, MeetingsNoticed, QuietInOrder, Own,
     Context, AtMaster, AtNode, Ended, master, nodeFiles, carried, history,
     Reaches
<1>8. ASSUME NEW f \in Flow, Follow(f) PROVE QuietInOrder'
  BY <1>8 DEF Follow, FlowTypeOK, Carries, MeetingsNoticed, QuietInOrder, Own,
     Context, AtMaster, AtNode, Ended, master, nodeFiles, carried, history,
     Reaches
<1>9. ASSUME NEW f \in Flow, Consume(f) PROVE QuietInOrder'
  BY <1>9 DEF Consume, FlowTypeOK, Carries, MeetingsNoticed, QuietInOrder,
     Own, Context, AtMaster, AtNode, Ended, master, nodeFiles, carried,
     history, Reaches
<1>10. ASSUME NEW f \in Flow, NodeRegister(f) PROVE QuietInOrder'
  BY <1>10 DEF NodeRegister, FlowTypeOK, Carries, MeetingsNoticed,
     QuietInOrder, Own, Context, AtMaster, AtNode, Ended, master, nodeFiles,
     carried, history, Reaches
<1>11. ASSUME NEW f \in Flow, OpenDraft(f) PROVE QuietInOrder'
  BY <1>11 DEF OpenDraft, FlowTypeOK, Carries, MeetingsNoticed, QuietInOrder,
     Own, Context, AtMaster, AtNode, Ended, master, nodeFiles, carried,
     history, Reaches
<1>12. ASSUME NEW f \in Flow, WriteDraft(f) PROVE QuietInOrder'
  BY <1>12 DEF WriteDraft, Over, FlowTypeOK, Carries, MeetingsNoticed,
     QuietInOrder, Own, Context, AtMaster, AtNode, Ended, master, nodeFiles,
     carried, history, Reaches
<1>13. ASSUME NEW f \in Flow, ReplaceContext(f) PROVE QuietInOrder'
  BY <1>13 DEF ReplaceContext, FlowTypeOK, Carries, MeetingsNoticed,
     QuietInOrder, Own, Context, AtMaster, AtNode, Ended, master, nodeFiles,
     carried, history, Reaches
<1>14. ASSUME NEW f \in Flow, ReplaceContextFails(f) PROVE QuietInOrder'
  BY <1>14 DEF ReplaceContextFails, FlowTypeOK, Carries, MeetingsNoticed,
     QuietInOrder, Own, Context, AtMaster, AtNode, Ended, master, nodeFiles,
     carried, history, Reaches
<1>15. ASSUME NEW f \in Flow, SignedIn(f) PROVE QuietInOrder'
  BY <1>15 DEF SignedIn, FlowTypeOK, Carries, MeetingsNoticed, QuietInOrder,
     Own, Context, AtMaster, AtNode, Ended, master, nodeFiles, carried,
     history, Reaches
<1>16. ASSUME NEW f \in Flow, Lapses(f) PROVE QuietInOrder'
  BY <1>16 DEF Lapses, FlowTypeOK, Carries, MeetingsNoticed, QuietInOrder,
     Own, Context, AtMaster, AtNode, Ended, master, nodeFiles, carried,
     history, Reaches
<1>17. ASSUME NEW f \in Flow, Leaves(f) PROVE QuietInOrder'
  BY <1>17 DEF Leaves, FlowTypeOK, Carries, MeetingsNoticed, QuietInOrder,
     Own, Context, AtMaster, AtNode, Ended, master, nodeFiles, carried,
     history, Reaches
<1>18. ASSUME NEW f \in Flow, FlowFails(f) PROVE QuietInOrder'
  BY <1>18 DEF FlowFails, FlowTypeOK, Carries, MeetingsNoticed, QuietInOrder,
     Own, Context, AtMaster, AtNode, Ended, master, nodeFiles, carried,
     history, Reaches
<1>19. ASSUME MasterForgets PROVE QuietInOrder'
  BY <1>19 DEF MasterForgets, Cut, FlowTypeOK, Carries, MeetingsNoticed,
     QuietInOrder, Own, Context, AtMaster, AtNode, Ended, master, nodeFiles,
     carried, history, Reaches
<1>20. ASSUME NodeForgets PROVE QuietInOrder'
  BY <1>20 DEF NodeForgets, Cut, FlowTypeOK, Carries, MeetingsNoticed,
     QuietInOrder, Own, Context, AtMaster, AtNode, Ended, master, nodeFiles,
     carried, history, Reaches
<1>21. ASSUME Expires PROVE QuietInOrder'
  <2>1. UNCHANGED <<nodeUsers, draft, at, account, name, token, open, met>>
    BY <1>21 DEF Expires, carried, history
  <2> QED
    BY <1>21, <2>1, ExpiredContext DEF QuietInOrder, Own
<1>22. ASSUME NEW a \in Account, NEW n \in Name, Renames(a, n) PROVE QuietInOrder'
  BY <1>22 DEF Renames, FlowTypeOK, Carries, MeetingsNoticed, QuietInOrder,
     Own, Context, AtMaster, AtNode, Ended, master, nodeFiles, carried,
     history, Reaches
<1>23. CASE UNCHANGED flowVars
  BY <1>23 DEF flowVars, FlowTypeOK, Carries, MeetingsNoticed, QuietInOrder,
     Own, Context, AtMaster, AtNode, Ended, master, nodeFiles, carried,
     history, Reaches
<1> QED
  BY <1>1, <1>2, <1>3, <1>4, <1>5, <1>6, <1>7, <1>8, <1>9, <1>10, <1>11,
     <1>12, <1>13, <1>14, <1>15, <1>16, <1>17, <1>18, <1>19, <1>20, <1>21,
     <1>22, <1>23 DEF FlowNext, Onward

(* Whoever finds the temporary file gone has met the one that renamed it.  *)
LEMMA CauseStep ==
  ASSUME FlowTypeOK, Carries, HoldsPass, QuietInOrder, FailureHasCause, [FlowNext]_flowVars
  PROVE  FailureHasCause'
<1>1. ASSUME NEW f \in Flow, NEW v \in {"node", "master"}, Login(f, v) PROVE FailureHasCause'
  BY <1>1 DEF Login, FlowTypeOK, HoldsPass, FailureHasCause, master,
     nodeFiles, carried, history, Reaches
<1>2. ASSUME NEW f \in Flow, NEW a \in Account, Consents(f, a) PROVE FailureHasCause'
  BY <1>2 DEF Consents, FlowTypeOK, HoldsPass, FailureHasCause, master,
     nodeFiles, carried, history, Reaches
<1>3. ASSUME NEW f \in Flow, Denies(f) PROVE FailureHasCause'
  BY <1>3 DEF Denies, FlowTypeOK, HoldsPass, FailureHasCause, master,
     nodeFiles, carried, history, Reaches
<1>4. ASSUME NEW f \in Flow, Callback(f) PROVE FailureHasCause'
  BY <1>4 DEF Callback, FlowTypeOK, HoldsPass, FailureHasCause, master,
     nodeFiles, carried, history, Reaches
<1>5. ASSUME NEW f \in Flow, Exchange(f) PROVE FailureHasCause'
  BY <1>5 DEF Exchange, FlowTypeOK, HoldsPass, FailureHasCause, master,
     nodeFiles, carried, history, Reaches
<1>6. ASSUME NEW f \in Flow, RegisterUser(f) PROVE FailureHasCause'
  BY <1>6 DEF RegisterUser, FlowTypeOK, HoldsPass, FailureHasCause, master,
     nodeFiles, carried, history, Reaches
<1>7. ASSUME NEW f \in Flow, Grant(f) PROVE FailureHasCause'
  BY <1>7 DEF Grant, FlowTypeOK, HoldsPass, FailureHasCause, master,
     nodeFiles, carried, history, Reaches
<1>8. ASSUME NEW f \in Flow, Follow(f) PROVE FailureHasCause'
  BY <1>8 DEF Follow, AtNode, FlowTypeOK, HoldsPass, FailureHasCause, master,
     nodeFiles, carried, history, Reaches
<1>9. ASSUME NEW f \in Flow, Consume(f) PROVE FailureHasCause'
  BY <1>9 DEF Consume, FlowTypeOK, HoldsPass, FailureHasCause, master,
     nodeFiles, carried, history, Reaches
<1>10. ASSUME NEW f \in Flow, NodeRegister(f) PROVE FailureHasCause'
  BY <1>10 DEF NodeRegister, FlowTypeOK, HoldsPass, FailureHasCause, master,
     nodeFiles, carried, history, Reaches
<1>11. ASSUME NEW f \in Flow, OpenDraft(f) PROVE FailureHasCause'
  BY <1>11 DEF OpenDraft, FlowTypeOK, HoldsPass, FailureHasCause, master,
     nodeFiles, carried, history, Reaches
<1>12. ASSUME NEW f \in Flow, WriteDraft(f) PROVE FailureHasCause'
  BY <1>12 DEF WriteDraft, Over, Own, FlowTypeOK, HoldsPass, FailureHasCause,
     master, nodeFiles, carried, history, Reaches
<1>13. ASSUME NEW f \in Flow, ReplaceContext(f) PROVE FailureHasCause'
  BY <1>13 DEF ReplaceContext, FlowTypeOK, HoldsPass, FailureHasCause, master,
     nodeFiles, carried, history, Reaches
<1>14. ASSUME NEW f \in Flow, ReplaceContextFails(f) PROVE FailureHasCause'
  BY <1>14, OwnIsContext, ContextAssumption DEF ReplaceContextFails,
     QuietInOrder, FlowTypeOK, HoldsPass, FailureHasCause, master, nodeFiles,
     carried, history, Reaches
<1>15. ASSUME NEW f \in Flow, SignedIn(f) PROVE FailureHasCause'
  BY <1>15 DEF SignedIn, FlowTypeOK, HoldsPass, FailureHasCause, master,
     nodeFiles, carried, history, Reaches
<1>16. ASSUME NEW f \in Flow, Lapses(f) PROVE FailureHasCause'
  BY <1>16 DEF Lapses, FlowTypeOK, HoldsPass, FailureHasCause, master,
     nodeFiles, carried, history, Reaches
<1>17. ASSUME NEW f \in Flow, Leaves(f) PROVE FailureHasCause'
  BY <1>17 DEF Leaves, FlowTypeOK, HoldsPass, FailureHasCause, master,
     nodeFiles, carried, history, Reaches
<1>18. ASSUME NEW f \in Flow, FlowFails(f) PROVE FailureHasCause'
  BY <1>18 DEF FlowFails, AtMaster, AtNode, FlowTypeOK, HoldsPass,
     FailureHasCause, master, nodeFiles, carried, history, Reaches
<1>19. ASSUME MasterForgets PROVE FailureHasCause'
  BY <1>19 DEF MasterForgets, Cut, AtMaster, FlowTypeOK, HoldsPass,
     FailureHasCause, master, nodeFiles, carried, history, Reaches
<1>20. ASSUME NodeForgets PROVE FailureHasCause'
  BY <1>20 DEF NodeForgets, Cut, AtNode, FlowTypeOK, HoldsPass,
     FailureHasCause, master, nodeFiles, carried, history, Reaches
<1>21. ASSUME Expires PROVE FailureHasCause'
  BY <1>21 DEF Expires, FlowTypeOK, HoldsPass, FailureHasCause, master,
     nodeFiles, carried, history, Reaches
<1>22. ASSUME NEW a \in Account, NEW n \in Name, Renames(a, n) PROVE FailureHasCause'
  BY <1>22 DEF Renames, FlowTypeOK, HoldsPass, FailureHasCause, master,
     nodeFiles, carried, history, Reaches
<1>23. CASE UNCHANGED flowVars
  BY <1>23 DEF flowVars, FlowTypeOK, HoldsPass, FailureHasCause, master,
     nodeFiles, carried, history, Reaches
<1> QED
  BY <1>1, <1>2, <1>3, <1>4, <1>5, <1>6, <1>7, <1>8, <1>9, <1>10, <1>11,
     <1>12, <1>13, <1>14, <1>15, <1>16, <1>17, <1>18, <1>19, <1>20, <1>21,
     <1>22, <1>23 DEF FlowNext, Onward

-----------------------------------------------------------------------------
(* Every step keeps all of it.                                             *)
LEMMA NextInv == IInv /\ [FlowNext]_flowVars => IInv'
BY TypeStep, CarriesStep, UsersStep, FlowsStep, ContextsStep, PassStep, MeetingsStep,
   QuietStep, CauseStep
   DEF IInv

(* Every reachable state satisfies the invariant.                          *)
THEOREM Invariant == FlowSpec => []IInv
BY NextInv, InitInv, PTL DEF FlowSpec

(* Every variable keeps its type.                                          *)
THEOREM TypeCorrect == FlowSpec => []FlowTypeOK
<1>1. IInv => FlowTypeOK
  BY DEF IInv
<1> QED
  BY <1>1, Invariant, PTL

(* Whatever flows, failures and restarts meet, what dns_claim.json holds   *)
(* fits the users of the master.                                           *)
THEOREM ClaimsAccepted == FlowSpec => []ClaimsFit
<1>1. IInv => ClaimsFit
  BY SignInAssumption
     DEF IInv, ContextsCurrent, UsersCurrent, Current, ClaimsFit, Verdict, Context, FlowTypeOK
<1> QED
  BY <1>1, Invariant, PTL

(* A sign-in that met no other at the node leaves its user and context.    *)
THEOREM QuietSignIns == FlowSpec => []QuietSignInTakes
<1>1. IInv => QuietSignInTakes
  BY DEF IInv, QuietInOrder, QuietSignInTakes
<1> QED
  BY <1>1, Invariant, PTL

(* A sign-in fails for a cause of its own or of one it met at the node.    *)
THEOREM FailuresCaused == FlowSpec => []FailureHasCause
<1>1. IInv => FailureHasCause
  BY DEF IInv
<1> QED
  BY <1>1, Invariant, PTL
=============================================================================
