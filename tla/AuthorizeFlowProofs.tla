-------------------------- MODULE AuthorizeFlowProofs -------------------------
(***************************************************************************)
(* Theorems about AuthorizeFlow for any number of tabs, users, keys and    *)
(* sessions, and any lifetimes.                                            *)
(***************************************************************************)
EXTENDS AuthorizeFlow, TLAPS

(* The inductive invariant.                                                *)

\* A form that offers to continue as a user found that user by a session which
\* is that user's, or deleted.
FormOK(f) == f.session # None => /\ f.session \in minted
                                 /\ sessions[f.session].user \in {None, f.shown}

\* A session id is drawn before it is stored, sent or deleted, and a session that a
\* switch of users has deleted is gone.
SessionsOK ==
    /\ cookie \in minted \cup {None}
    /\ \A s \in Sessions : sessions[s].user # None => s \in minted
    /\ left \subseteq minted
    /\ \A s \in left : sessions[s].user = None

Active(t) == pc[t] \notin {"idle", "respond"}

\* A request in progress posted what its form showed.
ConsentHeld(t) ==
    Active(t) => /\ req[t].form # NoForm
                 /\ req[t].params = req[t].form.params
                 /\ ParamsOK(req[t].params)
                 /\ FormOK(req[t].form)

KindHeld(t) ==
    /\ pc[t] \in {"validateLogin", "upsert"} => req[t].kind = "login"
    /\ pc[t] \in {"getSession", "getUser", "validateSaved"} => req[t].kind = "continue"

\* What is about to be stored rests on a key that Organizze accepted.
ProofHeld(t) ==
    pc[t] \in {"upsert", "createCode"} =>
        /\ got[t].proof \in Login
        /\ got[t].proof = [user |-> got[t].user, key |-> got[t].key]
        /\ req[t].kind = "login" => got[t].proof = req[t].login

\* A request to continue has the user of the session it found.
SessionHeld(t) ==
    pc[t] \in {"getUser", "validateSaved", "createCode"} /\ req[t].kind = "continue" =>
        /\ got[t].session # None
        /\ got[t].session = req[t].form.session => got[t].user = req[t].form.shown

UserHeld(t) ==
    pc[t] \in {"getUser", "validateSaved", "upsert", "createCode", "createSession"} =>
        got[t].user \in Users

TabOK(t) == /\ FormOK(page[t]) /\ FormOK(reply[t].page)
            /\ reply[t].cookie \in minted \cup {None}
            /\ ConsentHeld(t) /\ KindHeld(t) /\ ProofHeld(t) /\ SessionHeld(t)
            /\ UserHeld(t)

Inv == TypeOK /\ SessionsOK /\ \A t \in Tabs : TabOK(t)
-------------------------------------------------------------------------------
(* Types.                                                                  *)

StoreTypes ==
    /\ users \in [Users -> Keys \cup {None}]
    /\ sessions \in [Sessions -> SessionRow \cup {NoSession}]
    /\ minted \subseteq Sessions
    /\ codes \in [Codes -> CodeRow \cup {NoCode}]

BrowserTypes ==
    /\ cookie \in Sessions \cup {None}
    /\ page \in [Tabs -> Page]

HandlerTypes ==
    /\ pc \in [Tabs -> Steps]
    /\ req \in [Tabs -> Request \cup {Idle}]
    /\ got \in [Tabs -> Got]
    /\ reply \in [Tabs -> Reply]
    /\ \A t \in Tabs : Active(t) => req[t] \in Request

LEMMA Types ==
  TypeOK <=> /\ now \in Nat /\ live \in [Users -> Keys] /\ left \subseteq Sessions
             /\ StoreTypes /\ BrowserTypes /\ HandlerTypes
  BY DEF TypeOK, StoreTypes, BrowserTypes, HandlerTypes, Active

LEMMA TypesPrimed ==
  TypeOK' <=> /\ now' \in Nat /\ live' \in [Users -> Keys] /\ left' \subseteq Sessions
              /\ StoreTypes' /\ BrowserTypes' /\ HandlerTypes'
  BY DEF TypeOK, StoreTypes, BrowserTypes, HandlerTypes, Active

LEMMA Constants ==
  /\ NoForm \in Page /\ NoGot \in Got /\ NoReply \in Reply
  /\ \A f \in Form : f \in Page /\ f # NoForm
  /\ \A s \in Sessions : s # None
  /\ \A u \in Users : u # None
  /\ \A l \in Login : l # Blank
<1>1. NoForm \in Page BY DEF Page
<1>2. NoGot \in Got BY DEF NoGot, Got, Blank
<1>3. NoReply \in Reply BY <1>1 DEF NoReply, Reply
<1>4. \A f \in Form : f \in Page /\ f # NoForm BY DEF Page, Form, NoForm
<1>5. (\A s \in Sessions : s # None) /\ (\A u \in Users : u # None) BY AuthorizeAssumption
<1>6. \A l \in Login : l # Blank BY <1>5 DEF Login, Blank
<1> QED BY <1>1, <1>2, <1>3, <1>4, <1>5, <1>6

LEMMA RenderedForm ==
  ASSUME TypeOK, NEW p \in Params, NEW u \in Users \cup {None}, NEW s \in Sessions \cup {None}
  PROVE  Rendered(p, u, s) \in Page
  BY DEF TypeOK, Rendered, Page, Form

LEMMA EndTypes ==
  ASSUME HandlerTypes, NEW t \in Tabs, NEW step \in {"idle", "respond"}, EndHandler(t, step)
  PROVE  /\ pc' \in [Tabs -> Steps]
         /\ req' \in [Tabs -> Request \cup {Idle}]
         /\ got' \in [Tabs -> Got]
         /\ \A w \in Tabs : Active(w)' => req'[w] \in Request
         /\ pc'[t] = step /\ got'[t] = NoGot
         /\ \A w \in Tabs \ {t} : pc'[w] = pc[w] /\ req'[w] = req[w] /\ got'[w] = got[w]
<1>1. step \in Steps BY DEF Steps
<1>2. pc' \in [Tabs -> Steps] /\ pc'[t] = step /\ \A w \in Tabs \ {t} : pc'[w] = pc[w]
  BY <1>1 DEF HandlerTypes, EndHandler
<1>3. req' \in [Tabs -> Request \cup {Idle}] /\ \A w \in Tabs \ {t} : req'[w] = req[w]
  BY DEF HandlerTypes, EndHandler
<1>4. got' \in [Tabs -> Got] /\ got'[t] = NoGot /\ \A w \in Tabs \ {t} : got'[w] = got[w]
  BY Constants DEF HandlerTypes, EndHandler
<1>5. \A w \in Tabs : Active(w)' => req'[w] \in Request
  BY <1>2, <1>3 DEF HandlerTypes, Active
<1> QED BY <1>2, <1>3, <1>4, <1>5
-------------------------------------------------------------------------------
(* The control of a request: what each of its ways to go on keeps.          *)

\* Sessions are drawn and deleted, and never pass to another user.
Stable == /\ minted \subseteq minted'
          /\ \A s \in minted : sessions'[s].user \in {sessions[s].user, None}

LEMMA TabStable ==
  ASSUME Inv, Stable, NEW t \in Tabs,
         pc'[t] = pc[t], req'[t] = req[t], got'[t] = got[t],
         reply'[t] = reply[t], page'[t] = page[t]
  PROVE  TabOK(t)'
<1> USE DEF Stable
<1>1. TabOK(t) BY DEF Inv
<1>2. FormOK(page[t])' /\ FormOK(reply[t].page)' BY <1>1 DEF TabOK, FormOK
<1>3. ConsentHeld(t)' BY <1>1 DEF TabOK, ConsentHeld, Active, FormOK, ParamsOK
<1>4. KindHeld(t)' BY <1>1 DEF TabOK, KindHeld
<1>5. ProofHeld(t)' BY <1>1 DEF TabOK, ProofHeld
<1>6. SessionHeld(t)' BY <1>1 DEF TabOK, SessionHeld
<1>7. reply'[t].cookie \in minted' \cup {None} BY <1>1 DEF TabOK
<1>8. UserHeld(t)' BY <1>1 DEF TabOK, UserHeld
<1> QED BY <1>2, <1>3, <1>4, <1>5, <1>6, <1>7, <1>8 DEF TabOK

\* A handler at its end, whose tab then has this page and this reply.
LEMMA EndedTab ==
  ASSUME NEW t \in Tabs, pc'[t] \in {"idle", "respond"},
         FormOK(page[t])', FormOK(reply[t].page)', reply'[t].cookie \in minted' \cup {None}
  PROVE  TabOK(t)'
  BY DEF TabOK, ConsentHeld, KindHeld, ProofHeld, SessionHeld, UserHeld, Active

LEMMA RespondInv ==
  ASSUME Inv, Stable, SessionsOK', StoreTypes', now' \in Nat, live' \in [Users -> Keys],
         left' \subseteq Sessions,
         NEW t \in Tabs, NEW f \in Page, FormOK(f)', Respond(t, f)
  PROVE  Inv'
<1>1. HandlerTypes /\ BrowserTypes BY Types DEF Inv
<1>2. EndHandler(t, "idle") /\ UNCHANGED <<cookie, reply>> BY DEF Respond
<1>3. page' \in [Tabs -> Page] /\ page'[t] \in {page[t], f} /\ \A w \in Tabs \ {t} : page'[w] = page[w]
  BY <1>1 DEF Respond, BrowserTypes
<1>4. /\ pc' \in [Tabs -> Steps] /\ req' \in [Tabs -> Request \cup {Idle}] /\ got' \in [Tabs -> Got]
      /\ \A w \in Tabs : Active(w)' => req'[w] \in Request
      /\ pc'[t] = "idle"
      /\ \A w \in Tabs \ {t} : pc'[w] = pc[w] /\ req'[w] = req[w] /\ got'[w] = got[w]
  BY <1>1, <1>2, EndTypes
<1>5. TypeOK' BY <1>1, <1>2, <1>3, <1>4, TypesPrimed DEF HandlerTypes, BrowserTypes
<1>6. \A w \in Tabs \ {t} : TabOK(w)' BY <1>2, <1>3, <1>4, TabStable
<1>7. FormOK(page[t]) /\ FormOK(reply[t].page) /\ reply[t].cookie \in minted \cup {None}
  BY DEF Inv, TabOK
<1>8. FormOK(page[t])' BY <1>3, <1>7 DEF FormOK, Stable
<1>9. FormOK(reply[t].page)' /\ reply'[t].cookie \in minted' \cup {None}
  BY <1>2, <1>7 DEF FormOK, Stable
<1>10. TabOK(t)' BY <1>4, <1>8, <1>9, EndedTab
<1> QED BY <1>5, <1>6, <1>10 DEF Inv

LEMMA RespondWithCookieInv ==
  ASSUME Inv, Stable, SessionsOK', StoreTypes', now' \in Nat, live' \in [Users -> Keys],
         left' \subseteq Sessions,
         NEW t \in Tabs, NEW c \in minted' \cup {None}, NEW f \in Page, FormOK(f)',
         RespondWithCookie(t, c, f)
  PROVE  Inv'
<1>1. HandlerTypes /\ BrowserTypes BY Types DEF Inv
<1>2. /\ EndHandler(t, "respond") /\ UNCHANGED <<cookie, page>>
      /\ reply' = [reply EXCEPT ![t] = [cookie |-> c, page |-> f]]
  BY DEF RespondWithCookie, browser
<1>3. [cookie |-> c, page |-> f] \in Reply BY DEF Reply, StoreTypes
<1>4. /\ reply' \in [Tabs -> Reply] /\ reply'[t] = [cookie |-> c, page |-> f]
      /\ \A w \in Tabs \ {t} : reply'[w] = reply[w]
  BY <1>1, <1>2, <1>3 DEF HandlerTypes
<1>5. /\ pc' \in [Tabs -> Steps] /\ req' \in [Tabs -> Request \cup {Idle}] /\ got' \in [Tabs -> Got]
      /\ \A w \in Tabs : Active(w)' => req'[w] \in Request
      /\ pc'[t] = "respond"
      /\ \A w \in Tabs \ {t} : pc'[w] = pc[w] /\ req'[w] = req[w] /\ got'[w] = got[w]
  BY <1>1, <1>2, EndTypes
<1>6. TypeOK' BY <1>1, <1>2, <1>4, <1>5, TypesPrimed DEF HandlerTypes, BrowserTypes
<1>7. \A w \in Tabs \ {t} : TabOK(w)' BY <1>2, <1>4, <1>5, TabStable
<1>8. FormOK(page[t]) BY DEF Inv, TabOK
<1>9. FormOK(page[t])' BY <1>2, <1>8 DEF FormOK, Stable
<1>10. FormOK(reply[t].page)' /\ reply'[t].cookie \in minted' \cup {None}
  BY <1>4 DEF FormOK
<1>11. TabOK(t)' BY <1>5, <1>9, <1>10, EndedTab
<1> QED BY <1>6, <1>7, <1>11 DEF Inv

LEMMA ContinueInv ==
  ASSUME Inv, StoreTypes', now' \in Nat, live' \in [Users -> Keys],
         UNCHANGED <<sessions, minted, left>>,
         NEW t \in Tabs, Active(t),
         NEW step \in Steps \ {"idle", "respond"}, Continue(t, step),
         NEW g \in Got, got' = [got EXCEPT ![t] = g],
         KindHeld(t)', ProofHeld(t)', SessionHeld(t)', UserHeld(t)'
  PROVE  Inv'
<1>1. HandlerTypes /\ BrowserTypes BY Types DEF Inv
<1>2. UNCHANGED <<req, reply, cookie, page>> /\ pc' = [pc EXCEPT ![t] = step]
  BY DEF Continue, browser
<1>3. pc' \in [Tabs -> Steps] /\ pc'[t] = step /\ \A w \in Tabs \ {t} : pc'[w] = pc[w]
  BY <1>1, <1>2 DEF HandlerTypes
<1>4. got' \in [Tabs -> Got] /\ \A w \in Tabs \ {t} : got'[w] = got[w]
  BY <1>1 DEF HandlerTypes
<1>5. \A w \in Tabs : Active(w)' => req'[w] \in Request
  BY <1>1, <1>2, <1>3 DEF HandlerTypes, Active
<1>6. TypeOK' BY <1>1, <1>2, <1>3, <1>4, <1>5, TypesPrimed DEF HandlerTypes, BrowserTypes, Inv, TypeOK
<1>7. Stable BY DEF Stable
<1>8. \A w \in Tabs \ {t} : TabOK(w)' BY <1>2, <1>3, <1>4, <1>7, TabStable
<1>9. FormOK(page[t]) /\ FormOK(reply[t].page) /\ reply[t].cookie \in minted \cup {None}
      /\ ConsentHeld(t)
  BY DEF Inv, TabOK
<1>10. FormOK(page[t])' /\ FormOK(reply[t].page)' /\ reply'[t].cookie \in minted' \cup {None}
  BY <1>2, <1>9 DEF FormOK
<1>11. ConsentHeld(t)' BY <1>2, <1>9 DEF ConsentHeld, Active, FormOK, ParamsOK
<1>12. TabOK(t)' BY <1>10, <1>11 DEF TabOK
<1>13. SessionsOK' BY <1>2 DEF SessionsOK, Inv
<1> QED BY <1>6, <1>8, <1>12, <1>13 DEF Inv
-------------------------------------------------------------------------------
LEMMA InitInv == Init => Inv
<1> SUFFICES ASSUME Init PROVE Inv
  OBVIOUS
<1> USE DEF Init
<1>1. /\ users \in [Users -> Keys \cup {None}]
      /\ sessions \in [Sessions -> SessionRow \cup {NoSession}]
      /\ minted \subseteq Sessions /\ cookie \in minted \cup {None}
      /\ \A s \in Sessions : sessions[s].user # None => s \in minted
  <2>1. CASE NeverVisited BY <2>1 DEF NeverVisited, NoSession
  <2>2. ASSUME NEW s \in Sessions, NEW u \in Users, NEW k \in KeysOf[u], Visited(s, u, k)
        PROVE  <1>1
    <3>1. k \in Keys BY AuthorizeAssumption
    <3>2. [user |-> u, expires |-> SessionTTL] \in SessionRow BY AuthorizeAssumption DEF SessionRow
    <3>3. users \in [Users -> Keys \cup {None}] BY <2>2, <3>1 DEF Visited
    <3>4. sessions \in [Sessions -> SessionRow \cup {NoSession}] BY <2>2, <3>2 DEF Visited
    <3>5. minted = {s} /\ cookie = s BY <2>2 DEF Visited
    <3>6. \A x \in Sessions : sessions[x].user # None => x = s BY <2>2 DEF Visited, NoSession
    <3> QED BY <3>3, <3>4, <3>5, <3>6
  <2> QED BY <2>1, <2>2
<1>2. pc \in [Tabs -> Steps] BY DEF Steps
<1>3. \A t \in Tabs : pc[t] = "idle" /\ page[t] = NoForm /\ reply[t] = NoReply OBVIOUS
<1>4. HandlerTypes
  <2>1. req \in [Tabs -> Request \cup {Idle}] /\ got \in [Tabs -> Got] /\ reply \in [Tabs -> Reply]
    BY Constants
  <2> QED BY <1>2, <1>3, <2>1 DEF HandlerTypes, Active
<1>5. StoreTypes BY <1>1 DEF StoreTypes
<1>6. BrowserTypes BY <1>1, Constants DEF BrowserTypes
<1>7. TypeOK BY <1>4, <1>5, <1>6, Types
<1>8. SessionsOK BY <1>1 DEF SessionsOK
<1>9. \A t \in Tabs : TabOK(t)
  BY <1>3 DEF TabOK, FormOK, NoForm, NoReply, ConsentHeld, KindHeld, ProofHeld, SessionHeld,
              UserHeld, Active
<1> QED BY <1>7, <1>8, <1>9 DEF Inv
-------------------------------------------------------------------------------
(* The environment and the arrival of a response.                          *)

LEMMA EnvironmentInv ==
  ASSUME Inv, UNCHANGED <<store, browser, handlers, left>>,
         now' \in Nat, live' \in [Users -> Keys]
  PROVE  Inv'
<1> USE DEF store, browser, handlers
<1>1. TypeOK' BY DEF Inv, TypeOK
<1>2. SessionsOK' BY DEF Inv, SessionsOK
<1>3. Stable BY DEF Stable
<1>4. \A t \in Tabs : TabOK(t)' BY <1>3, TabStable
<1> QED BY <1>1, <1>2, <1>4 DEF Inv

LEMMA TickInv ==
  ASSUME Inv, Tick
  PROVE  Inv'
<1>1. now' \in Nat /\ live' \in [Users -> Keys] BY DEF Tick, Inv, TypeOK
<1> QED BY <1>1, EnvironmentInv DEF Tick

LEMMA ReplaceKeyInv ==
  ASSUME Inv, NEW u \in Users, NEW k \in Keys, ReplaceKey(u, k)
  PROVE  Inv'
<1>1. now' \in Nat /\ live' \in [Users -> Keys] BY DEF ReplaceKey, Inv, TypeOK
<1> QED BY <1>1, EnvironmentInv DEF ReplaceKey

LEMMA ArriveInv ==
  ASSUME Inv, NEW t \in Tabs, Arrive(t)
  PROVE  Inv'
<1> USE DEF Arrive, store, browser
<1>1. HandlerTypes /\ BrowserTypes /\ StoreTypes BY Types DEF Inv
<1>2. /\ FormOK(page[t]) /\ FormOK(reply[t].page) /\ reply[t].cookie \in minted \cup {None}
      /\ cookie \in minted \cup {None}
  BY DEF Inv, TabOK, SessionsOK
<1>3. reply[t].cookie \in Sessions \cup {None} /\ reply[t].page \in Page
  BY <1>1 DEF HandlerTypes, Reply
<1>4. /\ page' \in [Tabs -> Page] /\ page'[t] \in {page[t], reply[t].page}
      /\ \A w \in Tabs \ {t} : page'[w] = page[w]
  BY <1>1, <1>3 DEF BrowserTypes
<1>5. cookie' \in Sessions \cup {None} /\ cookie' \in minted \cup {None}
  BY <1>1, <1>2, <1>3 DEF BrowserTypes
<1>6. /\ pc' \in [Tabs -> Steps] /\ pc'[t] = "idle" /\ \A w \in Tabs \ {t} : pc'[w] = pc[w]
  BY <1>1 DEF HandlerTypes, Steps
<1>7. /\ reply' \in [Tabs -> Reply] /\ reply'[t] = NoReply
      /\ \A w \in Tabs \ {t} : reply'[w] = reply[w]
  BY <1>1, Constants DEF HandlerTypes
<1>8. \A w \in Tabs : Active(w)' => req'[w] \in Request BY <1>1, <1>6 DEF HandlerTypes, Active
<1>9. HandlerTypes' BY <1>1, <1>6, <1>7, <1>8 DEF HandlerTypes
<1>10. BrowserTypes' /\ StoreTypes' BY <1>1, <1>4, <1>5 DEF BrowserTypes, StoreTypes
<1>11. TypeOK' BY <1>9, <1>10, TypesPrimed DEF Inv, TypeOK
<1>12. Stable BY DEF Stable
<1>13. \A w \in Tabs \ {t} : TabOK(w)' BY <1>4, <1>6, <1>7, <1>12, TabStable
<1>14. FormOK(page[t])' BY <1>2, <1>4 DEF FormOK
<1>15. FormOK(reply[t].page)' /\ reply'[t].cookie \in minted' \cup {None}
  BY <1>7 DEF FormOK, NoReply, NoForm
<1>16. TabOK(t)' BY <1>6, <1>14, <1>15, EndedTab
<1>17. SessionsOK' BY <1>5 DEF Inv, SessionsOK
<1> QED BY <1>11, <1>13, <1>16, <1>17 DEF Inv
-------------------------------------------------------------------------------
(* The handlers.                                                           *)

\* The form without a user, and no form, are in order in any state.
LEMMA BareForms ==
  ASSUME Inv, NEW p \in Params
  PROVE  /\ Rendered(p, None, None) \in Page /\ NoForm \in Page
         /\ Rendered(p, None, None).session = None /\ NoForm.session = None
  BY RenderedForm, Constants DEF Inv, Rendered, NoForm

\* A handler that responds and has stored nothing.
LEMMA PlainRespondInv ==
  ASSUME Inv, UNCHANGED <<now, live, store, left>>, NEW t \in Tabs, NEW f \in Page, FormOK(f),
         Respond(t, f)
  PROVE  Inv'
<1> USE DEF store
<1>1. StoreTypes' /\ now' \in Nat /\ live' \in [Users -> Keys] /\ left' \subseteq Sessions
  BY DEF Inv, TypeOK, StoreTypes
<1>2. Stable BY DEF Stable
<1>3. FormOK(f)' BY DEF FormOK
<1>4. SessionsOK'
  BY DEF Inv, SessionsOK, Respond
<1> QED BY <1>1, <1>2, <1>3, <1>4, RespondInv

LEMMA RefuseInv ==
  ASSUME Inv, UNCHANGED <<now, live, store, left>>, NEW t \in Tabs, Active(t), Respond(t, Bare(t))
  PROVE  Inv'
<1>1. req[t].params \in Params BY DEF Inv, TypeOK, Active, Request
<1>2. PICK f \in Page : f = Bare(t) BY <1>1, BareForms DEF Bare
<1>3. FormOK(f) BY <1>1, <1>2, BareForms DEF FormOK, Bare
<1> QED BY <1>2, <1>3, PlainRespondInv

LEMMA AuthorizeGETInv ==
  ASSUME Inv, NEW t \in Tabs, NEW p \in Params, AuthorizeGET(t, p)
  PROVE  Inv'
<1>1. CASE Found(cookie) /\ Respond(t, Rendered(p, sessions[cookie].user, cookie))
  <2>1. /\ cookie \in Sessions /\ cookie \in minted /\ sessions[cookie].user \in Users
    BY <1>1 DEF Found, Inv, TypeOK, SessionsOK, SessionRow, NoSession
  <2>2. PICK f \in Page : f = Rendered(p, sessions[cookie].user, cookie)
    BY <2>1, RenderedForm DEF Inv
  <2>3. FormOK(f) BY <2>1, <2>2 DEF FormOK, Rendered
  <2> QED BY <1>1, <2>2, <2>3, PlainRespondInv DEF AuthorizeGET
<1>2. CASE Respond(t, Rendered(p, None, None))
  <2>1. PICK f \in Page : f = Rendered(p, None, None) BY BareForms
  <2>2. FormOK(f) BY <2>1, BareForms DEF FormOK
  <2> QED BY <1>2, <2>1, <2>2, PlainRespondInv DEF AuthorizeGET
<1> QED BY <1>1, <1>2 DEF AuthorizeGET

LEMMA SwitchUserInv ==
  ASSUME Inv, NEW t \in Tabs, NEW p \in Params, SwitchUser(t, p)
  PROVE  Inv'
<1>1. PICK f \in Page : f = Rendered(p, None, None) BY BareForms
<1>2. FormOK(f)' BY <1>1, BareForms DEF FormOK
<1>3. RespondWithCookie(t, None, f) /\ UNCHANGED <<now, live, users, minted, codes>>
  BY <1>1 DEF SwitchUser
<1>4. now' \in Nat /\ live' \in [Users -> Keys] BY <1>3 DEF Inv, TypeOK
<1>5. UNCHANGED cookie BY <1>3 DEF RespondWithCookie, browser
<1>6. CASE cookie # None /\ sessions' = [sessions EXCEPT ![cookie] = NoSession] /\ left' = left \cup {cookie}
  <2>1. cookie \in Sessions /\ cookie \in minted BY <1>6 DEF Inv, TypeOK, SessionsOK
  <2>2. /\ sessions' \in [Sessions -> SessionRow \cup {NoSession}] /\ sessions'[cookie] = NoSession
        /\ \A s \in Sessions \ {cookie} : sessions'[s] = sessions[s]
    BY <1>6, <2>1 DEF Inv, TypeOK
  <2>3. StoreTypes' /\ left' \subseteq Sessions
    BY <1>3, <1>6, <2>1, <2>2 DEF StoreTypes, Inv, TypeOK
  <2>4. NoSession.user = None BY DEF NoSession
  <2>5. Stable BY <1>3, <2>2, <2>4 DEF Stable, Inv, TypeOK
  <2>6. SessionsOK' BY <1>3, <1>5, <1>6, <2>1, <2>2, <2>4 DEF SessionsOK, Inv, TypeOK
  <2> QED BY <1>2, <1>3, <1>4, <2>3, <2>5, <2>6, RespondWithCookieInv
<1>7. CASE UNCHANGED <<sessions, left>>
  <2>1. StoreTypes' /\ left' \subseteq Sessions /\ Stable
    BY <1>3, <1>7 DEF StoreTypes, Inv, TypeOK, Stable
  <2>2. SessionsOK' BY <1>3, <1>5, <1>7 DEF SessionsOK, Inv
  <2> QED BY <1>2, <1>3, <1>4, <2>1, <2>2, RespondWithCookieInv
<1> QED BY <1>6, <1>7 DEF SwitchUser

LEMMA AuthorizePOSTInv ==
  ASSUME Inv, NEW t \in Tabs, NEW p \in Params, NEW l \in Login \cup {Blank}, AuthorizePOST(t, p, l)
  PROVE  Inv'
<1> DEFINE step == IF page[t].shown # None THEN "getSession" ELSE "validateLogin"
           r == [ kind |-> IF page[t].shown # None THEN "continue" ELSE "login", params |-> p,
                  cookie |-> cookie, login |-> l, form |-> page[t] ]
<1>1. ConsentOK(page[t], p) /\ ParamsOK(p) /\ Begin(t, step, r) BY DEF AuthorizePOST
<1> HIDE DEF step
<1>2. HandlerTypes /\ BrowserTypes /\ StoreTypes BY Types DEF Inv
<1>3. step \in Steps BY DEF step, Steps
<1>4. r \in Request BY <1>2 DEF Request, BrowserTypes
<1>5. /\ page[t] # NoForm /\ p = page[t].params BY <1>1 DEF ConsentOK
<1>6. UNCHANGED <<now, live, users, sessions, minted, codes, cookie, page, got, reply, left>>
  BY <1>1 DEF Begin, store, browser
<1>7. /\ pc' \in [Tabs -> Steps] /\ pc'[t] = step
      /\ \A w \in Tabs \ {t} : pc'[w] = pc[w]
  BY <1>1, <1>2, <1>3 DEF Begin, HandlerTypes
<1>8. /\ req' \in [Tabs -> Request \cup {Idle}] /\ req'[t] = r
      /\ \A w \in Tabs \ {t} : req'[w] = req[w]
  BY <1>1, <1>2, <1>4 DEF Begin, HandlerTypes
<1>9. \A w \in Tabs : Active(w)' => req'[w] \in Request
  BY <1>2, <1>4, <1>7, <1>8 DEF HandlerTypes, Active
<1>10. TypeOK' BY <1>2, <1>6, <1>7, <1>8, <1>9, TypesPrimed
               DEF HandlerTypes, BrowserTypes, StoreTypes, Inv, TypeOK
<1>11. Stable BY <1>6 DEF Stable
<1>12. \A w \in Tabs \ {t} : TabOK(w)' BY <1>6, <1>7, <1>8, <1>11, TabStable
<1>13. FormOK(page[t]) /\ FormOK(reply[t].page) /\ reply[t].cookie \in minted \cup {None}
  BY DEF Inv, TabOK
<1>14. FormOK(page[t])' /\ FormOK(reply[t].page)' /\ reply'[t].cookie \in minted' \cup {None}
  BY <1>6, <1>13 DEF FormOK
<1>15. r.form = page[t] /\ r.params = p
       /\ r.kind = IF step = "getSession" THEN "continue" ELSE "login"
  BY DEF step
<1>16. ConsentHeld(t)'
  <2>1. req'[t].form # NoForm /\ req'[t].params = req'[t].form.params
    BY <1>5, <1>8, <1>15
  <2>2. ParamsOK(req[t].params)' BY <1>1, <1>8, <1>15 DEF ParamsOK
  <2>3. FormOK(req[t].form)' BY <1>6, <1>8, <1>13, <1>15 DEF FormOK
  <2> QED BY <2>1, <2>2, <2>3 DEF ConsentHeld
<1>17. step \in {"getSession", "validateLogin"} BY DEF step
<1> HIDE DEF r
<1>18. KindHeld(t)' BY <1>7, <1>8, <1>15, <1>17 DEF KindHeld
<1>19. ProofHeld(t)' /\ SessionHeld(t)' /\ UserHeld(t)'
  BY <1>7, <1>17 DEF ProofHeld, SessionHeld, UserHeld
<1>20. TabOK(t)' BY <1>14, <1>16, <1>18, <1>19 DEF TabOK
<1>21. SessionsOK' BY <1>6 DEF SessionsOK, Inv
<1> QED BY <1>10, <1>12, <1>20, <1>21 DEF Inv

LEMMA GetSessionInv ==
  ASSUME Inv, NEW t \in Tabs, GetSession(t)
  PROVE  Inv'
<1> USE DEF GetSession
<1>1. Active(t) /\ TabOK(t) /\ req[t] \in Request /\ UNCHANGED <<now, live, store, left>>
  BY DEF Active, Inv, TypeOK
<1>2. CASE /\ Found(req[t].cookie)
           /\ got' = [got EXCEPT ![t] = [ user |-> sessions[req[t].cookie].user, key |-> None,
                                          session |-> req[t].cookie, proof |-> Blank ]]
           /\ Continue(t, "getUser")
  <2> DEFINE s == req[t].cookie
             g == [ user |-> sessions[s].user, key |-> None, session |-> s, proof |-> Blank ]
  <2>1. s \in Sessions /\ s # None /\ sessions[s].user \in Users
    BY <1>1, <1>2 DEF Found, Request, Inv, TypeOK, SessionRow, NoSession
  <2>2. g \in Got BY <2>1 DEF Got
  <2>3. /\ pc'[t] = "getUser" /\ req'[t] = req[t] /\ got'[t] = g /\ got' = [got EXCEPT ![t] = g]
        /\ UNCHANGED <<sessions, minted, left, now, live, users, codes>>
    BY <1>1, <1>2 DEF Continue, Inv, TypeOK, store
  <2>4. KindHeld(t)' /\ ProofHeld(t)' /\ UserHeld(t)'
    BY <1>1, <2>1, <2>3 DEF KindHeld, ProofHeld, UserHeld, TabOK
  <2>5. req[t].form.session = s => sessions[s].user = req[t].form.shown
    <3>1. FormOK(req[t].form) BY <1>1 DEF TabOK, ConsentHeld
    <3>2. \A u \in Users : u # None BY Constants
    <3> QED BY <2>1, <3>1, <3>2 DEF FormOK
  <2>6. SessionHeld(t)' BY <2>1, <2>3, <2>5 DEF SessionHeld
  <2>7. StoreTypes' /\ now' \in Nat /\ live' \in [Users -> Keys] BY <2>3 DEF StoreTypes, Inv, TypeOK
  <2>8. "getUser" \in Steps \ {"idle", "respond"} BY DEF Steps
  <2>9. Continue(t, "getUser") BY <1>2
  <2> HIDE DEF g, s, GetSession
  <2> QED BY <1>1, <2>2, <2>3, <2>4, <2>6, <2>7, <2>8, <2>9, ContinueInv
<1>3. CASE NoUserFound(t)
  <2> HIDE DEF GetSession
  <2> QED BY <1>1, <1>3, RefuseInv DEF NoUserFound
<1> QED BY <1>2, <1>3

LEMMA GetUserInv ==
  ASSUME Inv, NEW t \in Tabs, GetUser(t)
  PROVE  Inv'
<1> USE DEF GetUser
<1>1. Active(t) /\ TabOK(t) /\ req[t] \in Request /\ UNCHANGED <<now, live, store, left>>
  BY DEF Active, Inv, TypeOK
<1>2. CASE /\ got' = [got EXCEPT ![t] = [@ EXCEPT !.key = users[got[t].user]]]
           /\ Continue(t, "validateSaved")
  <2> DEFINE g == [got[t] EXCEPT !.key = users[got[t].user]]
  <2>1. got[t] \in Got /\ got[t].user \in Users BY <1>1 DEF Inv, TypeOK, TabOK, UserHeld
  <2>2. users[got[t].user] \in Keys \cup {None} BY <2>1 DEF Inv, TypeOK
  <2>3. g \in Got /\ g.user = got[t].user /\ g.session = got[t].session BY <2>1, <2>2 DEF Got
  <2>4. /\ pc'[t] = "validateSaved" /\ req'[t] = req[t] /\ got'[t] = g /\ got' = [got EXCEPT ![t] = g]
        /\ UNCHANGED <<sessions, minted, left, now, live, users, codes>>
    BY <1>1, <1>2 DEF Continue, Inv, TypeOK, store
  <2> HIDE DEF g
  <2>5. KindHeld(t)' /\ ProofHeld(t)' /\ UserHeld(t)'
    BY <1>1, <2>1, <2>3, <2>4 DEF KindHeld, ProofHeld, UserHeld, TabOK
  <2>6. SessionHeld(t)' BY <1>1, <2>3, <2>4 DEF SessionHeld, TabOK
  <2>7. StoreTypes' /\ now' \in Nat /\ live' \in [Users -> Keys] BY <2>4 DEF StoreTypes, Inv, TypeOK
  <2>8. "validateSaved" \in Steps \ {"idle", "respond"} BY DEF Steps
  <2>9. Continue(t, "validateSaved") BY <1>2
  <2> HIDE DEF GetUser
  <2> QED BY <1>1, <2>3, <2>4, <2>5, <2>6, <2>7, <2>8, <2>9, ContinueInv
<1>3. CASE NoUserFound(t)
  <2> HIDE DEF GetUser
  <2> QED BY <1>1, <1>3, RefuseInv DEF NoUserFound
<1> QED BY <1>2, <1>3

\* A key that Organizze accepted for a user is a proof for that user.
LEMMA AcceptInv ==
  ASSUME Inv, NEW t \in Tabs, Active(t), NEW u \in Users, NEW k, UNCHANGED <<now, live, store, left>>,
         NEW step \in {"createCode", "upsert"}, Accept(t, [user |-> u, key |-> k], step),
         step = "upsert" => req[t].kind = "login",
         req[t].kind = "login" => req[t].login = [user |-> u, key |-> k],
         req[t].kind = "continue" => /\ got[t].session # None
                                     /\ got[t].session = req[t].form.session => u = req[t].form.shown
  PROVE  Inv'
<1> DEFINE l == [user |-> u, key |-> k]
           g == [ user |-> u, key |-> k, session |-> got[t].session, proof |-> l ]
<1>1. k \in Keys /\ l \in Login BY DEF Accept, Inv, TypeOK, Login
<1>2. got[t].session \in Sessions \cup {None} BY DEF Inv, TypeOK, Got
<1>3. g \in Got BY <1>1, <1>2 DEF Got
<1>4. /\ pc'[t] = step /\ req'[t] = req[t] /\ got'[t] = g /\ got' = [got EXCEPT ![t] = g]
      /\ UNCHANGED <<sessions, minted, left, now, live, users, codes>>
  BY DEF Accept, Continue, Inv, TypeOK, store
<1>5. KindHeld(t)' BY <1>4 DEF KindHeld
<1>6. ProofHeld(t)' BY <1>1, <1>4 DEF ProofHeld
<1>7. SessionHeld(t)' BY <1>4 DEF SessionHeld
<1>8. UserHeld(t)' BY <1>4 DEF UserHeld
<1>9. StoreTypes' /\ now' \in Nat /\ live' \in [Users -> Keys] BY <1>4 DEF StoreTypes, Inv, TypeOK
<1>10. step \in Steps \ {"idle", "respond"} /\ Continue(t, step) BY DEF Steps, Accept
<1> HIDE DEF g, l
<1> QED BY <1>3, <1>4, <1>5, <1>6, <1>7, <1>8, <1>9, <1>10, ContinueInv

LEMMA ValidateSavedInv ==
  ASSUME Inv, NEW t \in Tabs, ValidateSaved(t)
  PROVE  Inv'
<1>1. Active(t) /\ TabOK(t) /\ UNCHANGED <<now, live, store, left>> /\ pc[t] = "validateSaved"
  BY DEF ValidateSaved, Active, Inv
<1>2. CASE Accept(t, [user |-> got[t].user, key |-> got[t].key], "createCode")
  <2>1. got[t].user \in Users BY <1>1 DEF TabOK, UserHeld
  <2>2. req[t].kind = "continue" BY <1>1 DEF TabOK, KindHeld
  <2>3. got[t].session # None /\ (got[t].session = req[t].form.session => got[t].user = req[t].form.shown)
    BY <1>1, <2>2 DEF TabOK, SessionHeld
  <2> QED BY <1>1, <1>2, <2>1, <2>2, <2>3, AcceptInv
<1>3. CASE Refuse(t) BY <1>1, <1>3, RefuseInv DEF Refuse
<1>4. CASE ServerError(t)
  <2>1. NoForm \in Page /\ FormOK(NoForm)' BY Constants DEF FormOK, NoForm
  <2>2. Respond(t, NoForm) BY <1>4 DEF ServerError
  <2>3. /\ Stable /\ StoreTypes' /\ SessionsOK'
        /\ now' \in Nat /\ live' \in [Users -> Keys] /\ left' \subseteq Sessions
    BY <1>1, <2>2 DEF Stable, StoreTypes, SessionsOK, Respond, store, Inv, TypeOK
  <2> HIDE DEF ValidateSaved
  <2> QED BY <1>1, <2>1, <2>2, <2>3, RespondInv
<1> QED BY <1>2, <1>3, <1>4 DEF ValidateSaved

LEMMA ValidateLoginInv ==
  ASSUME Inv, NEW t \in Tabs, ValidateLogin(t)
  PROVE  Inv'
<1>1. Active(t) /\ TabOK(t) /\ UNCHANGED <<now, live, store, left>> /\ pc[t] = "validateLogin"
  BY DEF ValidateLogin, Active, Inv
<1>2. CASE req[t].login # Blank /\ Accept(t, req[t].login, "upsert")
  <2>1. req[t].login \in Login BY <1>1, <1>2 DEF Inv, TypeOK, Active, Request
  <2>2. PICK u \in Users, k \in Keys : req[t].login = [user |-> u, key |-> k] BY <2>1 DEF Login
  <2>3. req[t].kind = "login" BY <1>1 DEF TabOK, KindHeld
  <2>4. Accept(t, [user |-> u, key |-> k], "upsert") BY <1>2, <2>2
  <2> QED BY <1>1, <2>2, <2>3, <2>4, AcceptInv
<1>3. CASE Refuse(t) BY <1>1, <1>3, RefuseInv DEF Refuse
<1> QED BY <1>2, <1>3 DEF ValidateLogin

\* A statement that leaves the sessions alone, after which the handler goes on or fails.
LEMMA OutcomeInv ==
  ASSUME Inv, StoreTypes', UNCHANGED <<now, live, sessions, minted, left>>,
         NEW t \in Tabs, NEW step \in {"createCode", "createSession"},
         pc[t] = IF step = "createCode" THEN "upsert" ELSE "createCode",
         Outcome(t, step) \/ ServerError(t)
  PROVE  Inv'
<1>1. Active(t) /\ TabOK(t) /\ got[t] \in Got BY DEF Active, Inv, TypeOK
<1>2. now' \in Nat /\ live' \in [Users -> Keys] /\ left' \subseteq Sessions BY DEF Inv, TypeOK
<1>3. CASE Continue(t, step) /\ UNCHANGED got
  <2>1. got' = [got EXCEPT ![t] = got[t]] BY <1>3 DEF Inv, TypeOK
  <2>2. pc'[t] = step /\ req'[t] = req[t] /\ got'[t] = got[t] BY <1>3 DEF Continue, Inv, TypeOK
  <2>3. UserHeld(t)' BY <1>1, <2>2 DEF TabOK, UserHeld
  <2>4. KindHeld(t)' BY <2>2 DEF KindHeld
  <2>5. ProofHeld(t)' BY <1>1, <2>2 DEF TabOK, ProofHeld
  <2>6. SessionHeld(t)' BY <1>1, <2>2 DEF TabOK, SessionHeld, KindHeld
  <2>7. step \in Steps \ {"idle", "respond"} BY DEF Steps
  <2> QED BY <1>1, <1>2, <1>3, <2>1, <2>3, <2>4, <2>5, <2>6, <2>7, ContinueInv
<1>4. CASE ServerError(t)
  <2>1. NoForm \in Page /\ FormOK(NoForm)' BY Constants DEF FormOK, NoForm
  <2>2. Respond(t, NoForm) BY <1>4 DEF ServerError
  <2>3. Stable BY DEF Stable
  <2>4. SessionsOK' BY <2>2 DEF Respond, SessionsOK, Inv
  <2> QED BY <1>2, <2>1, <2>2, <2>3, <2>4, RespondInv
<1> QED BY <1>3, <1>4 DEF Outcome

LEMMA UpsertUserInv ==
  ASSUME Inv, NEW t \in Tabs, UpsertUser(t)
  PROVE  Inv'
<1>1. TabOK(t) /\ pc[t] = "upsert" /\ UNCHANGED <<now, live, sessions, minted, codes, left>>
  BY DEF UpsertUser, Inv
<1>2. got[t].user \in Users /\ got[t].key \in Keys
  BY <1>1 DEF TabOK, UserHeld, ProofHeld, Login
<1>3. users' \in [Users -> Keys \cup {None}] BY <1>2 DEF UpsertUser, Inv, TypeOK
<1>4. StoreTypes' BY <1>1, <1>3 DEF StoreTypes, Inv, TypeOK
<1>5. Outcome(t, "createCode") \/ ServerError(t) BY DEF UpsertUser
<1> QED BY <1>1, <1>4, <1>5, OutcomeInv

LEMMA ApprovedRowType ==
  ASSUME Inv, NEW t \in Tabs, pc[t] = "createCode"
  PROVE  ApprovedRow(t) \in CodeRow
<1>1. got[t].user \in Users BY DEF Inv, TabOK, UserHeld
<1>2. req[t].params \in Params BY DEF Inv, TypeOK, Request
<1>3. now + CodeTTL \in Nat BY AuthorizeAssumption DEF Inv, TypeOK
<1> QED BY <1>1, <1>2, <1>3 DEF ApprovedRow, CodeRow, Params

LEMMA CreateAuthCodeInv ==
  ASSUME Inv, NEW t \in Tabs, CreateAuthCode(t)
  PROVE  Inv'
<1>1. TabOK(t) /\ pc[t] = "createCode" /\ UNCHANGED <<now, live, users, sessions, minted, left>>
  BY DEF CreateAuthCode, Inv
<1>2. codes' \in [Codes -> CodeRow \cup {NoCode}]
  BY <1>1, ApprovedRowType DEF CreateAuthCode, Inv, TypeOK
<1>3. StoreTypes' BY <1>1, <1>2 DEF StoreTypes, Inv, TypeOK
<1>4. Outcome(t, "createSession") \/ ServerError(t) BY DEF CreateAuthCode
<1> QED BY <1>1, <1>3, <1>4, OutcomeInv

LEMMA CreateSessionInv ==
  ASSUME Inv, NEW t \in Tabs, CreateSession(t)
  PROVE  Inv'
<1>1. TabOK(t) /\ pc[t] = "createSession" /\ UNCHANGED <<now, live, users, codes, left>>
  BY DEF CreateSession, Inv
<1>2. now' \in Nat /\ live' \in [Users -> Keys] /\ left' \subseteq Sessions BY <1>1 DEF Inv, TypeOK
<1>3. NoForm \in Page /\ FormOK(NoForm)' BY Constants DEF FormOK, NoForm
<1>4. NewSession(t) \in SessionRow
  BY <1>1, AuthorizeAssumption DEF TabOK, UserHeld, NewSession, SessionRow, Inv, TypeOK
<1>5. ASSUME NEW s \in Sessions \ minted, minted' = minted \cup {s},
             sessions' = [sessions EXCEPT ![s] = NewSession(t)],
             RespondWithCookie(t, s, NoForm) \/ Respond(t, NoForm)
      PROVE  Inv'
  <2>1. /\ sessions' \in [Sessions -> SessionRow \cup {NoSession}]
        /\ \A x \in Sessions \ {s} : sessions'[x] = sessions[x]
    BY <1>4, <1>5 DEF Inv, TypeOK
  <2>2. StoreTypes' BY <1>1, <1>5, <2>1 DEF StoreTypes, Inv, TypeOK
  <2>3. Stable BY <1>5, <2>1 DEF Stable, Inv, TypeOK
  <2>4. UNCHANGED cookie BY <1>5 DEF RespondWithCookie, Respond, browser
  <2>5. SessionsOK' BY <1>1, <1>5, <2>1, <2>4 DEF SessionsOK, Inv, TypeOK
  <2>6. s \in minted' \cup {None} BY <1>5
  <2> QED BY <1>2, <1>3, <1>5, <2>2, <2>3, <2>5, <2>6, RespondWithCookieInv, RespondInv
<1>6. CASE Respond(t, NoForm) /\ UNCHANGED <<sessions, minted>>
  <2>1. StoreTypes' /\ Stable BY <1>1, <1>6 DEF StoreTypes, Stable, Inv, TypeOK
  <2>2. SessionsOK' BY <1>1, <1>6 DEF SessionsOK, Respond, Inv
  <2> QED BY <1>2, <1>3, <1>6, <2>1, <2>2, RespondInv
<1> QED BY <1>5, <1>6 DEF CreateSession
-------------------------------------------------------------------------------
LEMMA NextInv == Inv /\ [Next]_vars => Inv'
<1> SUFFICES ASSUME Inv, [Next]_vars PROVE Inv'
  OBVIOUS
<1>1. CASE Tick BY <1>1, TickInv
<1>2. ASSUME NEW u \in Users, NEW k \in Keys, ReplaceKey(u, k) PROVE Inv'
  BY <1>2, ReplaceKeyInv
<1>3. ASSUME NEW t \in Tabs, Step(t) PROVE Inv'
  BY <1>3, AuthorizeGETInv, SwitchUserInv, AuthorizePOSTInv, GetSessionInv, GetUserInv,
     ValidateSavedInv, ValidateLoginInv, UpsertUserInv, CreateAuthCodeInv, CreateSessionInv, ArriveInv
     DEF Step
<1>4. CASE UNCHANGED vars
  <2>1. now' \in Nat /\ live' \in [Users -> Keys] BY <1>4 DEF vars, Inv, TypeOK
  <2> QED BY <1>4, <2>1, EnvironmentInv DEF vars
<1> QED BY <1>1, <1>2, <1>3, <1>4 DEF Next

LEMMA SpecInv == Spec => []Inv
  BY InitInv, NextInv, PTL DEF Spec
-------------------------------------------------------------------------------
(* What a step may do.                                                     *)

\* Only CreateAuthCode writes a code, and it is the step of its own tab.
LEMMA CodesChange ==
  ASSUME Inv, [Next]_vars, NEW c \in Codes, codes'[c] # codes[c]
  PROVE  \E t \in Tabs : CreateAuthCode(t)
  BY DEF Next, Step, vars, store, Tick, ReplaceKey, AuthorizeGET, SwitchUser, AuthorizePOST, Begin,
         GetSession, GetUser, ValidateSaved, ValidateLogin, UpsertUser, CreateSession, Arrive

LEMMA UsersChange ==
  ASSUME Inv, [Next]_vars, NEW u \in Users, users'[u] # users[u]
  PROVE  \E t \in Tabs : UpsertUser(t)
  BY DEF Next, Step, vars, store, Tick, ReplaceKey, AuthorizeGET, SwitchUser, AuthorizePOST, Begin,
         GetSession, GetUser, ValidateSaved, ValidateLogin, CreateAuthCode, CreateSession, Arrive

\* After an outcome the request is elsewhere, and the other requests are where they were.
LEMMA OutcomeMoves ==
  ASSUME Inv, NEW t \in Tabs, NEW step \in {"createCode", "createSession"}, pc[t] # step,
         Outcome(t, step) \/ ServerError(t), Active(t)
  PROVE  pc'[t] # pc[t] /\ \A w \in Tabs \ {t} : pc'[w] = pc[w]
<1>1. pc' = [pc EXCEPT ![t] = step] \/ pc' = [pc EXCEPT ![t] = "idle"]
  BY DEF Outcome, ServerError, Respond, EndHandler, Continue
<1>2. pc \in [Tabs -> Steps] /\ pc[t] # "idle" BY DEF Inv, TypeOK, Active
<1> QED BY <1>1, <1>2

LEMMA CreateMoves ==
  ASSUME Inv, NEW t \in Tabs, CreateAuthCode(t)
  PROVE  /\ pc[t] = "createCode" /\ pc'[t] # "createCode"
         /\ \A w \in Tabs \ {t} : pc'[w] = pc[w]
<1>1. pc[t] = "createCode" /\ (Outcome(t, "createSession") \/ ServerError(t)) BY DEF CreateAuthCode
<1> QED BY <1>1, OutcomeMoves DEF Active

\* What a code that a step stores consists of.
LEMMA StoredCode ==
  ASSUME Inv, NEW t \in Tabs, CreateAuthCode(t), NEW c \in Codes, codes'[c] # codes[c]
  PROVE  codes'[c] = ApprovedRow(t)
  BY DEF CreateAuthCode, Inv, TypeOK

LEMMA BeginsInForce ==
  ASSUME Inv, [Next]_vars, NEW t \in Tabs, pc[t] = "idle", pc'[t] \in {"validateLogin", "getSession"}
  PROVE  page[t] # NoForm /\ now <= page[t].issued + ConsentTTL
<1>1. \E p \in Params, l \in Login \cup {Blank} : AuthorizePOST(t, p, l)
  <2>1. \A w \in Tabs, step \in {"idle", "respond", "createCode", "createSession", "getUser",
                                  "validateSaved", "upsert"} :
          pc' # [pc EXCEPT ![w] = step] \/ w # t
    BY DEF Inv, TypeOK
  <2> QED
    BY <2>1 DEF Next, Step, vars, handlers, Tick, ReplaceKey, AuthorizeGET, SwitchUser, AuthorizePOST,
         Begin, GetSession, GetUser, ValidateSaved, ValidateLogin, UpsertUser, CreateAuthCode,
         CreateSession, Arrive, Respond, RespondWithCookie, EndHandler, Continue, Outcome, ServerError,
         NoUserFound, Refuse, Accept, Inv, TypeOK
<1>2. page[t] # NoForm /\ now - page[t].issued <= ConsentTTL
  BY <1>1 DEF AuthorizePOST, ConsentOK
<1>3. page[t].issued \in Nat /\ now \in Nat
  BY <1>2 DEF Inv, TypeOK, Page, Form
<1> QED BY <1>2, <1>3, AuthorizeAssumption

LEMMA ShownStep == Inv /\ [Next]_vars => OnlyAsShown
<1> SUFFICES ASSUME Inv, [Next]_vars PROVE OnlyAsShown
  OBVIOUS
<1>1. ASSUME NEW c \in Codes, codes'[c] # codes[c]
      PROVE  \E t \in Tabs : /\ Approves(t, c) /\ req[t].form # NoForm
                             /\ LET p == req[t].form.params IN
                                /\ codes'[c].client = p.client
                                /\ codes'[c].redirect = p.redirect
                                /\ codes'[c].challenge = p.challenge
                                /\ p.redirect \in Registered[p.client]
  <2>1. PICK t \in Tabs : CreateAuthCode(t) BY <1>1, CodesChange
  <2>2. Approves(t, c) BY <1>1, <2>1, CreateMoves DEF Approves
  <2>3. codes'[c] = ApprovedRow(t) BY <1>1, <2>1, StoredCode
  <2>4. /\ req[t].form # NoForm /\ req[t].params = req[t].form.params
        /\ ParamsOK(req[t].params)
    BY <2>1 DEF CreateAuthCode, Inv, TabOK, ConsentHeld, Active
  <2> QED BY <2>2, <2>3, <2>4 DEF ApprovedRow, ParamsOK
<1> QED BY <1>1, BeginsInForce DEF OnlyAsShown

LEMMA AcceptedStep == Inv /\ [Next]_vars => OnlyOnAcceptedKeys
<1> SUFFICES ASSUME Inv, [Next]_vars PROVE OnlyOnAcceptedKeys
  OBVIOUS
<1>1. ASSUME NEW t \in Tabs, NEW c \in Codes, Approves(t, c)
      PROVE  /\ got[t].proof # Blank
             /\ got[t].proof.user = codes'[c].user
             /\ req[t].kind = "login" => got[t].proof = req[t].login
  <2>1. PICK w \in Tabs : CreateAuthCode(w) BY <1>1, CodesChange DEF Approves
  <2>2. w = t BY <1>1, <2>1, CreateMoves DEF Approves
  <2>3. codes'[c] = ApprovedRow(t) BY <1>1, <2>1, <2>2, StoredCode DEF Approves
  <2>4. ProofHeld(t) /\ pc[t] = "createCode" BY <1>1 DEF Approves, Inv, TabOK
  <2> QED BY <2>3, <2>4, Constants DEF ProofHeld, ApprovedRow
<1>2. ASSUME NEW u \in Users, users'[u] # users[u]
      PROVE  \E t \in Tabs : /\ pc[t] = "upsert" /\ pc'[t] # "upsert"
                             /\ got[t].proof = [user |-> u, key |-> users'[u]]
  <2>1. PICK t \in Tabs : UpsertUser(t) BY <1>2, UsersChange
  <2>2. pc[t] = "upsert" /\ (Outcome(t, "createCode") \/ ServerError(t)) BY <2>1 DEF UpsertUser
  <2>3. pc'[t] # "upsert" BY <2>2, OutcomeMoves DEF Active
  <2>4. u = got[t].user /\ users'[u] = got[t].key BY <1>2, <2>1 DEF UpsertUser, Inv, TypeOK
  <2>5. ProofHeld(t) BY DEF Inv, TabOK
  <2> QED BY <2>2, <2>3, <2>4, <2>5 DEF ProofHeld
<1> QED BY <1>1, <1>2 DEF OnlyOnAcceptedKeys

\* Only GetSession gives a request a session.
LEMMA SessionIsFound ==
  ASSUME Inv, [Next]_vars, NEW t \in Tabs, got'[t].session # None, got[t].session = None
  PROVE  GetSession(t) /\ Found(req[t].cookie) /\ got'[t].session = req[t].cookie
<1>1. \A w \in Tabs : got' = [got EXCEPT ![w] = NoGot] => got'[t] = got[t] \/ got'[t].session = None
  BY DEF Inv, TypeOK, NoGot
<1>2. \A w \in Tabs : \A l, step : Accept(w, l, step) => got'[t].session = got[t].session
  BY DEF Accept, Inv, TypeOK
<1>3. \A w \in Tabs : got' = [got EXCEPT ![w] = [@ EXCEPT !.key = users[got[w].user]]]
                        => got'[t].session = got[t].session
  BY DEF Inv, TypeOK, Got
<1>4. \E w \in Tabs : GetSession(w)
  BY <1>1, <1>2, <1>3
     DEF Next, Step, vars, handlers, Tick, ReplaceKey, AuthorizeGET, SwitchUser, AuthorizePOST,
         Begin, GetUser, ValidateSaved, ValidateLogin, UpsertUser, CreateAuthCode,
         CreateSession, Arrive, Respond, RespondWithCookie, EndHandler, Outcome, ServerError,
         NoUserFound, Refuse
<1>5. PICK w \in Tabs : GetSession(w) BY <1>4
<1>6. ~NoUserFound(w) BY <1>1 DEF NoUserFound, Respond, EndHandler
<1>7. /\ Found(req[w].cookie)
      /\ got' = [got EXCEPT ![w] = [ user |-> sessions[req[w].cookie].user, key |-> None,
                                     session |-> req[w].cookie, proof |-> Blank ]]
  BY <1>5, <1>6 DEF GetSession
<1>8. w = t /\ got'[t].session = req[t].cookie BY <1>7 DEF Inv, TypeOK
<1> QED BY <1>5, <1>7, <1>8

LEMMA LeftStep == Inv /\ [Next]_vars => FindsNoneThatWasLeft
<1> SUFFICES ASSUME Inv, [Next]_vars, NEW t \in Tabs,
                    got'[t].session # None, got[t].session = None
             PROVE  got'[t].session \notin left
  BY DEF FindsNoneThatWasLeft
<1>1. Found(req[t].cookie) /\ got'[t].session = req[t].cookie BY SessionIsFound
<1> QED BY <1>1 DEF Found, Inv, SessionsOK

LEMMA ShownHeld ==
  ASSUME Inv
  PROVE  ContinuesAsShown
  BY DEF Inv, TabOK, SessionHeld, ContinuesAsShown
-------------------------------------------------------------------------------
(* The codes are those of OAuthTokens.                                     *)

LEMMA GrantsInit == Init => Grants!Init
  BY DEF Init, Grants!Init, Grants!NoCodeRow, NoCode, Nothing

LEMMA GrantsStep == Inv /\ [Next]_vars => [Grants!Next]_(Grants!vars)
<1> SUFFICES ASSUME Inv, [Next]_vars PROVE [Grants!Next]_(Grants!vars)
  OBVIOUS
<1> USE DEF Grants!vars, Grants!store, Grants!handlers, Grants!history
<1>1. CASE Tick BY <1>1 DEF Tick, store, Grants!Tick, Grants!Next
<1>2. CASE UNCHANGED <<now, codes>> BY <1>2
<1>3. ASSUME NEW t \in Tabs, CreateAuthCode(t) PROVE [Grants!Next]_(Grants!vars)
  <2>1. CASE UNCHANGED codes BY <1>3, <2>1 DEF CreateAuthCode
  <2>2. ASSUME NEW c \in Codes, ~IsCode(c), codes' = [codes EXCEPT ![c] = ApprovedRow(t)]
        PROVE  [Grants!Next]_(Grants!vars)
    <3>1. UNCHANGED now BY <1>3 DEF CreateAuthCode
    <3>2. pc[t] = "createCode" BY <1>3 DEF CreateAuthCode
    <3>3. req[t].params \in Params BY <3>2 DEF Inv, TypeOK, Request
    <3>4. got[t].user \in Users BY <3>2 DEF Inv, TabOK, UserHeld
    <3>5. Grants!CreateAuthCode(c)
      BY <2>2, <3>1, <3>3, <3>4 DEF Grants!CreateAuthCode, Grants!IsCode, IsCode, ApprovedRow, Params
    <3> QED BY <3>5 DEF Grants!Next
  <2> QED BY <1>3, <2>1, <2>2 DEF CreateAuthCode
<1>4. Tick \/ UNCHANGED <<now, codes>> \/ \E t \in Tabs : CreateAuthCode(t)
  BY DEF Next, Step, vars, store, ReplaceKey, AuthorizeGET, SwitchUser, AuthorizePOST, Begin,
         GetSession, GetUser, ValidateSaved, ValidateLogin, UpsertUser, CreateSession, Arrive
<1> QED BY <1>1, <1>2, <1>3, <1>4
-------------------------------------------------------------------------------
(* The theorems.                                                           *)

\* Type correctness: in particular a row of oauth_codes is always that of a client,
\* a user, a redirect URI and a challenge.
THEOREM TypeCorrect == Spec => []TypeOK
  BY SpecInv, PTL DEF Inv

\* authorize.go, consent.go: a code carries the client, the redirect URI and the challenge
\* of a form whose consent is in force; it says nothing of the user.
THEOREM ApprovalsAsShown == Spec => ApprovedAsShown
  BY SpecInv, ShownStep, PTL DEF Spec, ApprovedAsShown

\* authorize.go: no code, and no stored key, without a key Organizze accepted.
THEOREM ApprovalsRestOnKeys == Spec => RestsOnAcceptedKeys
  BY SpecInv, AcceptedStep, PTL DEF Spec, RestsOnAcceptedKeys

\* session.go: a session that was left is never found again.
THEOREM SwitchesAreFinal == Spec => SwitchIsFinal
  BY SpecInv, LeftStep, PTL DEF Spec, SwitchIsFinal

\* authorize.go: who continues is who the form showed, while the session is the same.
THEOREM ContinuedAsShown == Spec => []ContinuesAsShown
  BY SpecInv, ShownHeld, PTL

\* The endpoint implements the environment that OAuthTokens assumes.
THEOREM CodesForTokenEndpoint == Spec => FeedsTokenEndpoint
  BY SpecInv, GrantsInit, GrantsStep, PTL DEF Spec, FeedsTokenEndpoint, Grants!Spec
===============================================================================
