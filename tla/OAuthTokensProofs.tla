--------------------------- MODULE OAuthTokensProofs --------------------------
(***************************************************************************)
(* Theorems about OAuthTokens for every value of its constants: any number *)
(* of requests, codes, tokens, clients and users.                          *)
(***************************************************************************)
EXTENDS OAuthTokens, TLAPS

LEMMA DrawnIsUnused == ASSUME Unused # {} PROVE Drawn \in TokenIds /\ Drawn \in Unused
  BY DEF Drawn, Unused

LEMMA AuthenticatedAreClients == AuthenticatedClients \subseteq Clients
  BY DEF AuthenticatedClients, AuthenticateClient, InvalidClient

LEMMA NoneIsNoKey == None \notin Codes /\ None \notin TokenIds
  BY TokensAssumption
-------------------------------------------------------------------------------
(* Type correctness.                                                       *)

LEMMA RowTypes ==
  ASSUME TypeOK, NEW r \in Requests
  PROVE  RefreshRow(mint[r]) \in TokenRow /\ AccessRow(mint[r]) \in TokenRow
  BY TokensAssumption DEF TypeOK, HandlersTypeOK, RefreshRow, AccessRow, TokenRow, Mint

LEMMA FinishType ==
  ASSUME TypeOK, NEW r \in Requests, Finish(r)
  PROVE  HandlersTypeOK'
  BY DEF TypeOK, HandlersTypeOK, Finish, Steps, Idle, NoMint, Request, Mint

LEMMA ContinueType ==
  ASSUME TypeOK, NEW r \in Requests, NEW step \in Steps \ {"insertAccess"},
         Continue(r, step)
  PROVE  HandlersTypeOK'
  BY DEF TypeOK, HandlersTypeOK, Continue

LEMMA StartMintType ==
  ASSUME TypeOK, NEW r \in Requests, NEW user \in Users \cup {None},
         NEW code \in Codes \cup {None}, NEW grant \in Codes \cup {None},
         StartMint(r, user, code, grant)
  PROVE  HandlersTypeOK'
  BY DEF TypeOK, HandlersTypeOK, StartMint, Steps, Request, Mint

LEMMA BeginType ==
  ASSUME TypeOK, NEW r \in Requests, NEW step \in Steps \ {"insertAccess"}, NEW q \in Request,
         Begin(r, step, q)
  PROVE  TypeOK'
  BY DEF TypeOK, HandlersTypeOK, Begin, store, history

LEMMA HandleType == ASSUME TypeOK, NEW r \in Requests, Handle(r) PROVE TypeOK'
<1> USE DEF store, history
<1>k. req[r].key \in Codes \cup TokenIds \cup {None}
  BY DEF TypeOK, HandlersTypeOK, Request
<1>1. CASE BeginCodeGrant(r)
  <2>1. PICK client \in AuthenticatedClients, c \in {x \in Codes : IsCode(x)} \cup {None},
             uri \in Redirects, v \in Verifiers :
           Begin(r, "consume", [client |-> client, key |-> c, redirect |-> uri, verifier |-> v])
    BY <1>1 DEF BeginCodeGrant
  <2>2. [client |-> client, key |-> c, redirect |-> uri, verifier |-> v] \in Request
    BY AuthenticatedAreClients DEF Request
  <2> QED BY <2>1, <2>2, BeginType DEF Steps
<1>2. CASE ConsumeAuthCode(r)
  <2>1. req[r].key \in Codes /\ codes[req[r].key].user \in Users \cup {None}
    BY <1>2 DEF ConsumeAuthCode, Consumable, IsCode, TypeOK, CodeRow
  <2>2. HandlersTypeOK'
    BY <1>2, <2>1, FinishType, StartMintType DEF ConsumeAuthCode
  <2> QED BY <1>2, <2>1, <2>2 DEF ConsumeAuthCode, TypeOK
<1>3. CASE ConsumeFindsNothing(r)
  BY <1>3, ContinueType DEF ConsumeFindsNothing, TypeOK, Steps
<1>4. CASE RevokeFamilyByCode(r)
  <2>1. revoked' \subseteq TokenIds
    BY <1>4 DEF RevokeFamilyByCode, RowsOfCode, TypeOK
  <2>2. replayed' \in [Codes -> {"never", "inFlight", "settled"}]
    BY <1>4 DEF RevokeFamilyByCode, TypeOK
  <2> QED BY <1>4, <2>1, <2>2, FinishType DEF RevokeFamilyByCode, TypeOK
<1>5. CASE BeginRefreshGrant(r)
  <2>1. PICK client \in AuthenticatedClients, t \in delivered \cup {None} :
           Begin(r, "preRead",
                 [client |-> client, key |-> t, redirect |-> None, verifier |-> None])
    BY <1>5 DEF BeginRefreshGrant
  <2>2. [client |-> client, key |-> t, redirect |-> None, verifier |-> None] \in Request
    BY AuthenticatedAreClients DEF Request, TypeOK
  <2> QED BY <2>1, <2>2, BeginType DEF Steps
<1>6. CASE PreRead(r)
  BY <1>6, ContinueType DEF PreRead, TypeOK, Steps
<1>7. CASE RotateRefreshToken(r)
  <2>1. /\ req[r].key \in TokenIds /\ tokens[req[r].key].user \in Users \cup {None}
        /\ tokens[req[r].key].grant \in Codes \cup {None}
    BY <1>7 DEF RotateRefreshToken, Rotatable, IsKind, TypeOK, TokenRow
  <2>2. HandlersTypeOK'
    <3>1. CASE StartMint(r, tokens[req[r].key].user, None, tokens[req[r].key].grant)
      BY <3>1, <2>1, StartMintType
    <3>2. CASE Continue(r, "revokeFamily")
      BY <3>2, ContinueType DEF Steps
    <3> QED BY <1>7, <3>1, <3>2 DEF RotateRefreshToken
  <2> QED BY <1>7, <2>1, <2>2 DEF RotateRefreshToken, TypeOK
<1>8. CASE RotateFindsNothing(r)
  BY <1>8, FinishType DEF RotateFindsNothing, TypeOK
<1>9. CASE RevokeFamilyOnReuse(r)
  BY <1>9, FinishType DEF RevokeFamilyOnReuse, RevokeRefreshFamily, Family, TypeOK
<1>10. CASE InsertRefresh(r)
  <2>1. tokens' \in [TokenIds -> TokenRow]
    BY <1>10, RowTypes, DrawnIsUnused DEF InsertRefresh, TypeOK
  <2>2. [mint[r] EXCEPT !.refresh = Drawn, !.at = now] \in Mint
    BY <1>10, DrawnIsUnused DEF InsertRefresh, TypeOK, HandlersTypeOK, Mint
  <2>3. Drawn # None
    BY <1>10, DrawnIsUnused, NoneIsNoKey DEF InsertRefresh
  <2>4. HandlersTypeOK'
    BY <1>10, <2>2, <2>3 DEF InsertRefresh, TypeOK, HandlersTypeOK, Steps, Mint
  <2> QED BY <1>10, <2>1, <2>4 DEF InsertRefresh, TypeOK
<1>11. CASE InsertAccess(r)
  <2>1. tokens' \in [TokenIds -> TokenRow]
    BY <1>11, RowTypes, DrawnIsUnused DEF InsertAccess, TypeOK
  <2>2. mint[r].refresh \in TokenIds
    BY <1>11 DEF InsertAccess, TypeOK, HandlersTypeOK, Mint
  <2> QED BY <1>11, <2>1, <2>2, DrawnIsUnused, FinishType DEF InsertAccess, TypeOK
<1>12. CASE BeginLogout(r)
  <2>1. PICK t \in delivered \cup {None} : Begin(r, "logoutFamily", [Idle EXCEPT !.key = t])
    BY <1>12 DEF BeginLogout
  <2>2. [Idle EXCEPT !.key = t] \in Request
    BY DEF Request, Idle, TypeOK
  <2> QED BY <2>1, <2>2, BeginType DEF Steps
<1>13. CASE LogoutFamily(r)
  BY <1>13, ContinueType DEF LogoutFamily, RevokeRefreshFamily, Family, TypeOK, Steps
<1>14. CASE LogoutToken(r)
  BY <1>14, FinishType DEF LogoutToken, TypeOK
<1>15. CASE StatementFails(r)
  BY <1>15, FinishType, ContinueType DEF StatementFails, TypeOK, Steps
<1>16. CASE ConsumeUnanswered(r)
  BY <1>16, FinishType DEF ConsumeUnanswered, Consumable, IsCode, TypeOK
<1>17. CASE RotateUnanswered(r)
  BY <1>17, FinishType DEF RotateUnanswered, Rotatable, IsKind, TypeOK
<1>18. CASE InsertUnanswered(r)
  <2>1. tokens' \in [TokenIds -> TokenRow]
    BY <1>18, RowTypes, DrawnIsUnused DEF InsertUnanswered, TypeOK
  <2> QED BY <1>18, <2>1, FinishType DEF InsertUnanswered, TypeOK
<1> QED
  BY <1>1, <1>2, <1>3, <1>4, <1>5, <1>6, <1>7, <1>8, <1>9, <1>10, <1>11, <1>12, <1>13,
     <1>14, <1>15, <1>16, <1>17, <1>18 DEF Handle
-------------------------------------------------------------------------------
(* The inductive invariants.                                               *)

Minting(r) == pc[r] \in {"insertRefresh", "insertAccess"}

\* The right of an approval is in one place: an unconsumed code has neither rows
\* nor requests issuing tokens; a request about to insert a refresh token is
\* alone, and no refresh token of its approval is live.
GrantInv ==
    /\ \A c \in consumed : IsCode(c)
    /\ BoundToGrant
    /\ \A r \in Requests : Minting(r) =>
          /\ mint[r].grant \in consumed
          /\ mint[r].client = codes[mint[r].grant].client
          /\ mint[r].user = codes[mint[r].grant].user
    /\ \A r, s \in Requests :
          pc[r] = "insertRefresh" /\ pc[s] = "insertRefresh"
          /\ mint[r].grant = mint[s].grant => r = s
    /\ \A r \in Requests, t \in TokenIds :
          pc[r] = "insertRefresh" /\ LiveRefresh(t) => mint[r].grant # tokens[t].grant
    /\ OneLiveRefreshPerGrant

\* The rows under a code's hash: a request still issuing them is alone, and what
\* it is about to insert is not there yet.
CodeInv ==
    /\ \A t \in TokenIds : tokens[t].code # None =>
          tokens[t].kind # "none" /\ tokens[t].code = tokens[t].grant
    /\ \A r \in Requests : Minting(r) /\ mint[r].code # None => mint[r].code = mint[r].grant
    /\ \A r, s \in Requests :
          Minting(r) /\ Minting(s) /\ mint[r].code # None /\ mint[r].code = mint[s].code
          => r = s
    /\ \A r \in Requests, t \in TokenIds :
          Minting(r) /\ mint[r].code # None /\ tokens[t].code = mint[r].code
          => pc[r] = "insertAccess" /\ tokens[t].kind = "refresh"
    /\ CodeSpentOnce

\* The pair being inserted: its refresh row exists, has no access row yet and was
\* shown to nobody, so nobody can revoke the family before it is complete.
FamilyInv ==
    /\ FamilyShape
    /\ \A t \in delivered : tokens[t].kind # "none"
    /\ \A t \in TokenIds : tokens[t].refreshFor # None => tokens[t].kind = "access"
    /\ \A r \in Requests : pc[r] = "insertAccess" =>
          /\ IsKind(mint[r].refresh, "refresh")
          /\ mint[r].refresh \notin delivered
          /\ tokens[mint[r].refresh].client = mint[r].client
          /\ tokens[mint[r].refresh].user = mint[r].user
          /\ tokens[mint[r].refresh].code = mint[r].code
          /\ \A t \in TokenIds : tokens[t].refreshFor # mint[r].refresh
    /\ \A r, s \in Requests :
          pc[r] = "insertAccess" /\ pc[s] = "insertAccess"
          /\ mint[r].refresh = mint[s].refresh => r = s

\* Only tokens that clients hold are presented and killed.
KeysInv ==
    \A r \in Requests :
        pc[r] \in {"preRead", "rotate", "revokeFamily", "logoutFamily", "logoutToken"}
        => req[r].key \in delivered \cup {None}

KilledInv == killed \subseteq delivered /\ KilledFamilyStaysDead

\* A settled code is consumed, nobody is issuing tokens under it any more, and
\* what was issued is revoked.
ReplayInv ==
    \A c \in Codes : replayed[c] = "settled" =>
        /\ c \in consumed
        /\ \A r \in Requests : Minting(r) => mint[r].code # c
        /\ \A t \in TokenIds : tokens[t].code = c => t \in revoked
-------------------------------------------------------------------------------
(* Most steps neither insert a row nor start issuing tokens: they end a    *)
(* request, move it on, consume a code or revoke rows.                     *)

MintsOnlyEnd ==
    \A r \in Requests : Minting(r)' => pc'[r] = pc[r] /\ mint'[r] = mint[r]

CalmStep ==
    /\ UNCHANGED <<codes, tokens>>
    /\ consumed \subseteq consumed'
    /\ \A c \in consumed' : IsCode(c)
    /\ revoked \subseteq revoked'
    /\ MintsOnlyEnd

StartsExchange(r) ==
    ConsumeAuthCode(r) /\ StartMint(r, codes[req[r].key].user, req[r].key, req[r].key)

StartsRotation(r) ==
    /\ RotateRefreshToken(r)
    /\ SameClient(req[r], tokens[req[r].key])
    /\ StartMint(r, tokens[req[r].key].user, None, tokens[req[r].key].grant)

LEMMA FinishEndsMint ==
  ASSUME TypeOK, NEW r \in Requests, Finish(r) PROVE MintsOnlyEnd
  BY DEF TypeOK, HandlersTypeOK, Finish, Minting, MintsOnlyEnd

LEMMA ContinueStartsNoMint ==
  ASSUME TypeOK, NEW r \in Requests,
         NEW step \in Steps \ {"insertRefresh", "insertAccess"}, Continue(r, step)
  PROVE  MintsOnlyEnd
  BY DEF TypeOK, HandlersTypeOK, Continue, Minting, MintsOnlyEnd

LEMMA BeginStartsNoMint ==
  ASSUME TypeOK, NEW r \in Requests,
         NEW step \in Steps \ {"insertRefresh", "insertAccess"}, NEW q, Begin(r, step, q)
  PROVE  MintsOnlyEnd
  BY DEF TypeOK, HandlersTypeOK, Begin, Minting, MintsOnlyEnd

LEMMA CalmOrMinting ==
  ASSUME TypeOK, GrantInv, NEW r \in Requests, Handle(r)
  PROVE  \/ CalmStep
         \/ StartsExchange(r) \/ StartsRotation(r)
         \/ InsertRefresh(r) \/ InsertAccess(r) \/ InsertUnanswered(r)
<1> USE DEF CalmStep, store, history
<1>a. \A c \in consumed : IsCode(c)
  BY DEF GrantInv
<1>f. Finish(r) => MintsOnlyEnd
  BY FinishEndsMint
<1>c. \A step \in Steps \ {"insertRefresh", "insertAccess"} :
         Continue(r, step) => MintsOnlyEnd
  BY ContinueStartsNoMint
<1>1. CASE BeginCodeGrant(r) \/ BeginRefreshGrant(r) \/ BeginLogout(r)
  <2>1. PICK step \in Steps \ {"insertRefresh", "insertAccess"}, q \in {req'[r]} :
           Begin(r, step, q)
    BY <1>1 DEF BeginCodeGrant, BeginRefreshGrant, BeginLogout, Begin, Steps, TypeOK,
       HandlersTypeOK
  <2> QED BY <2>1, <1>a, BeginStartsNoMint DEF Begin
<1>2. CASE ConsumeAuthCode(r)
  <2>1. CASE StartMint(r, codes[req[r].key].user, req[r].key, req[r].key)
    BY <1>2, <2>1 DEF StartsExchange
  <2>2. CASE Finish(r)
    BY <1>2, <2>2, <1>a, <1>f DEF ConsumeAuthCode, Consumable
  <2> QED BY <1>2, <2>1, <2>2 DEF ConsumeAuthCode
<1>3. CASE ConsumeFindsNothing(r) \/ PreRead(r) \/ RotateFindsNothing(r) \/ StatementFails(r)
  <2>1. MintsOnlyEnd
    BY <1>3, <1>f, <1>c DEF ConsumeFindsNothing, PreRead, RotateFindsNothing,
       StatementFails, Steps
  <2> QED BY <1>3, <2>1, <1>a DEF ConsumeFindsNothing, PreRead, RotateFindsNothing,
             StatementFails
<1>4. CASE RevokeFamilyByCode(r) \/ RevokeFamilyOnReuse(r) \/ LogoutFamily(r) \/ LogoutToken(r)
  <2>1. MintsOnlyEnd
    BY <1>4, <1>f, <1>c DEF RevokeFamilyByCode, RevokeFamilyOnReuse, LogoutFamily,
       LogoutToken, Steps
  <2> QED BY <1>4, <2>1, <1>a DEF RevokeFamilyByCode, RevokeFamilyOnReuse, LogoutFamily,
             LogoutToken, RevokeRefreshFamily
<1>5. CASE RotateRefreshToken(r)
  <2>1. CASE StartMint(r, tokens[req[r].key].user, None, tokens[req[r].key].grant)
             /\ SameClient(req[r], tokens[req[r].key])
    BY <1>5, <2>1 DEF StartsRotation
  <2>2. CASE Continue(r, "revokeFamily")
    BY <1>5, <2>2, <1>a, <1>c DEF RotateRefreshToken, Steps
  <2> QED BY <1>5, <2>1, <2>2 DEF RotateRefreshToken
<1>6. CASE ConsumeUnanswered(r) \/ RotateUnanswered(r)
  BY <1>6, <1>a, <1>f DEF ConsumeUnanswered, RotateUnanswered, Consumable
<1> QED
  BY <1>1, <1>2, <1>3, <1>4, <1>5, <1>6 DEF Handle
-------------------------------------------------------------------------------
(* One refresh token per approval, bound to its client and user.           *)

LEMMA CalmGrant == ASSUME TypeOK, GrantInv, CalmStep PROVE GrantInv'
<1> USE DEF CalmStep, MintsOnlyEnd, TypeOK
<1>1. (\A c \in consumed : IsCode(c))'
  BY DEF IsCode
<1>2. BoundToGrant'
  BY DEF GrantInv, BoundToGrant
<1>3. (\A r \in Requests : Minting(r) =>
          /\ mint[r].grant \in consumed
          /\ mint[r].client = codes[mint[r].grant].client
          /\ mint[r].user = codes[mint[r].grant].user)'
  BY DEF GrantInv, Minting
<1>4. (\A r, s \in Requests :
          pc[r] = "insertRefresh" /\ pc[s] = "insertRefresh"
          /\ mint[r].grant = mint[s].grant => r = s)'
  BY DEF GrantInv, Minting
<1>5. (\A r \in Requests, t \in TokenIds :
          pc[r] = "insertRefresh" /\ LiveRefresh(t) => mint[r].grant # tokens[t].grant)'
  BY DEF GrantInv, Minting, LiveRefresh
<1>6. OneLiveRefreshPerGrant'
  BY DEF GrantInv, OneLiveRefreshPerGrant, LiveRefresh
<1> QED BY <1>1, <1>2, <1>3, <1>4, <1>5, <1>6 DEF GrantInv

\* What a request that starts to issue tokens does to the others.
LEMMA StartMintEffect ==
  ASSUME TypeOK, NEW r \in Requests, NEW user, NEW code, NEW grant,
         StartMint(r, user, code, grant)
  PROVE  /\ pc'[r] = "insertRefresh"
         /\ mint'[r].client = req[r].client /\ mint'[r].user = user
         /\ mint'[r].code = code /\ mint'[r].grant = grant
         /\ \A s \in Requests \ {r} : pc'[s] = pc[s] /\ mint'[s] = mint[s]
  BY DEF StartMint, TypeOK, HandlersTypeOK

LEMMA ExchangeGrant ==
  ASSUME TypeOK, GrantInv, NEW r \in Requests, StartsExchange(r) PROVE GrantInv'
<1> DEFINE c == req[r].key
<1>1. /\ c \in Codes /\ IsCode(c) /\ c \notin consumed /\ consumed' = consumed \cup {c}
      /\ codes[c].client = req[r].client
      /\ UNCHANGED <<codes, tokens, revoked>>
  <2>1. MatchesRow(req[r], codes[c])
    BY DEF StartsExchange, ConsumeAuthCode, StartMint, Finish, TypeOK, HandlersTypeOK
  <2> QED BY <2>1 DEF StartsExchange, ConsumeAuthCode, Consumable, IsCode, MatchesRow
<1>2. /\ pc'[r] = "insertRefresh" /\ mint'[r].client = req[r].client
      /\ mint'[r].user = codes[c].user /\ mint'[r].grant = c
      /\ \A s \in Requests \ {r} : pc'[s] = pc[s] /\ mint'[s] = mint[s]
  BY StartMintEffect DEF StartsExchange
<1>3. /\ \A t \in TokenIds : tokens[t].kind # "none" => tokens[t].grant # c
      /\ \A s \in Requests : Minting(s) => mint[s].grant # c
  BY <1>1 DEF GrantInv, BoundToGrant
<1> HIDE DEF c
<1>4. (\A d \in consumed : IsCode(d))'
  BY <1>1 DEF GrantInv, IsCode
<1>5. BoundToGrant'
  BY <1>1 DEF GrantInv, BoundToGrant
<1>6. (\A s \in Requests : Minting(s) =>
          /\ mint[s].grant \in consumed
          /\ mint[s].client = codes[mint[s].grant].client
          /\ mint[s].user = codes[mint[s].grant].user)'
  BY <1>1, <1>2 DEF GrantInv, Minting
<1>7. (\A q, s \in Requests :
          pc[q] = "insertRefresh" /\ pc[s] = "insertRefresh"
          /\ mint[q].grant = mint[s].grant => q = s)'
  BY <1>2, <1>3 DEF GrantInv, Minting
<1>8. (\A s \in Requests, t \in TokenIds :
          pc[s] = "insertRefresh" /\ LiveRefresh(t) => mint[s].grant # tokens[t].grant)'
  BY <1>1, <1>2, <1>3 DEF GrantInv, Minting, LiveRefresh
<1>9. OneLiveRefreshPerGrant'
  BY <1>1 DEF GrantInv, OneLiveRefreshPerGrant, LiveRefresh
<1> QED BY <1>4, <1>5, <1>6, <1>7, <1>8, <1>9 DEF GrantInv

LEMMA RotationGrant ==
  ASSUME TypeOK, GrantInv, NEW r \in Requests, StartsRotation(r) PROVE GrantInv'
<1> DEFINE k == req[r].key
<1>1. /\ k \in TokenIds /\ tokens[k].kind = "refresh" /\ k \notin revoked
      /\ tokens[k].client = req[r].client
      /\ revoked' = revoked \cup {k}
      /\ UNCHANGED <<codes, consumed, tokens>>
  BY DEF StartsRotation, RotateRefreshToken, Rotatable, IsKind, SameClient
<1>2. /\ pc'[r] = "insertRefresh" /\ mint'[r].client = req[r].client
      /\ mint'[r].user = tokens[k].user /\ mint'[r].grant = tokens[k].grant
      /\ \A s \in Requests \ {r} : pc'[s] = pc[s] /\ mint'[s] = mint[s]
  BY StartMintEffect DEF StartsRotation
<1> HIDE DEF k
<1>3. LiveRefresh(k)
  BY <1>1 DEF LiveRefresh
<1>4. (\A d \in consumed : IsCode(d))'
  BY <1>1 DEF GrantInv, IsCode
<1>5. BoundToGrant'
  BY <1>1 DEF GrantInv, BoundToGrant
<1>6. (\A s \in Requests : Minting(s) =>
          /\ mint[s].grant \in consumed
          /\ mint[s].client = codes[mint[s].grant].client
          /\ mint[s].user = codes[mint[s].grant].user)'
  BY <1>1, <1>2 DEF GrantInv, BoundToGrant, Minting
<1>7. (\A q, s \in Requests :
          pc[q] = "insertRefresh" /\ pc[s] = "insertRefresh"
          /\ mint[q].grant = mint[s].grant => q = s)'
  BY <1>1, <1>2, <1>3 DEF GrantInv
<1>8. (\A s \in Requests, t \in TokenIds :
          pc[s] = "insertRefresh" /\ LiveRefresh(t) => mint[s].grant # tokens[t].grant)'
  BY <1>1, <1>2, <1>3 DEF GrantInv, OneLiveRefreshPerGrant, LiveRefresh
<1>9. OneLiveRefreshPerGrant'
  BY <1>1 DEF GrantInv, OneLiveRefreshPerGrant, LiveRefresh
<1> QED BY <1>4, <1>5, <1>6, <1>7, <1>8, <1>9 DEF GrantInv

\* What the insert of a row does, whether it is the refresh or the access row and
\* whether the handler gets the answer.
InsertsRow(r, t, row) ==
    /\ pc[r] = IF row.kind = "refresh" THEN "insertRefresh" ELSE "insertAccess"
    /\ t \in Unused
    /\ row \in {RefreshRow(mint[r]), AccessRow(mint[r])}
    /\ tokens' = [tokens EXCEPT ![t] = row]
    /\ UNCHANGED <<codes, consumed, revoked>>
    /\ \A s \in Requests \ {r} : pc'[s] = pc[s] /\ mint'[s] = mint[s]
    /\ pc'[r] # "insertRefresh"
    /\ Minting(r)' => /\ mint'[r] = [mint[r] EXCEPT !.refresh = t, !.at = now]
                      /\ row = RefreshRow(mint[r])

LEMMA InsertEffect ==
  ASSUME TypeOK, NEW r \in Requests,
         InsertRefresh(r) \/ InsertAccess(r) \/ InsertUnanswered(r)
  PROVE  \E row \in TokenRow : InsertsRow(r, Drawn, row)
<1> USE RowTypes, DrawnIsUnused DEF InsertsRow, TypeOK, HandlersTypeOK, Minting
<1>1. CASE InsertRefresh(r)
  BY <1>1 DEF InsertRefresh, RefreshRow
<1>2. CASE InsertAccess(r)
  BY <1>2 DEF InsertAccess, AccessRow, Finish
<1>3. CASE InsertUnanswered(r)
  <2>1. CASE pc[r] = "insertRefresh"
    BY <1>3, <2>1 DEF InsertUnanswered, RefreshRow, Finish
  <2>2. CASE pc[r] = "insertAccess"
    BY <1>3, <2>2 DEF InsertUnanswered, AccessRow, Finish
  <2> QED BY <1>3, <2>1, <2>2 DEF InsertUnanswered
<1> QED BY <1>1, <1>2, <1>3

LEMMA InsertGrant ==
  ASSUME TypeOK, GrantInv, NEW r \in Requests, NEW x \in TokenIds, NEW row \in TokenRow,
         InsertsRow(r, x, row)
  PROVE  GrantInv'
<1>1. /\ row.client = mint[r].client /\ row.user = mint[r].user
      /\ row.grant = mint[r].grant /\ row.kind \in {"access", "refresh"}
      /\ Minting(r)
  BY DEF InsertsRow, RefreshRow, AccessRow, Minting
<1>2. /\ tokens'[x] = row /\ \A t \in TokenIds \ {x} : tokens'[t] = tokens[t]
      /\ UNCHANGED <<codes, consumed, revoked>>
  BY DEF InsertsRow, TypeOK
<1>3. /\ \A s \in Requests \ {r} : pc'[s] = pc[s] /\ mint'[s] = mint[s]
      /\ pc'[r] # "insertRefresh"
      /\ Minting(r)' => /\ mint'[r].client = mint[r].client /\ mint'[r].user = mint[r].user
                        /\ mint'[r].grant = mint[r].grant
  BY DEF InsertsRow, TypeOK, HandlersTypeOK, Mint
<1>4. (\A d \in consumed : IsCode(d))'
  BY <1>2 DEF GrantInv, IsCode
<1>5. BoundToGrant'
  BY <1>1, <1>2 DEF GrantInv, BoundToGrant
<1>6. (\A s \in Requests : Minting(s) =>
          /\ mint[s].grant \in consumed
          /\ mint[s].client = codes[mint[s].grant].client
          /\ mint[s].user = codes[mint[s].grant].user)'
  BY <1>1, <1>2, <1>3 DEF GrantInv, Minting
<1>7. (\A q, s \in Requests :
          pc[q] = "insertRefresh" /\ pc[s] = "insertRefresh"
          /\ mint[q].grant = mint[s].grant => q = s)'
  BY <1>3 DEF GrantInv
<1>8. ASSUME row.kind = "refresh" PROVE pc[r] = "insertRefresh"
  BY <1>8 DEF InsertsRow
<1>9. (\A s \in Requests, t \in TokenIds :
          pc[s] = "insertRefresh" /\ LiveRefresh(t) => mint[s].grant # tokens[t].grant)'
  BY <1>1, <1>2, <1>3, <1>8 DEF GrantInv, LiveRefresh
<1>10. OneLiveRefreshPerGrant'
  BY <1>1, <1>2, <1>8 DEF GrantInv, OneLiveRefreshPerGrant, LiveRefresh
<1> QED BY <1>4, <1>5, <1>6, <1>7, <1>9, <1>10 DEF GrantInv

LEMMA TickType == ASSUME TypeOK, Tick PROVE TypeOK'
  BY DEF TypeOK, HandlersTypeOK, Tick, store, handlers, history

LEMMA CreateType == ASSUME TypeOK, NEW c \in Codes, CreateAuthCode(c) PROVE TypeOK'
<1>1. codes' \in [Codes -> CodeRow]
  BY TokensAssumption DEF CreateAuthCode, TypeOK, CodeRow
<1> QED BY <1>1 DEF CreateAuthCode, TypeOK, HandlersTypeOK, handlers, history

\* A new code disturbs no row and no request: they belong to consumed codes.
LEMMA CreateGrant ==
  ASSUME TypeOK, GrantInv, NEW c \in Codes, CreateAuthCode(c) PROVE GrantInv'
<1>1. c \notin consumed /\ \A d \in Codes \ {c} : codes'[d] = codes[d]
  BY DEF CreateAuthCode, GrantInv, TypeOK
<1>2. UNCHANGED <<consumed, tokens, revoked, pc, req, mint>>
  BY DEF CreateAuthCode, handlers
<1>3. \A d \in consumed : d \in Codes /\ codes'[d] = codes[d]
  BY <1>1 DEF TypeOK
<1> QED
  BY <1>2, <1>3 DEF GrantInv, BoundToGrant, OneLiveRefreshPerGrant, LiveRefresh,
     IsCode, Minting

LEMMA TickCalm == ASSUME TypeOK, GrantInv, Tick PROVE CalmStep
  BY DEF Tick, CalmStep, MintsOnlyEnd, GrantInv, store, handlers

Inv1 == TypeOK /\ GrantInv

LEMMA InitInv1 == Init => Inv1
<1> SUFFICES ASSUME Init PROVE Inv1
  OBVIOUS
<1>1. TypeOK
  BY DEF Init, TypeOK, HandlersTypeOK, CodeRow, TokenRow, Request, Mint, Steps,
     NoCodeRow, NoTokenRow, Idle, NoMint
<1>2. GrantInv
  BY DEF Init, GrantInv, BoundToGrant, OneLiveRefreshPerGrant, LiveRefresh, Minting, NoTokenRow
<1> QED BY <1>1, <1>2 DEF Inv1

LEMMA NextInv1 == Inv1 /\ [Next]_vars => Inv1'
<1> SUFFICES ASSUME Inv1, [Next]_vars PROVE Inv1'
  OBVIOUS
<1> USE DEF Inv1
<1>1. CASE Tick
  BY <1>1, TickType, TickCalm, CalmGrant
<1>2. ASSUME NEW c \in Codes, CreateAuthCode(c) PROVE Inv1'
  BY <1>2, CreateType, CreateGrant
<1>3. ASSUME NEW r \in Requests, Handle(r) PROVE Inv1'
  <2>1. TypeOK'
    BY <1>3, HandleType
  <2>2. CASE CalmStep
    BY <2>1, <2>2, CalmGrant
  <2>3. CASE StartsExchange(r)
    BY <2>1, <2>3, ExchangeGrant
  <2>4. CASE StartsRotation(r)
    BY <2>1, <2>4, RotationGrant
  <2>5. CASE InsertRefresh(r) \/ InsertAccess(r) \/ InsertUnanswered(r)
    <3>1. Drawn \in TokenIds
      BY <2>5, DrawnIsUnused DEF InsertRefresh, InsertAccess, InsertUnanswered
    <3> QED BY <2>1, <2>5, <3>1, InsertEffect, InsertGrant
  <2> QED BY <1>3, <2>2, <2>3, <2>4, <2>5, CalmOrMinting
<1>4. CASE UNCHANGED vars
  BY <1>4 DEF TypeOK, HandlersTypeOK, GrantInv, BoundToGrant, OneLiveRefreshPerGrant,
     LiveRefresh, IsCode, Minting, vars, store, handlers, history
<1> QED BY <1>1, <1>2, <1>3, <1>4 DEF Next

\* Every variable stays in its type.
THEOREM TypeCorrect == Spec => []TypeOK
<1>1. Inv1 => TypeOK
  BY DEF Inv1
<1> QED BY <1>1, InitInv1, NextInv1, PTL DEF Spec

\* At any time at most one unrevoked refresh token descends from an approval, for
\* any number of concurrent requests and whatever statements fail.
THEOREM OneRefreshRight == Spec => []OneLiveRefreshPerGrant
<1>1. Inv1 => OneLiveRefreshPerGrant
  BY DEF Inv1, GrantInv
<1> QED BY <1>1, InitInv1, NextInv1, PTL DEF Spec

\* Every token row carries the client and user its approval was given for.
THEOREM TokensBoundToGrant == Spec => []BoundToGrant
<1>1. Inv1 => BoundToGrant
  BY DEF Inv1, GrantInv
<1> QED BY <1>1, InitInv1, NextInv1, PTL DEF Spec
-------------------------------------------------------------------------------
(* One pair per code.                                                      *)

LEMMA CalmCode == ASSUME TypeOK, CodeInv, CalmStep PROVE CodeInv'
  BY DEF CodeInv, CalmStep, MintsOnlyEnd, Minting, CodeSpentOnce

\* Nothing carries the hash of a code that was not consumed.
LEMMA UnconsumedCodeIsBare ==
  ASSUME TypeOK, GrantInv, CodeInv, NEW c \in Codes \ consumed
  PROVE  /\ \A t \in TokenIds : tokens[t].code # c
         /\ \A r \in Requests : Minting(r) => mint[r].code # c
  BY NoneIsNoKey DEF GrantInv, BoundToGrant, CodeInv

LEMMA ExchangeCode ==
  ASSUME TypeOK, GrantInv, CodeInv, NEW r \in Requests, StartsExchange(r) PROVE CodeInv'
<1> DEFINE c == req[r].key
<1>1. c \in Codes \ consumed /\ UNCHANGED tokens
  BY DEF StartsExchange, ConsumeAuthCode, Consumable, IsCode
<1>2. /\ pc'[r] = "insertRefresh" /\ mint'[r].code = c /\ mint'[r].grant = c
      /\ \A s \in Requests \ {r} : pc'[s] = pc[s] /\ mint'[s] = mint[s]
  BY StartMintEffect DEF StartsExchange
<1> HIDE DEF c
<1> QED BY <1>1, <1>2, UnconsumedCodeIsBare DEF CodeInv, Minting, CodeSpentOnce

LEMMA RotationCode ==
  ASSUME TypeOK, CodeInv, NEW r \in Requests, StartsRotation(r) PROVE CodeInv'
<1>1. /\ UNCHANGED tokens /\ pc'[r] = "insertRefresh" /\ mint'[r].code = None
      /\ \A s \in Requests \ {r} : pc'[s] = pc[s] /\ mint'[s] = mint[s]
  BY StartMintEffect DEF StartsRotation, RotateRefreshToken
<1> QED BY <1>1 DEF CodeInv, Minting, CodeSpentOnce

LEMMA InsertCode ==
  ASSUME TypeOK, CodeInv, NEW r \in Requests, NEW x \in TokenIds, NEW row \in TokenRow,
         InsertsRow(r, x, row)
  PROVE  CodeInv'
<1>1. /\ row.code = mint[r].code /\ row.grant = mint[r].grant /\ Minting(r)
      /\ row.kind \in {"access", "refresh"}
      /\ row.kind = "refresh" <=> pc[r] = "insertRefresh"
      /\ tokens[x].code = None
  BY DEF InsertsRow, RefreshRow, AccessRow, Minting, CodeInv, Unused
<1>2. /\ tokens'[x] = row /\ \A t \in TokenIds \ {x} : tokens'[t] = tokens[t]
  BY DEF InsertsRow, TypeOK
<1>a. \A s \in Requests \ {r} : pc'[s] = pc[s] /\ mint'[s] = mint[s]
  BY DEF InsertsRow
<1>b. Minting(r)' => mint'[r].code = mint[r].code /\ mint'[r].grant = mint[r].grant
  BY DEF InsertsRow, TypeOK, HandlersTypeOK, Mint
<1>c. Minting(r)' => pc'[r] = "insertAccess" /\ row.kind = "refresh"
  BY DEF InsertsRow, Minting, RefreshRow
<1>3. /\ \A s \in Requests \ {r} : pc'[s] = pc[s] /\ mint'[s] = mint[s]
      /\ Minting(r)' => /\ mint'[r].code = mint[r].code /\ mint'[r].grant = mint[r].grant
                        /\ pc'[r] = "insertAccess" /\ row.kind = "refresh"
  BY <1>a, <1>b, <1>c
<1>4. CodeSpentOnce'
  BY <1>1, <1>2 DEF CodeInv, CodeSpentOnce, Minting
<1>5. (\A s \in Requests, t \in TokenIds :
          Minting(s) /\ mint[s].code # None /\ tokens[t].code = mint[s].code
          => pc[s] = "insertAccess" /\ tokens[t].kind = "refresh")'
  BY <1>1, <1>2, <1>3 DEF CodeInv, Minting
<1> QED BY <1>1, <1>2, <1>3, <1>4, <1>5 DEF CodeInv, Minting
-------------------------------------------------------------------------------
(* Settled replays.                                                        *)

LEMMA StepReplay ==
  ASSUME TypeOK, GrantInv, CodeInv, ReplayInv, NEW r \in Requests, Handle(r)
  PROVE  ReplayInv'
<1>1. CASE CalmStep /\ replayed' = replayed
  BY <1>1 DEF ReplayInv, CalmStep, MintsOnlyEnd, Minting
<1>2. CASE RevokeFamilyByCode(r)
  <2>1. MintsOnlyEnd
    BY <1>2, FinishEndsMint DEF RevokeFamilyByCode
  <2> QED BY <1>2, <2>1, NoneIsNoKey DEF RevokeFamilyByCode, ReplayInv, MintsOnlyEnd, Minting,
             ExchangeInFlight, RowsOfCode, TypeOK
<1>3. CASE StartsExchange(r)
  <2>1. /\ req[r].key \in Codes \ consumed /\ consumed' = consumed \cup {req[r].key}
        /\ UNCHANGED <<tokens, revoked, replayed>>
    BY <1>3 DEF StartsExchange, ConsumeAuthCode, Consumable, IsCode, history
  <2>2. /\ mint'[r].code = req[r].key
        /\ \A s \in Requests \ {r} : pc'[s] = pc[s] /\ mint'[s] = mint[s]
    BY <1>3, StartMintEffect DEF StartsExchange
  <2> QED BY <2>1, <2>2 DEF ReplayInv, Minting
<1>4. CASE StartsRotation(r)
  <2>1. /\ UNCHANGED <<tokens, consumed, replayed>> /\ revoked \subseteq revoked'
    BY <1>4 DEF StartsRotation, RotateRefreshToken, history
  <2>2. /\ mint'[r].code = None
        /\ \A s \in Requests \ {r} : pc'[s] = pc[s] /\ mint'[s] = mint[s]
    BY <1>4, StartMintEffect DEF StartsRotation
  <2> QED BY <2>1, <2>2, NoneIsNoKey DEF ReplayInv, Minting
<1>5. CASE InsertRefresh(r) \/ InsertAccess(r) \/ InsertUnanswered(r)
  <2>1. PICK x \in TokenIds, row \in TokenRow : InsertsRow(r, x, row)
    <3>1. Drawn \in TokenIds
      BY <1>5, DrawnIsUnused DEF InsertRefresh, InsertAccess, InsertUnanswered
    <3> QED BY <1>5, <3>1, InsertEffect
  <2>2. row.code = mint[r].code /\ Minting(r)
    BY <2>1 DEF InsertsRow, RefreshRow, AccessRow, Minting
  <2>3. UNCHANGED replayed
    BY <1>5 DEF InsertRefresh, InsertAccess, InsertUnanswered, history
  <2>4. /\ tokens'[x] = row /\ \A t \in TokenIds \ {x} : tokens'[t] = tokens[t]
        /\ UNCHANGED <<consumed, revoked>>
    BY <2>1 DEF InsertsRow, TypeOK
  <2>5. /\ \A s \in Requests \ {r} : pc'[s] = pc[s] /\ mint'[s] = mint[s]
        /\ Minting(r)' => mint'[r].code = mint[r].code
    BY <2>1 DEF InsertsRow, TypeOK, HandlersTypeOK, Mint
  <2> QED BY <2>2, <2>3, <2>4, <2>5 DEF ReplayInv, Minting
<1>6. RevokeFamilyByCode(r) \/ replayed' = replayed
  BY DEF Handle, BeginCodeGrant, ConsumeAuthCode, ConsumeFindsNothing, BeginRefreshGrant,
     PreRead, RotateRefreshToken, RotateFindsNothing, RevokeFamilyOnReuse, InsertRefresh,
     InsertAccess, BeginLogout, LogoutFamily, LogoutToken, StatementFails,
     ConsumeUnanswered, RotateUnanswered, InsertUnanswered, RevokeRefreshFamily, Begin, history
<1> QED BY <1>1, <1>2, <1>3, <1>4, <1>5, <1>6, CalmOrMinting
-------------------------------------------------------------------------------
(* Families of tokens.                                                     *)

LEMMA CalmFamily ==
  ASSUME TypeOK, FamilyInv, CalmStep, UNCHANGED delivered PROVE FamilyInv'
<1> USE DEF CalmStep, MintsOnlyEnd
<1>1. FamilyShape'
  BY DEF FamilyInv, FamilyShape, IsKind
<1>2. \A r \in Requests : pc'[r] = "insertAccess" => pc[r] = "insertAccess" /\ mint'[r] = mint[r]
  BY DEF Minting
<1> QED BY <1>1, <1>2 DEF FamilyInv, IsKind

LEMMA StartFamily ==
  ASSUME TypeOK, FamilyInv, NEW r \in Requests, StartsExchange(r) \/ StartsRotation(r)
  PROVE  FamilyInv'
<1>1. UNCHANGED <<tokens, delivered>>
  BY DEF StartsExchange, StartsRotation, ConsumeAuthCode, RotateRefreshToken
<1>2. /\ pc'[r] = "insertRefresh"
      /\ \A s \in Requests \ {r} : pc'[s] = pc[s] /\ mint'[s] = mint[s]
  BY StartMintEffect DEF StartsExchange, StartsRotation
<1>3. FamilyShape'
  BY <1>1 DEF FamilyInv, FamilyShape, IsKind
<1> QED BY <1>1, <1>2, <1>3 DEF FamilyInv, IsKind

LEMMA InsertFamily ==
  ASSUME TypeOK, FamilyInv, NEW r \in Requests, NEW x \in TokenIds, NEW row \in TokenRow,
         InsertsRow(r, x, row),
         \/ UNCHANGED delivered
         \/ row.kind = "access" /\ delivered' = delivered \cup {row.refreshFor, x}
  PROVE  FamilyInv'
<1>1. /\ row.client = mint[r].client /\ row.user = mint[r].user /\ row.code = mint[r].code
      /\ \/ row.kind = "refresh" /\ row.refreshFor = None /\ pc[r] = "insertRefresh"
         \/ row.kind = "access" /\ row.refreshFor = mint[r].refresh /\ pc[r] = "insertAccess"
      /\ tokens[x].kind = "none"
  BY DEF InsertsRow, RefreshRow, AccessRow, Unused
<1>2. /\ tokens'[x] = row /\ \A t \in TokenIds \ {x} : tokens'[t] = tokens[t]
  BY DEF InsertsRow, TypeOK
<1>3. \A s \in Requests \ {r} : pc'[s] = pc[s] /\ mint'[s] = mint[s]
  BY DEF InsertsRow
<1>4. pc'[r] = "insertAccess" =>
         /\ mint'[r].refresh = x /\ mint'[r].client = row.client
         /\ mint'[r].user = row.user /\ mint'[r].code = row.code
         /\ row.kind = "refresh"
  <2>1. pc'[r] = "insertAccess" => Minting(r)'
    BY DEF Minting
  <2>2. Minting(r)' => /\ mint'[r] = [mint[r] EXCEPT !.refresh = x, !.at = now]
                       /\ row = RefreshRow(mint[r])
    BY DEF InsertsRow
  <2>3. /\ [mint[r] EXCEPT !.refresh = x, !.at = now].refresh = x
        /\ [mint[r] EXCEPT !.refresh = x, !.at = now].client = mint[r].client
        /\ [mint[r] EXCEPT !.refresh = x, !.at = now].user = mint[r].user
        /\ [mint[r] EXCEPT !.refresh = x, !.at = now].code = mint[r].code
    BY DEF TypeOK, HandlersTypeOK, Mint
  <2>4. RefreshRow(mint[r]).kind = "refresh"
    BY DEF RefreshRow
  <2> HIDE DEF RefreshRow
  <2> QED BY <1>1, <2>1, <2>2, <2>3, <2>4
<1>5. \A f \in TokenIds : (tokens[f].kind # "none" => f # x)
  BY <1>1
<1>6. \A f \in delivered : f # x
  BY <1>1 DEF FamilyInv
<1>7. pc[r] = "insertAccess" =>
         /\ mint[r].refresh \in TokenIds \ {x}
         /\ tokens[mint[r].refresh].kind = "refresh"
  BY <1>1 DEF FamilyInv, IsKind
<1>8. \A t \in TokenIds : tokens[t].refreshFor # x
  <2>1. \A t \in TokenIds : tokens[t].kind = "access" => tokens[t].refreshFor # x
    BY <1>1 DEF FamilyInv, FamilyShape, IsKind
  <2> QED BY <2>1, NoneIsNoKey DEF FamilyInv
<1>9. FamilyShape'
  <2>1. (\A a \in TokenIds : tokens[a].kind = "access" =>
          /\ IsKind(tokens[a].refreshFor, "refresh")
          /\ tokens[a].client = tokens[tokens[a].refreshFor].client
          /\ tokens[a].user = tokens[tokens[a].refreshFor].user
          /\ tokens[a].code = tokens[tokens[a].refreshFor].code)'
    BY <1>1, <1>2, <1>5, <1>7 DEF FamilyInv, FamilyShape, IsKind
  <2>2. \A a, b \in TokenIds :
          /\ tokens'[a].kind = "access" /\ tokens'[b].kind = "access"
          /\ tokens'[a].refreshFor = tokens'[b].refreshFor
          => a = b
    <3>1. \A t \in TokenIds : pc[r] = "insertAccess" => tokens[t].refreshFor # mint[r].refresh
      BY DEF FamilyInv
    <3>2. \A a, b \in TokenIds :
            /\ tokens[a].kind = "access" /\ tokens[b].kind = "access"
            /\ tokens[a].refreshFor = tokens[b].refreshFor
            => a = b
      BY DEF FamilyInv, FamilyShape
    <3> SUFFICES ASSUME NEW a \in TokenIds, NEW b \in TokenIds,
                        tokens'[a].kind = "access", tokens'[b].kind = "access",
                        tokens'[a].refreshFor = tokens'[b].refreshFor
                 PROVE  a = b
      OBVIOUS
    <3>3. a = b \/ a = x \/ b = x
      BY <1>2, <3>2
    <3>4. a # b => row.kind = "access" /\ pc[r] = "insertAccess" /\ row.refreshFor = mint[r].refresh
      BY <1>1, <1>2, <3>3
    <3> QED BY <1>2, <3>1, <3>3, <3>4
  <2>3. (\A f \in delivered : tokens[f].kind = "refresh" =>
          \E a \in delivered : IsKind(a, "access") /\ tokens[a].refreshFor = f)'
    <3>1. \A f \in delivered : tokens'[f] = tokens[f]
      BY <1>2, <1>6 DEF TypeOK
    <3>2. CASE UNCHANGED delivered
      BY <3>1, <3>2 DEF FamilyInv, FamilyShape, IsKind
    <3>3. CASE row.kind = "access" /\ delivered' = delivered \cup {row.refreshFor, x}
      <4>1. IsKind(x, "access")' /\ tokens'[x].refreshFor = row.refreshFor /\ x \in delivered'
        BY <1>2, <3>3 DEF IsKind
      <4>2. \A f \in delivered : tokens[f].kind = "refresh" =>
               \E a \in delivered : IsKind(a, "access") /\ tokens[a].refreshFor = f
        BY DEF FamilyInv, FamilyShape
      <4>3. \A f \in delivered : tokens'[f].kind = "refresh" =>
               \E a \in delivered' : IsKind(a, "access")' /\ tokens'[a].refreshFor = f
        BY <3>1, <3>3, <4>2 DEF IsKind
      <4>4. tokens'[x].kind # "refresh"
        BY <1>2, <3>3
      <4> QED BY <3>3, <4>1, <4>3, <4>4
    <3> QED BY <3>2, <3>3
  <2> QED BY <2>1, <2>2, <2>3 DEF FamilyShape, IsKind
<1>10. (\A t \in delivered : tokens[t].kind # "none")'
  <2>1. \A t \in delivered : t \in TokenIds \ {x} /\ tokens[t].kind # "none"
    BY <1>6 DEF FamilyInv, TypeOK
  <2>2. CASE UNCHANGED delivered
    BY <1>2, <2>1, <2>2
  <2>3. CASE row.kind = "access" /\ delivered' = delivered \cup {row.refreshFor, x}
    <3>1. row.refreshFor \in TokenIds \ {x} /\ tokens[row.refreshFor].kind = "refresh"
      BY <1>1, <1>7, <2>3
    <3> QED BY <1>2, <2>1, <2>3, <3>1
  <2> QED BY <2>2, <2>3
<1>11. (\A t \in TokenIds : tokens[t].refreshFor # None => tokens[t].kind = "access")'
  BY <1>1, <1>2 DEF FamilyInv
<1>12. (\A s \in Requests : pc[s] = "insertAccess" =>
          /\ IsKind(mint[s].refresh, "refresh")
          /\ mint[s].refresh \notin delivered
          /\ tokens[mint[s].refresh].client = mint[s].client
          /\ tokens[mint[s].refresh].user = mint[s].user
          /\ tokens[mint[s].refresh].code = mint[s].code
          /\ \A t \in TokenIds : tokens[t].refreshFor # mint[s].refresh)'
  <2> SUFFICES ASSUME NEW s \in Requests, pc'[s] = "insertAccess"
               PROVE  (/\ IsKind(mint[s].refresh, "refresh")
                       /\ mint[s].refresh \notin delivered
                       /\ tokens[mint[s].refresh].client = mint[s].client
                       /\ tokens[mint[s].refresh].user = mint[s].user
                       /\ tokens[mint[s].refresh].code = mint[s].code
                       /\ \A t \in TokenIds : tokens[t].refreshFor # mint[s].refresh)'
    OBVIOUS
  <2>1. CASE s = r
    <3>1. row.kind = "refresh" /\ delivered' = delivered
      BY <1>4, <2>1
    <3> QED BY <1>1, <1>2, <1>4, <1>6, <1>8, <2>1, <3>1, NoneIsNoKey DEF IsKind
  <2>2. CASE s # r
    <3>1. pc[s] = "insertAccess" /\ mint'[s] = mint[s]
      BY <1>3, <2>2
    <3>2. /\ mint[s].refresh \in TokenIds \ {x} /\ tokens'[mint[s].refresh] = tokens[mint[s].refresh]
          /\ mint[s].refresh \notin delivered
      BY <1>1, <1>2, <3>1 DEF FamilyInv, IsKind
    <3>3. pc[r] = "insertAccess" => mint[r].refresh # mint[s].refresh
      BY <2>2, <3>1 DEF FamilyInv
    <3>4. row.refreshFor # mint[s].refresh
      BY <1>1, <3>2, <3>3, NoneIsNoKey
    <3>5. mint[s].refresh \notin delivered'
      BY <3>2, <3>4
    <3> QED BY <1>2, <3>1, <3>2, <3>4, <3>5 DEF FamilyInv, IsKind
  <2> QED BY <2>1, <2>2
<1>13. (\A q, s \in Requests :
          pc[q] = "insertAccess" /\ pc[s] = "insertAccess"
          /\ mint[q].refresh = mint[s].refresh => q = s)'
  <2>1. \A s \in Requests \ {r} : pc'[s] = "insertAccess" => mint'[s].refresh # x
    BY <1>1, <1>3 DEF FamilyInv, IsKind
  <2> QED BY <1>3, <1>4, <2>1 DEF FamilyInv
<1> QED BY <1>9, <1>10, <1>11, <1>12, <1>13 DEF FamilyInv

LEMMA StepKeys ==
  ASSUME TypeOK, KeysInv, NEW r \in Requests, Handle(r) PROVE KeysInv'
<1> USE DEF TypeOK, HandlersTypeOK, KeysInv
<1>1. delivered \subseteq delivered'
  BY DEF Handle, BeginCodeGrant, ConsumeAuthCode, ConsumeFindsNothing, RevokeFamilyByCode,
     BeginRefreshGrant, PreRead, RotateRefreshToken, RotateFindsNothing, RevokeFamilyOnReuse,
     InsertRefresh, InsertAccess, BeginLogout, LogoutFamily, LogoutToken, StatementFails,
     ConsumeUnanswered, RotateUnanswered, InsertUnanswered, RevokeRefreshFamily, Begin
<1>2. \A s \in Requests \ {r} : pc'[s] = pc[s] /\ req'[s] = req[s]
  BY DEF Handle, BeginCodeGrant, ConsumeAuthCode, ConsumeFindsNothing, RevokeFamilyByCode,
     BeginRefreshGrant, PreRead, RotateRefreshToken, RotateFindsNothing, RevokeFamilyOnReuse,
     InsertRefresh, InsertAccess, BeginLogout, LogoutFamily, LogoutToken, StatementFails,
     ConsumeUnanswered, RotateUnanswered, InsertUnanswered, Begin, Finish, Continue, StartMint
<1>3. pc'[r] \in {"preRead", "rotate", "revokeFamily", "logoutFamily", "logoutToken"}
      => req'[r].key \in delivered' \cup {None}
  <2>1. CASE BeginCodeGrant(r)
    <3>1. pc'[r] = "consume"
      BY <2>1 DEF BeginCodeGrant, Begin
    <3> QED BY <3>1
  <2>2. CASE BeginRefreshGrant(r) \/ BeginLogout(r)
    BY <2>2 DEF BeginRefreshGrant, BeginLogout, Begin, Idle
  <2>3. CASE ConsumeAuthCode(r) \/ ConsumeFindsNothing(r) \/ RevokeFamilyByCode(r)
             \/ ConsumeUnanswered(r)
    BY <2>3 DEF ConsumeAuthCode, ConsumeFindsNothing, RevokeFamilyByCode,
       ConsumeUnanswered, Finish, Continue, StartMint
  <2>4. CASE PreRead(r) \/ RotateRefreshToken(r) \/ RotateFindsNothing(r)
             \/ RevokeFamilyOnReuse(r) \/ RotateUnanswered(r)
    BY <2>4 DEF PreRead, RotateRefreshToken, RotateFindsNothing, RevokeFamilyOnReuse,
       RotateUnanswered, RevokeRefreshFamily, Finish, Continue, StartMint
  <2>5. CASE InsertRefresh(r) \/ InsertAccess(r) \/ InsertUnanswered(r)
    BY <2>5 DEF InsertRefresh, InsertAccess, InsertUnanswered, Finish
  <2>6. CASE LogoutFamily(r) \/ LogoutToken(r)
    BY <2>6 DEF LogoutFamily, LogoutToken, RevokeRefreshFamily, Finish, Continue
  <2>7. CASE StatementFails(r)
    BY <2>7 DEF StatementFails, Finish, Continue
  <2> QED BY <2>1, <2>2, <2>3, <2>4, <2>5, <2>6, <2>7 DEF Handle
<1> QED BY <1>1, <1>2, <1>3

LEMMA StepKilled ==
  ASSUME TypeOK, FamilyInv, KeysInv, KilledInv, NEW r \in Requests, Handle(r)
  PROVE  KilledInv'
<1>1. CASE UNCHANGED <<tokens, killed>> /\ revoked \subseteq revoked' /\ delivered \subseteq delivered'
  BY <1>1 DEF KilledInv, KilledFamilyStaysDead
<1>2. CASE /\ pc[r] \in {"revokeFamily", "logoutFamily"} /\ RevokeRefreshFamily(r)
  <2> DEFINE k == req[r].key
  <2>1. k \in delivered \cup {None}
    BY <1>2 DEF KeysInv
  <2>2. k # None => k \in delivered /\ k \in TokenIds \ Unused
    BY <2>1 DEF FamilyInv, Unused, TypeOK
  <2>3. /\ revoked' = revoked \cup Family(k) /\ killed' = killed \cup ({k} \cap TokenIds)
        /\ UNCHANGED <<tokens, delivered>>
    BY <1>2 DEF RevokeRefreshFamily
  <2> HIDE DEF k
  <2> QED BY <2>2, <2>3, NoneIsNoKey DEF KilledInv, KilledFamilyStaysDead, Family
<1>3. CASE InsertRefresh(r) \/ InsertAccess(r) \/ InsertUnanswered(r)
  <2>1. PICK x \in TokenIds, row \in TokenRow : InsertsRow(r, x, row)
    <3>1. Drawn \in TokenIds
      BY <1>3, DrawnIsUnused DEF InsertRefresh, InsertAccess, InsertUnanswered
    <3> QED BY <1>3, <3>1, InsertEffect
  <2>2. /\ tokens'[x] = row /\ \A t \in TokenIds \ {x} : tokens'[t] = tokens[t]
        /\ UNCHANGED revoked
    BY <2>1 DEF InsertsRow, TypeOK
  <2>3. delivered \subseteq delivered' /\ UNCHANGED killed
    BY <1>3 DEF InsertRefresh, InsertAccess, InsertUnanswered, history
  <2>4. x \notin delivered
    BY <2>1 DEF InsertsRow, Unused, FamilyInv
  <2>5. row.refreshFor \notin delivered
    BY <2>1, NoneIsNoKey DEF InsertsRow, RefreshRow, AccessRow, FamilyInv, TypeOK
  <2> QED BY <2>2, <2>3, <2>4, <2>5 DEF KilledInv, KilledFamilyStaysDead
<1>4. \/ UNCHANGED <<tokens, killed>> /\ revoked \subseteq revoked' /\ delivered \subseteq delivered'
      \/ pc[r] \in {"revokeFamily", "logoutFamily"} /\ RevokeRefreshFamily(r)
      \/ InsertRefresh(r) \/ InsertAccess(r) \/ InsertUnanswered(r)
  BY DEF Handle, BeginCodeGrant, ConsumeAuthCode, ConsumeFindsNothing, RevokeFamilyByCode,
     BeginRefreshGrant, PreRead, RotateRefreshToken, RotateFindsNothing, RevokeFamilyOnReuse,
     BeginLogout, LogoutFamily, LogoutToken, StatementFails,
     ConsumeUnanswered, RotateUnanswered, Begin, store, history
<1> QED BY <1>1, <1>2, <1>3, <1>4

LEMMA StepFamily ==
  ASSUME TypeOK, GrantInv, FamilyInv, NEW r \in Requests, Handle(r) PROVE FamilyInv'
<1>1. CASE CalmStep /\ UNCHANGED delivered
  BY <1>1, CalmFamily
<1>2. CASE StartsExchange(r) \/ StartsRotation(r)
  BY <1>2, StartFamily
<1>3. CASE InsertRefresh(r) \/ InsertUnanswered(r)
  <2>1. PICK row \in TokenRow : InsertsRow(r, Drawn, row)
    BY <1>3, InsertEffect
  <2>2. Drawn \in TokenIds /\ UNCHANGED delivered
    BY <1>3, DrawnIsUnused DEF InsertRefresh, InsertUnanswered
  <2> QED BY <2>1, <2>2, InsertFamily
<1>4. CASE InsertAccess(r)
  <2>1. PICK row \in TokenRow : InsertsRow(r, Drawn, row)
    BY <1>4, InsertEffect
  <2>2. /\ Drawn \in TokenIds /\ delivered' = delivered \cup {mint[r].refresh, Drawn}
        /\ pc[r] = "insertAccess"
    BY <1>4, DrawnIsUnused DEF InsertAccess
  <2>3. row.kind = "access" /\ row.refreshFor = mint[r].refresh
    BY <2>1, <2>2 DEF InsertsRow, RefreshRow, AccessRow
  <2> QED BY <2>1, <2>2, <2>3, InsertFamily
<1>5. UNCHANGED delivered \/ InsertAccess(r)
  BY DEF Handle, BeginCodeGrant, ConsumeAuthCode, ConsumeFindsNothing, RevokeFamilyByCode,
     BeginRefreshGrant, PreRead, RotateRefreshToken, RotateFindsNothing, RevokeFamilyOnReuse,
     InsertRefresh, BeginLogout, LogoutFamily, LogoutToken, StatementFails,
     ConsumeUnanswered, RotateUnanswered, InsertUnanswered, RevokeRefreshFamily, Begin
<1> QED BY <1>1, <1>2, <1>3, <1>4, <1>5, CalmOrMinting
-------------------------------------------------------------------------------
Inv2 == Inv1 /\ CodeInv /\ ReplayInv /\ FamilyInv /\ KeysInv /\ KilledInv

LEMMA InitInv2 == Init => Inv2
<1> SUFFICES ASSUME Init PROVE Inv2
  OBVIOUS
<1>1. Inv1
  BY InitInv1
<1>2. CodeInv /\ ReplayInv
  BY DEF Init, CodeInv, CodeSpentOnce, ReplayInv, Minting, NoTokenRow
<1>3. FamilyInv
  BY DEF Init, FamilyInv, FamilyShape, NoTokenRow
<1>4. KeysInv /\ KilledInv
  BY DEF Init, KeysInv, KilledInv, KilledFamilyStaysDead
<1> QED BY <1>1, <1>2, <1>3, <1>4 DEF Inv2

LEMMA NextInv2 == Inv2 /\ [Next]_vars => Inv2'
<1> SUFFICES ASSUME Inv2, [Next]_vars PROVE Inv2'
  OBVIOUS
<1> USE DEF Inv2
<1>1. Inv1'
  BY NextInv1
<1>2. ASSUME NEW r \in Requests, Handle(r) PROVE Inv2'
  <2>1. CodeInv'
    <3>1. CASE CalmStep
      BY <3>1, CalmCode DEF Inv1
    <3>2. CASE StartsExchange(r)
      BY <3>2, ExchangeCode DEF Inv1
    <3>3. CASE StartsRotation(r)
      BY <3>3, RotationCode DEF Inv1
    <3>4. CASE InsertRefresh(r) \/ InsertAccess(r) \/ InsertUnanswered(r)
      <4>1. Drawn \in TokenIds
        BY <3>4, DrawnIsUnused DEF InsertRefresh, InsertAccess, InsertUnanswered
      <4> QED BY <3>4, <4>1, InsertEffect, InsertCode DEF Inv1
    <3> QED BY <1>2, <3>1, <3>2, <3>3, <3>4, CalmOrMinting DEF Inv1
  <2>2. ReplayInv'
    BY <1>2, StepReplay DEF Inv1
  <2>3. FamilyInv'
    BY <1>2, StepFamily DEF Inv1
  <2>4. KeysInv'
    BY <1>2, StepKeys DEF Inv1
  <2>5. KilledInv'
    BY <1>2, StepKilled DEF Inv1
  <2> QED BY <1>1, <2>1, <2>2, <2>3, <2>4, <2>5
<1>3. CASE /\ UNCHANGED <<consumed, tokens, revoked, delivered, pc, req, mint, killed, replayed>>
  <2>1. CodeInv' /\ ReplayInv'
    BY <1>3 DEF CodeInv, CodeSpentOnce, ReplayInv, Minting
  <2>2. FamilyInv'
    BY <1>3 DEF FamilyInv, FamilyShape, IsKind
  <2>3. KeysInv' /\ KilledInv'
    BY <1>3 DEF KeysInv, KilledInv, KilledFamilyStaysDead
  <2> QED BY <1>1, <2>1, <2>2, <2>3
<1>4. \/ \E r \in Requests : Handle(r)
      \/ UNCHANGED <<consumed, tokens, revoked, delivered, pc, req, mint, killed, replayed>>
  BY DEF Next, Tick, CreateAuthCode, vars, store, handlers, history
<1> QED BY <1>2, <1>3, <1>4

\* A code pays for at most one refresh and one access token.
THEOREM OnePairPerCode == Spec => []CodeSpentOnce
<1>1. Inv2 => CodeSpentOnce
  BY DEF Inv2, CodeInv
<1> QED BY <1>1, InitInv2, NextInv2, PTL DEF Spec

\* The rows a family revocation reaches are the tokens issued together.
THEOREM FamiliesWellFormed == Spec => []FamilyShape
<1>1. Inv2 => FamilyShape
  BY DEF Inv2, FamilyInv
<1> QED BY <1>1, InitInv2, NextInv2, PTL DEF Spec

\* A revoked family never has a live token again.
THEOREM RevocationIsFinal == Spec => []KilledFamilyStaysDead
<1>1. Inv2 => KilledFamilyStaysDead
  BY DEF Inv2, KilledInv
<1> QED BY <1>1, InitInv2, NextInv2, PTL DEF Spec

\* Replaying a code whose exchange is over kills every token issued under it.
THEOREM SettledReplayKills == Spec => []ReplayRevokesSettledExchange
<1>1. Inv2 => ReplayRevokesSettledExchange
  BY DEF Inv2, ReplayInv, ReplayRevokesSettledExchange
<1> QED BY <1>1, InitInv2, NextInv2, PTL DEF Spec
-------------------------------------------------------------------------------
(* The refinement of RefreshRight.                                         *)

\* The places where the right of an approval may be, each with what the tables and the
\* requests then show of it.
Place(c, p) ==
    \/ p = "none" /\ ~IsCode(c)
    \/ p = "code" /\ IsCode(c) /\ c \notin consumed
    \/ p = "request" /\ c \in consumed /\ \E r \in Requests : HoldsRight(r, c)
    \/ p \in TokenIds /\ c \in consumed /\ LiveRefresh(p) /\ tokens[p].grant = c
    \/ /\ p = "gone" /\ c \in consumed
       /\ ~(\E r \in Requests : HoldsRight(r, c))
       /\ ~(\E t \in TokenIds : LiveRefresh(t) /\ tokens[t].grant = c)

\* RightOf names the one place of each right.
RightsPlaced ==
    \A c \in Codes : Place(c, RightOf(c)) /\ \A p : Place(c, p) => p = RightOf(c)

\* An approval's right is in exactly one place, which RightOf computes.
LEMMA PlaceIsRight == Inv1 => RightsPlaced
<1> SUFFICES ASSUME Inv1, NEW c \in Codes
             PROVE  Place(c, RightOf(c)) /\ \A p : Place(c, p) => p = RightOf(c)
  BY DEF RightsPlaced
<1> DEFINE Held == \E r \in Requests : HoldsRight(r, c)
           Carries(t) == LiveRefresh(t) /\ tokens[t].grant = c
<1>1. c \in consumed => IsCode(c)
  BY DEF Inv1, GrantInv
<1>2. \A t, u \in TokenIds : Carries(t) /\ Carries(u) => t = u
  BY DEF Inv1, GrantInv, OneLiveRefreshPerGrant
<1>3. Held => \A t \in TokenIds : ~Carries(t)
  BY DEF Inv1, GrantInv, HoldsRight
<1>4. CASE ~IsCode(c)
  BY <1>1, <1>4 DEF Place, RightOf
<1>5. CASE IsCode(c) /\ c \notin consumed
  BY <1>5 DEF Place, RightOf
<1>6. CASE c \in consumed /\ Held
  BY <1>1, <1>3, <1>6 DEF Place, RightOf
<1>7. CASE c \in consumed /\ ~Held /\ \E t \in TokenIds : Carries(t)
  <2>1. RightOf(c) = CHOOSE t \in TokenIds : Carries(t)
    BY <1>1, <1>7 DEF RightOf
  <2>2. RightOf(c) \in TokenIds /\ Carries(RightOf(c))
    BY <1>7, <2>1
  <2> QED BY <1>1, <1>2, <1>7, <2>2 DEF Place
<1>8. CASE c \in consumed /\ ~Held /\ ~\E t \in TokenIds : Carries(t)
  BY <1>1, <1>8 DEF Place, RightOf
<1> QED BY <1>4, <1>5, <1>6, <1>7, <1>8

\* The same of the next state.
LEMMA PlaceIsRightNext == Inv1' => RightsPlaced'
  BY PlaceIsRight, PTL

-------------------------------------------------------------------------------
(* Which steps move a right.                                               *)

\* A right whose tables and holders do not change stays where it is.
Undisturbed(d) ==
    /\ IsCode(d)' <=> IsCode(d)
    /\ d \in consumed' <=> d \in consumed
    /\ \A r \in Requests : HoldsRight(r, d)' <=> HoldsRight(r, d)
    /\ \A t \in TokenIds : (LiveRefresh(t) /\ tokens[t].grant = d)'
                           <=> LiveRefresh(t) /\ tokens[t].grant = d

LEMMA UndisturbedStays ==
  ASSUME Inv1, Inv1', NEW d \in Codes, Undisturbed(d)
  PROVE  RightOf(d)' = RightOf(d)
<1>1. \A p : Place(d, p) => Place(d, p)'
  BY DEF Undisturbed, Place
<1>2. PICK p : Place(d, p) /\ p = RightOf(d)
  BY PlaceIsRight DEF RightsPlaced
<1>3. p = RightOf(d)'
  BY <1>1, <1>2, PlaceIsRightNext DEF RightsPlaced
<1> QED BY <1>2, <1>3

\* One right moves, and the others stay.
LEMMA RightMoves ==
  ASSUME Inv1, Inv1', NEW c \in Codes, NEW p, NEW q, Place(c, p), Place(c, q)',
         \A d \in Codes \ {c} : Undisturbed(d)
  PROVE  Abstract!Move(c, p, q)
<1>1. RightOf(c) = p /\ RightOf(c)' = q
  BY PlaceIsRight, PlaceIsRightNext DEF RightsPlaced
<1>2. \A d \in Codes \ {c} : RightOf(d)' = RightOf(d)
  BY UndisturbedStays
<1> QED BY <1>1, <1>2 DEF Abstract!Move

\* A step that disturbs no right and inserts no row is a stutter of the rights.
LEMMA RightsStay ==
  ASSUME Inv1, Inv1', \A d \in Codes : Undisturbed(d), UNCHANGED tokens
  PROVE  UNCHANGED Abstract!vars
<1>1. \A d \in Codes : RightOf(d)' = RightOf(d)
  BY UndisturbedStays
<1> QED BY <1>1 DEF Abstract!vars

\* No request comes to hold a right or loses one.
SameHolders == \A r \in Requests, d \in Codes : HoldsRight(r, d)' <=> HoldsRight(r, d)

\* Only a request about to insert a refresh row holds a right.
LEMMA FinishHolders ==
  ASSUME TypeOK, NEW r \in Requests, Finish(r), pc[r] # "insertRefresh" PROVE SameHolders
  BY DEF TypeOK, HandlersTypeOK, Finish, HoldsRight, SameHolders

LEMMA ContinueHolders ==
  ASSUME TypeOK, NEW r \in Requests, NEW step, step # "insertRefresh", Continue(r, step),
         pc[r] # "insertRefresh"
  PROVE  SameHolders
  BY DEF TypeOK, HandlersTypeOK, Continue, HoldsRight, SameHolders

LEMMA BeginHolders ==
  ASSUME TypeOK, NEW r \in Requests, NEW step, step # "insertRefresh", NEW q, Begin(r, step, q)
  PROVE  SameHolders
  BY DEF TypeOK, HandlersTypeOK, Begin, HoldsRight, SameHolders

\* A step of a handler that leaves the tables alone, and the rights where they are.
LEMMA StillStep ==
  ASSUME Inv1, Inv1', UNCHANGED store, SameHolders
  PROVE  UNCHANGED Abstract!vars
<1>1. \A d \in Codes : Undisturbed(d)
  BY DEF store, SameHolders, Undisturbed, IsCode, LiveRefresh
<1> QED BY <1>1, RightsStay DEF store

\* A step that revokes rows, of which one at most is a live refresh token.
LEMMA RevokingStep ==
  ASSUME Inv1, Inv1', UNCHANGED <<codes, consumed, tokens>>, SameHolders, revoked \subseteq revoked',
         \A t, u \in TokenIds : LiveRefresh(t) /\ LiveRefresh(u) /\ {t, u} \subseteq revoked' => t = u
  PROVE  Abstract!Next \/ UNCHANGED Abstract!vars
<1>1. CASE \A t \in TokenIds : LiveRefresh(t) => t \notin revoked'
  <2>1. \A d \in Codes : Undisturbed(d)
    BY <1>1 DEF SameHolders, Undisturbed, IsCode, LiveRefresh
  <2> QED BY <2>1, RightsStay
<1>2. ASSUME NEW t \in TokenIds, LiveRefresh(t), t \in revoked'
      PROVE  Abstract!Next
  <2>1. PICK c \in Codes : c = tokens[t].grant /\ c \in consumed
    BY <1>2 DEF Inv1, TypeOK, GrantInv, BoundToGrant, LiveRefresh
  <2>2. Place(c, t) BY <1>2, <2>1 DEF Place
  <2>3. Place(c, "gone")'
    <3>1. \A r \in Requests : ~HoldsRight(r, c)
      BY <1>2, <2>1 DEF Inv1, GrantInv, HoldsRight
    <3>2. \A u \in TokenIds : LiveRefresh(u) /\ tokens[u].grant = c => u = t
      BY <1>2, <2>1 DEF Inv1, GrantInv, OneLiveRefreshPerGrant
    <3> QED BY <1>2, <2>1, <3>1, <3>2 DEF Place, SameHolders, LiveRefresh
  <2>4. \A d \in Codes \ {c} : Undisturbed(d)
    BY <1>2, <2>1 DEF SameHolders, Undisturbed, IsCode, LiveRefresh
  <2>5. Abstract!Move(c, t, "gone")
    BY <2>2, <2>3, <2>4, RightMoves
  <2>6. Abstract!Leave(c, t)
    BY <2>5 DEF Abstract!Leave
  <2> QED BY <2>6 DEF Abstract!Next
<1> QED BY <1>1, <1>2

-------------------------------------------------------------------------------
(* The steps of the endpoints, each a step of the rights or a stutter.     *)

\* The insert of an authorization code creates its right.
LEMMA ApproveStep ==
  ASSUME Inv1, Inv1', NEW c \in Codes, CreateAuthCode(c)
  PROVE  Abstract!Next
<1>1. /\ ~IsCode(c) /\ c \notin consumed /\ UNCHANGED <<consumed, tokens, revoked, pc, mint>>
      /\ codes'[c].client # None /\ \A d \in Codes \ {c} : codes'[d] = codes[d]
  BY TokensAssumption DEF CreateAuthCode, Inv1, GrantInv, TypeOK, handlers
<1>2. Place(c, "none") /\ Place(c, "code")' BY <1>1 DEF Place, IsCode
<1>3. \A d \in Codes \ {c} : Undisturbed(d)
  BY <1>1 DEF Undisturbed, IsCode, LiveRefresh, HoldsRight
<1>4. Abstract!Move(c, "none", "code") BY <1>2, <1>3, RightMoves
<1>5. Abstract!Approve(c) BY <1>1, <1>4 DEF Abstract!Approve
<1> QED BY <1>5 DEF Abstract!Next

\* The code is consumed, and the request goes on with the right or fails.
LEMMA RedeemStep ==
  ASSUME Inv1, Inv1', NEW r \in Requests, ConsumeAuthCode(r) \/ ConsumeUnanswered(r)
  PROVE  Abstract!Next
<1>0. PICK c \in Codes : c = req[r].key
  BY DEF ConsumeAuthCode, ConsumeUnanswered, Consumable, IsCode
<1>1. /\ IsCode(c) /\ c \notin consumed /\ consumed' = consumed \cup {c}
      /\ UNCHANGED <<codes, tokens, revoked>> /\ pc[r] = "consume"
      /\ StartMint(r, codes[c].user, c, c) \/ Finish(r)
  BY <1>0 DEF ConsumeAuthCode, ConsumeUnanswered, Consumable
<1>2. /\ \A t \in TokenIds : LiveRefresh(t) => tokens[t].grant # c
      /\ \A s \in Requests : ~HoldsRight(s, c)
  BY <1>1 DEF Inv1, GrantInv, BoundToGrant, LiveRefresh, HoldsRight, Minting
<1>3. Place(c, "code") BY <1>1 DEF Place
<1>4. \E to \in {"request", "gone"} : Abstract!Move(c, "code", to)
  <2>1. CASE StartMint(r, codes[c].user, c, c)
    <3>1. /\ pc'[r] = "insertRefresh" /\ mint'[r].grant = c
          /\ \A s \in Requests \ {r} : pc'[s] = pc[s] /\ mint'[s] = mint[s]
      BY <2>1, StartMintEffect DEF Inv1
    <3>2. Place(c, "request")' BY <1>1, <3>1 DEF Place, HoldsRight
    <3>3. \A d \in Codes \ {c} : Undisturbed(d)
      BY <1>1, <3>1 DEF Undisturbed, IsCode, LiveRefresh, HoldsRight
    <3> QED BY <1>1, <1>3, <3>2, <3>3, RightMoves
  <2>2. CASE Finish(r)
    <3>1. SameHolders BY <1>1, <2>2, FinishHolders DEF Inv1
    <3>2. Place(c, "gone")' BY <1>1, <1>2, <3>1 DEF Place, SameHolders, LiveRefresh
    <3>3. \A d \in Codes \ {c} : Undisturbed(d)
      BY <1>1, <3>1 DEF SameHolders, Undisturbed, IsCode, LiveRefresh
    <3> QED BY <1>1, <1>3, <3>2, <3>3, RightMoves
  <2> QED BY <1>1, <2>1, <2>2
<1>5. Abstract!Redeem(c) BY <1>1, <1>4 DEF Abstract!Redeem
<1> QED BY <1>1, <1>5 DEF Abstract!Next

\* A rotation passes the right from the refresh token to the request.
LEMMA RotationStep ==
  ASSUME Inv1, Inv1', NEW r \in Requests, StartsRotation(r)
  PROVE  Abstract!Next
<1> DEFINE k == req[r].key
<1>1. /\ k \in TokenIds /\ LiveRefresh(k) /\ revoked' = revoked \cup {k}
      /\ UNCHANGED <<codes, consumed, tokens>> /\ pc[r] = "rotate"
  BY DEF StartsRotation, RotateRefreshToken, Rotatable, IsKind, LiveRefresh
<1>2. /\ pc'[r] = "insertRefresh" /\ mint'[r].grant = tokens[k].grant
      /\ \A s \in Requests \ {r} : pc'[s] = pc[s] /\ mint'[s] = mint[s]
  BY StartMintEffect DEF StartsRotation, Inv1
<1> HIDE DEF k
<1>3. PICK c \in Codes : c = tokens[k].grant /\ c \in consumed
  BY <1>1 DEF Inv1, TypeOK, GrantInv, BoundToGrant, LiveRefresh
<1>4. Place(c, k) /\ Place(c, "request")' BY <1>1, <1>2, <1>3 DEF Place, HoldsRight
<1>5. \A d \in Codes \ {c} : Undisturbed(d)
  BY <1>1, <1>2, <1>3 DEF Undisturbed, IsCode, LiveRefresh, HoldsRight
<1>6. Abstract!Move(c, k, "request") BY <1>4, <1>5, RightMoves
<1>7. Abstract!Leave(c, k) BY <1>1, <1>6 DEF Abstract!Leave
<1> QED BY <1>1, <1>7 DEF Abstract!Next

-------------------------------------------------------------------------------
(* A row is inserted unrevoked: only rows that exist have a revoked_at.     *)

RevokedRowsExist == \A t \in revoked : tokens[t].kind # "none"

Inv3 == Inv2 /\ RevokedRowsExist

LEMMA InitInv3 == Init => Inv3
  BY InitInv2 DEF Init, Inv3, RevokedRowsExist

LEMMA NextInv3 == Inv3 /\ [Next]_vars => Inv3'
<1> SUFFICES ASSUME Inv3, [Next]_vars PROVE RevokedRowsExist'
  BY NextInv2 DEF Inv3
<1> USE DEF Inv3, Inv2, Inv1
<1>1. \A t \in TokenIds : tokens[t].kind # "none" => tokens'[t].kind # "none"
  <2>1. CASE UNCHANGED tokens
    BY <2>1
  <2>2. ASSUME NEW r \in Requests, NEW row \in TokenRow, Unused # {}, InsertsRow(r, Drawn, row)
        PROVE  \A t \in TokenIds : tokens[t].kind # "none" => tokens'[t].kind # "none"
    BY <2>2, DrawnIsUnused DEF InsertsRow, Unused, TypeOK
  <2>3. ASSUME NEW r \in Requests, InsertRefresh(r) \/ InsertAccess(r) \/ InsertUnanswered(r)
        PROVE  \A t \in TokenIds : tokens[t].kind # "none" => tokens'[t].kind # "none"
    <3>1. Unused # {} BY <2>3 DEF InsertRefresh, InsertAccess, InsertUnanswered
    <3> QED BY <2>2, <2>3, <3>1, InsertEffect
  <2> QED
    BY <2>1, <2>3 DEF Next, Tick, CreateAuthCode, Handle, BeginCodeGrant, ConsumeAuthCode,
       ConsumeFindsNothing, RevokeFamilyByCode, BeginRefreshGrant, PreRead, RotateRefreshToken,
       RotateFindsNothing, RevokeFamilyOnReuse, BeginLogout, LogoutFamily, LogoutToken,
       StatementFails, ConsumeUnanswered, RotateUnanswered, RevokeRefreshFamily, Begin, vars, store
<1>2. \A t \in revoked' : t \in TokenIds /\ (t \in revoked \/ tokens[t].kind # "none")
  <2>1. \A k : k \in delivered \cup {None} =>
           \A t \in Family(k) : t \in TokenIds /\ tokens[t].kind # "none"
    BY DEF Family, Unused, FamilyInv, TypeOK
  <2>2. \A c : \A t \in RowsOfCode(c) : t \in TokenIds /\ tokens[t].kind # "none"
    BY DEF RowsOfCode, CodeInv
  <2>3. revoked \subseteq TokenIds BY DEF TypeOK
  <2>4. CASE UNCHANGED revoked
    BY <2>3, <2>4
  <2>5. ASSUME NEW r \in Requests, RevokeFamilyByCode(r)
        PROVE  \A t \in revoked' : t \in TokenIds /\ (t \in revoked \/ tokens[t].kind # "none")
    BY <2>2, <2>3, <2>5 DEF RevokeFamilyByCode
  <2>6. ASSUME NEW r \in Requests, RotateRefreshToken(r) \/ RotateUnanswered(r)
        PROVE  \A t \in revoked' : t \in TokenIds /\ (t \in revoked \/ tokens[t].kind # "none")
    BY <2>3, <2>6 DEF RotateRefreshToken, RotateUnanswered, Rotatable, IsKind
  <2>7. ASSUME NEW r \in Requests, RevokeFamilyOnReuse(r) \/ LogoutFamily(r)
        PROVE  \A t \in revoked' : t \in TokenIds /\ (t \in revoked \/ tokens[t].kind # "none")
    BY <2>1, <2>3, <2>7 DEF RevokeFamilyOnReuse, LogoutFamily, RevokeRefreshFamily, KeysInv
  <2>8. ASSUME NEW r \in Requests, LogoutToken(r)
        PROVE  \A t \in revoked' : t \in TokenIds /\ (t \in revoked \/ tokens[t].kind # "none")
    BY <2>3, <2>8 DEF LogoutToken, Unused
  <2> QED
    BY <2>4, <2>5, <2>6, <2>7, <2>8
       DEF Next, Tick, CreateAuthCode, Handle, BeginCodeGrant, ConsumeAuthCode,
       ConsumeFindsNothing, BeginRefreshGrant, PreRead, RotateFindsNothing, BeginLogout,
       InsertRefresh, InsertAccess, InsertUnanswered,
       StatementFails, ConsumeUnanswered, Begin, vars, store
<1> QED BY <1>1, <1>2 DEF RevokedRowsExist

-------------------------------------------------------------------------------
\* The insert of the refresh row passes the right on; that of the access row does not
\* concern it.
LEMMA InsertStep ==
  ASSUME Inv3, Inv3', NEW r \in Requests, InsertRefresh(r) \/ InsertAccess(r) \/ InsertUnanswered(r)
  PROVE  Abstract!Next \/ UNCHANGED Abstract!vars
<1>0. Inv1 /\ Inv1' BY DEF Inv3, Inv2
<1>1. PICK x \in TokenIds, row \in TokenRow : InsertsRow(r, x, row)
  <2>1. Drawn \in TokenIds
    BY DrawnIsUnused DEF InsertRefresh, InsertAccess, InsertUnanswered
  <2> QED BY <1>0, <2>1, InsertEffect DEF Inv1
<1>2. /\ row.grant = mint[r].grant /\ row.kind \in {"access", "refresh"}
      /\ pc[r] = IF row.kind = "refresh" THEN "insertRefresh" ELSE "insertAccess"
      /\ tokens[x].kind = "none"
  BY <1>1 DEF InsertsRow, RefreshRow, AccessRow, Unused
<1>3. /\ tokens'[x] = row /\ \A t \in TokenIds \ {x} : tokens'[t] = tokens[t]
      /\ UNCHANGED <<codes, consumed, revoked>>
      /\ \A s \in Requests \ {r} : pc'[s] = pc[s] /\ mint'[s] = mint[s]
      /\ pc'[r] # "insertRefresh"
  BY <1>0, <1>1 DEF InsertsRow, Inv1, TypeOK
<1>4. CASE row.kind = "access"
  <2>1. \A d \in Codes : Undisturbed(d)
    BY <1>2, <1>3, <1>4 DEF Undisturbed, IsCode, LiveRefresh, HoldsRight
  <2>2. \A d \in Codes : RightOf(d)' = RightOf(d) BY <1>0, <2>1, UndisturbedStays
  <2>3. \A t \in TokenIds : tokens'[t].kind = "refresh" <=> tokens[t].kind = "refresh"
    BY <1>2, <1>3, <1>4
  <2> QED BY <2>2, <2>3 DEF Abstract!vars
<1>5. CASE row.kind = "refresh"
  <2>1. PICK c \in Codes : c = mint[r].grant /\ c \in consumed
    BY <1>0, <1>2, <1>5 DEF Inv1, TypeOK, GrantInv, Minting
  <2>2. x \notin revoked
    BY <1>2 DEF Inv3, RevokedRowsExist
  <2>3. Place(c, "request") BY <1>2, <1>5, <2>1 DEF Place, HoldsRight
  <2>4. Place(c, x)' BY <1>2, <1>3, <1>5, <2>1, <2>2 DEF Place, LiveRefresh
  <2>5. \A d \in Codes \ {c} : Undisturbed(d)
    BY <1>2, <1>3, <1>5, <2>1 DEF Undisturbed, IsCode, LiveRefresh, HoldsRight
  <2>6. Abstract!Move(c, "request", x) BY <1>0, <2>3, <2>4, <2>5, RightMoves
  <2>7. /\ x \notin { t \in TokenIds : tokens[t].kind = "refresh" }
        /\ { t \in TokenIds : tokens'[t].kind = "refresh" }
           = { t \in TokenIds : tokens[t].kind = "refresh" } \cup {x}
    BY <1>2, <1>3, <1>5
  <2>8. Abstract!Issue(c, x) BY <2>6, <2>7 DEF Abstract!Issue
  <2> QED BY <2>8 DEF Abstract!Next
<1> QED BY <1>2, <1>4, <1>5

\* A request that fails before its insert gives the right up; any other failure leaves
\* the rights where they are.
LEMMA FailStep ==
  ASSUME Inv1, Inv1', NEW r \in Requests, StatementFails(r)
  PROVE  Abstract!Next \/ UNCHANGED Abstract!vars
<1>0. UNCHANGED store BY DEF StatementFails
<1>1. CASE pc[r] = "insertRefresh"
  <2>1. Finish(r) BY <1>1 DEF StatementFails
  <2>2. PICK c \in Codes : c = mint[r].grant /\ c \in consumed
    BY <1>1 DEF Inv1, TypeOK, GrantInv, Minting
  <2>3. /\ pc'[r] # "insertRefresh"
        /\ \A s \in Requests \ {r} : pc'[s] = pc[s] /\ mint'[s] = mint[s]
    BY <2>1 DEF Inv1, TypeOK, HandlersTypeOK, Finish
  <2>4. \A s \in Requests : HoldsRight(s, c) <=> s = r
    BY <1>1, <2>2 DEF Inv1, GrantInv, HoldsRight
  <2>5. \A t \in TokenIds : LiveRefresh(t) => tokens[t].grant # c
    BY <1>1, <2>2 DEF Inv1, GrantInv
  <2>6. Place(c, "request") BY <2>2, <2>4 DEF Place
  <2>7. Place(c, "gone")' BY <1>0, <2>2, <2>3, <2>4, <2>5 DEF Place, store, LiveRefresh, HoldsRight
  <2>8. \A d \in Codes \ {c} : Undisturbed(d)
    BY <1>0, <2>2, <2>3 DEF store, Undisturbed, IsCode, LiveRefresh, HoldsRight
  <2>9. Abstract!Move(c, "request", "gone") BY <2>6, <2>7, <2>8, RightMoves
  <2>10. Abstract!Abandon(c) BY <1>0, <2>9 DEF Abstract!Abandon, store
  <2> QED BY <2>10 DEF Abstract!Next
<1>2. CASE pc[r] # "insertRefresh"
  <2>1. SameHolders
    BY <1>2, FinishHolders, ContinueHolders DEF StatementFails, Inv1
  <2> QED BY <1>0, <2>1, StillStep
<1> QED BY <1>1, <1>2

\* The statements that revoke, and what they revoke.
LEMMA RevokerStep ==
  ASSUME Inv3, Inv3', NEW r \in Requests,
         \/ RevokeFamilyByCode(r) \/ RevokeFamilyOnReuse(r) \/ LogoutFamily(r) \/ LogoutToken(r)
         \/ RotateUnanswered(r)
         \/ RotateRefreshToken(r) /\ ~SameClient(req[r], tokens[req[r].key])
  PROVE  Abstract!Next \/ UNCHANGED Abstract!vars
<1> USE DEF Inv3, Inv2
<1>1. TypeOK BY DEF Inv1
<1>2. UNCHANGED <<codes, consumed, tokens>> /\ revoked \subseteq revoked'
  BY DEF RevokeFamilyByCode, RevokeFamilyOnReuse, LogoutFamily, LogoutToken, RotateUnanswered,
         RotateRefreshToken, RevokeRefreshFamily
<1>3. SameHolders
  <2>1. pc[r] # "insertRefresh"
    BY DEF RevokeFamilyByCode, RevokeFamilyOnReuse, LogoutFamily, LogoutToken, RotateUnanswered,
           RotateRefreshToken
  <2>2. Finish(r) \/ Continue(r, "logoutToken") \/ Continue(r, "revokeFamily")
    BY DEF RevokeFamilyByCode, RevokeFamilyOnReuse, LogoutFamily, LogoutToken, RotateUnanswered,
           RotateRefreshToken
  <2> QED BY <1>1, <2>1, <2>2, FinishHolders, ContinueHolders
<1>4. \A t, u \in TokenIds : LiveRefresh(t) /\ LiveRefresh(u) /\ {t, u} \subseteq revoked' => t = u
  <2>1. CASE RevokeFamilyByCode(r)
    <3>1. revoked' = revoked \cup RowsOfCode(req[r].key) BY <2>1 DEF RevokeFamilyByCode
    <3> QED BY <3>1 DEF RowsOfCode, LiveRefresh, CodeInv, CodeSpentOnce
  <2>2. CASE ~RevokeFamilyByCode(r)
    <3>1. revoked' \subseteq revoked \cup Family(req[r].key) \cup {req[r].key}
      BY <2>2 DEF RevokeFamilyOnReuse, LogoutFamily, LogoutToken, RotateUnanswered,
                  RotateRefreshToken, RevokeRefreshFamily
    <3>2. \A t \in Family(req[r].key) : tokens[t].kind = "refresh" => t = req[r].key
      BY NoneIsNoKey DEF Family, FamilyInv
    <3> QED BY <3>1, <3>2 DEF LiveRefresh
  <2> QED BY <2>1, <2>2
<1> QED BY <1>2, <1>3, <1>4, RevokingStep

\* Every step is a step of RefreshRight or a stutter.
LEMMA RightStep == Inv3 /\ Inv3' /\ [Next]_vars => [Abstract!Next]_(Abstract!vars)
<1> SUFFICES ASSUME Inv3, Inv3', [Next]_vars PROVE Abstract!Next \/ UNCHANGED Abstract!vars
  OBVIOUS
<1>0. Inv1 /\ Inv1' /\ TypeOK BY DEF Inv3, Inv2, Inv1
<1>1. CASE Tick \/ UNCHANGED vars
  <2>1. UNCHANGED store /\ UNCHANGED <<pc, mint>> BY <1>1 DEF Tick, vars, handlers
  <2>2. SameHolders BY <2>1 DEF SameHolders, HoldsRight
  <2> QED BY <1>0, <2>1, <2>2, StillStep
<1>2. ASSUME NEW c \in Codes, CreateAuthCode(c) PROVE Abstract!Next
  BY <1>0, <1>2, ApproveStep
<1>3. ASSUME NEW r \in Requests, Handle(r) PROVE Abstract!Next \/ UNCHANGED Abstract!vars
  <2>1. CASE BeginCodeGrant(r) \/ BeginRefreshGrant(r) \/ BeginLogout(r)
    <3>1. PICK step \in Steps \ {"insertRefresh"}, q \in {req'[r]} : Begin(r, step, q)
      BY <1>0, <2>1 DEF BeginCodeGrant, BeginRefreshGrant, BeginLogout, Begin, Steps, TypeOK,
         HandlersTypeOK
    <3>2. UNCHANGED store /\ SameHolders BY <1>0, <3>1, BeginHolders DEF Begin
    <3> QED BY <1>0, <3>2, StillStep
  <2>2. CASE ConsumeFindsNothing(r) \/ PreRead(r) \/ RotateFindsNothing(r)
    <3>1. UNCHANGED store /\ pc[r] # "insertRefresh"
      BY <2>2 DEF ConsumeFindsNothing, PreRead, RotateFindsNothing
    <3>2. Finish(r) \/ \E step \in Steps \ {"insertRefresh"} : Continue(r, step)
      BY <2>2 DEF ConsumeFindsNothing, PreRead, RotateFindsNothing, Steps
    <3>3. SameHolders BY <1>0, <3>1, <3>2, FinishHolders, ContinueHolders
    <3> QED BY <1>0, <3>1, <3>3, StillStep
  <2>3. CASE ConsumeAuthCode(r) \/ ConsumeUnanswered(r)
    BY <1>0, <2>3, RedeemStep
  <2>4. CASE RotateRefreshToken(r)
    <3>1. CASE SameClient(req[r], tokens[req[r].key])
      <4>1. StartsRotation(r)
        <5>1. StartMint(r, tokens[req[r].key].user, None, tokens[req[r].key].grant)
          BY <2>4, <3>1 DEF RotateRefreshToken
        <5> QED BY <2>4, <3>1, <5>1 DEF StartsRotation
      <4> QED BY <1>0, <4>1, RotationStep
    <3> QED BY <2>4, <3>1, RevokerStep
  <2>5. CASE RevokeFamilyByCode(r) \/ RevokeFamilyOnReuse(r) \/ LogoutFamily(r)
             \/ LogoutToken(r) \/ RotateUnanswered(r)
    BY <2>5, RevokerStep
  <2>6. CASE InsertRefresh(r) \/ InsertAccess(r) \/ InsertUnanswered(r)
    BY <2>6, InsertStep
  <2>7. CASE StatementFails(r)
    BY <1>0, <2>7, FailStep
  <2> QED BY <1>3, <2>1, <2>2, <2>3, <2>4, <2>5, <2>6, <2>7 DEF Handle
<1> QED BY <1>1, <1>2, <1>3 DEF Next

\* No right exists in the beginning.
LEMMA RightInit == Init => Abstract!Init
  BY DEF Init, Abstract!Init, RightOf, IsCode, NoCodeRow, NoTokenRow

\* Tables, requests in flight and their failures together implement RefreshRight: an
\* approval gives one right to a refresh token, which one code, one request or one live
\* token holds at a time, and which never comes back once it is gone.
THEOREM OneRightPerApproval == Spec => ImplementsRefreshRight
  BY InitInv3, NextInv3, RightInit, RightStep, PTL DEF Spec, ImplementsRefreshRight, Abstract!Spec
===============================================================================
