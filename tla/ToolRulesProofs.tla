---------------------------- MODULE ToolRulesProofs ---------------------------
(***************************************************************************)
(* Theorems about ToolRules for all arguments of all tools.                *)
(*                                                                         *)
(* The tables are looked up first: which record has a tool, and which      *)
(* fields the tools with checks have.                                      *)
(***************************************************************************)
EXTENDS ToolRules, TLAPS

\* An entry is that of the only record that has it.
LEMMA EntryIs ==
  ASSUME NEW R, NEW r \in R, NEW x \in DOMAIN r, \A q \in R : x \in DOMAIN q => q = r
  PROVE  Entry(R, x) = r[x]
  BY DEF Entry

\* No tool is in two groups of handlers.
LEMMA InputsApart ==
  ASSUME NEW r \in AllInputs, NEW q \in AllInputs, NEW tool \in DOMAIN r, tool \in DOMAIN q
  PROVE  q = r
<1> USE DEF AccountInputs, CategoryInputs, CreditCardInputs, TransferInputs,
        InvoiceInputs, BudgetInputs, UserInputs, TransactionInputs
<1>1. CASE r = AccountInputs BY <1>1 DEF AllInputs
<1>2. CASE r = CategoryInputs BY <1>2 DEF AllInputs
<1>3. CASE r = CreditCardInputs BY <1>3 DEF AllInputs
<1>4. CASE r = TransferInputs BY <1>4 DEF AllInputs
<1>5. CASE r = InvoiceInputs BY <1>5 DEF AllInputs
<1>6. CASE r = BudgetInputs BY <1>6 DEF AllInputs
<1>7. CASE r = UserInputs BY <1>7 DEF AllInputs
<1>8. CASE r = TransactionInputs BY <1>8 DEF AllInputs
<1> QED
  <2> HIDE DEF AccountInputs, CategoryInputs, CreditCardInputs, TransferInputs,
               InvoiceInputs, BudgetInputs, UserInputs, TransactionInputs
  <2> QED BY <1>1, <1>2, <1>3, <1>4, <1>5, <1>6, <1>7, <1>8 DEF AllInputs

\* The inputs of a tool are those of its group.
LEMMA InputsOf ==
  ASSUME NEW r \in AllInputs, NEW tool \in DOMAIN r
  PROVE  tool \in Tools /\ Inputs[tool] = r[tool]
<1>1. tool \in Tools BY DEF Tools
<1>2. Entry(AllInputs, tool) = r[tool] BY EntryIs, InputsApart
<1> QED BY <1>1, <1>2 DEF Inputs

\* No tool is in two groups of the repositories.
LEMMA MethodsApart ==
  ASSUME NEW r \in AllMethods, NEW q \in AllMethods, NEW tool \in DOMAIN r, tool \in DOMAIN q
  PROVE  q = r
<1> USE DEF AccountMethods, CategoryMethods, CreditCardMethods, TransferMethods,
        InvoiceMethods, BudgetMethods, UserMethods, TransactionMethods
<1>1. CASE r = AccountMethods BY <1>1 DEF AllMethods
<1>2. CASE r = CategoryMethods BY <1>2 DEF AllMethods
<1>3. CASE r = CreditCardMethods BY <1>3 DEF AllMethods
<1>4. CASE r = TransferMethods BY <1>4 DEF AllMethods
<1>5. CASE r = InvoiceMethods BY <1>5 DEF AllMethods
<1>6. CASE r = BudgetMethods BY <1>6 DEF AllMethods
<1>7. CASE r = UserMethods BY <1>7 DEF AllMethods
<1>8. CASE r = TransactionMethods BY <1>8 DEF AllMethods
<1> QED
  <2> HIDE DEF AccountMethods, CategoryMethods, CreditCardMethods, TransferMethods,
               InvoiceMethods, BudgetMethods, UserMethods, TransactionMethods
  <2> QED BY <1>1, <1>2, <1>3, <1>4, <1>5, <1>6, <1>7, <1>8 DEF AllMethods

\* The method of a tool is that of its group.
LEMMA MethodsOf ==
  ASSUME NEW r \in AllMethods, NEW tool \in DOMAIN r, tool \in Tools
  PROVE  Methods[tool] = r[tool]
<1>2. Entry(AllMethods, tool) = r[tool] BY EntryIs, MethodsApart
<1> QED BY <1>2 DEF Methods

UpdateTools ==
    {"update_account", "update_category", "update_credit_card", "update_transfer",
     "update_transaction"}

\* The tools that send a PUT.
LEMMA Updates ==
  ASSUME NEW tool \in Tools, Methods[tool] = "PUT"
  PROVE  tool \in UpdateTools
<1>1. PICK r \in AllInputs : tool \in DOMAIN r BY DEF Tools
<1>2. PICK q \in AllMethods : tool \in DOMAIN q
  <2>1. CASE r = AccountInputs
    BY <1>1, <2>1 DEF AccountInputs, AccountMethods, AllMethods
  <2>2. CASE r = CategoryInputs
    BY <1>1, <2>2 DEF CategoryInputs, CategoryMethods, AllMethods
  <2>3. CASE r = CreditCardInputs
    BY <1>1, <2>3 DEF CreditCardInputs, CreditCardMethods, AllMethods
  <2>4. CASE r = TransferInputs
    BY <1>1, <2>4 DEF TransferInputs, TransferMethods, AllMethods
  <2>5. CASE r = InvoiceInputs
    BY <1>1, <2>5 DEF InvoiceInputs, InvoiceMethods, AllMethods
  <2>6. CASE r = BudgetInputs
    BY <1>1, <2>6 DEF BudgetInputs, BudgetMethods, AllMethods
  <2>7. CASE r = UserInputs
    BY <1>1, <2>7 DEF UserInputs, UserMethods, AllMethods
  <2>8. CASE r = TransactionInputs
    BY <1>1, <2>8 DEF TransactionInputs, TransactionMethods, AllMethods
  <2> QED BY <1>1, <2>1, <2>2, <2>3, <2>4, <2>5, <2>6, <2>7, <2>8 DEF AllInputs
<1>3. q[tool] = "PUT" BY <1>2, MethodsOf
<1> QED
  BY <1>2, <1>3 DEF AllMethods, UpdateTools, AccountMethods, CategoryMethods, CreditCardMethods,
      TransferMethods, InvoiceMethods, BudgetMethods, UserMethods, TransactionMethods

\* An update has pointers and lists only, and nothing that its body always has.
LEMMA UpdateInputs ==
  ASSUME NEW tool \in UpdateTools
  PROVE  /\ Inputs[tool].value = {}
         /\ \A f \in Inputs[tool].list : f \notin Inputs[tool].pointer
         /\ tool \in Tools => Always[tool] = {}
<1>0. /\ AccountInputs \in AllInputs /\ CategoryInputs \in AllInputs /\ CreditCardInputs \in AllInputs
      /\ TransferInputs \in AllInputs /\ TransactionInputs \in AllInputs
  BY DEF AllInputs
<1>1. ASSUME tool \in Tools PROVE Always[tool] = {}
  BY <1>1 DEF Always, AllAlways, UpdateTools, AccountAlways, CategoryAlways, CreditCardAlways,
              TransferAlways, TransactionAlways
<1>2. CASE tool = "update_account"
  <2>1. /\ tool \in DOMAIN AccountInputs
        /\ AccountInputs[tool].value = {} /\ AccountInputs[tool].list = {}
    BY <1>2 DEF AccountInputs, Args
  <2> QED BY <1>0, <1>1, <2>1, InputsOf
<1>3. CASE tool = "update_category"
  <2>1. /\ tool \in DOMAIN CategoryInputs
        /\ CategoryInputs[tool].value = {} /\ CategoryInputs[tool].list = {}
    BY <1>3 DEF CategoryInputs, Args
  <2> QED BY <1>0, <1>1, <2>1, InputsOf
<1>4. CASE tool = "update_credit_card"
  <2>1. /\ tool \in DOMAIN CreditCardInputs
        /\ CreditCardInputs[tool].value = {} /\ CreditCardInputs[tool].list = {}
    BY <1>4 DEF CreditCardInputs, Args
  <2> QED BY <1>0, <1>1, <2>1, InputsOf
<1>5. CASE tool = "update_transfer"
  <2>1. /\ tool \in DOMAIN TransferInputs /\ TransferInputs[tool].value = {}
        /\ TransferInputs[tool].list = {"tags"} /\ "tags" \notin TransferInputs[tool].pointer
    BY <1>5 DEF TransferInputs, Args
  <2> QED BY <1>0, <1>1, <2>1, InputsOf
<1>6. CASE tool = "update_transaction"
  <2>1. /\ tool \in DOMAIN TransactionInputs /\ TransactionInputs[tool].value = {}
        /\ TransactionInputs[tool].list = {"tags"} /\ "tags" \notin TransactionInputs[tool].pointer
    BY <1>6 DEF TransactionInputs, Args
  <2> QED BY <1>0, <1>1, <2>1, InputsOf
<1> QED BY <1>2, <1>3, <1>4, <1>5, <1>6 DEF UpdateTools

\* What is left of the arguments of an update when the omitted ones are gone.
LEMMA UpdateSays ==
  ASSUME NEW tool \in Tools, Methods[tool] = "PUT", NEW a \in [Fields(tool) -> Values]
  PROVE  SaysWhatIsGiven(tool, a, Says(tool, a))
<1> DEFINE p == Decoded(tool, a)
           given == { f \in Fields(tool) : a[f] # "absent" }
           empty == { f \in Inputs[tool].list : a[f] = "zero" }
<1>1. /\ Inputs[tool].value = {}
      /\ \A f \in Inputs[tool].list : f \notin Inputs[tool].pointer
      /\ Always[tool] = {}
  BY Updates, UpdateInputs
<1>2. Fields(tool) = Inputs[tool].pointer \cup Inputs[tool].list BY <1>1 DEF Fields
<1>3. \A f \in Fields(tool) : p[f] = IF a[f] # "absent" THEN a[f] ELSE "nil" BY <1>1 DEF Decoded
<1>4. \A f \in Fields(tool) : a[f] # "nil" BY DEF Values, Given
<1>5. \A f \in Fields(tool) : ~Omitted(tool, f, p[f]) <=> f \in given \ empty
  BY <1>1, <1>2, <1>3, <1>4 DEF Omitted
<1>6. { f \in Fields(tool) : ~Omitted(tool, f, p[f]) } = given \ empty BY <1>2, <1>5
<1>7. \A f \in given \ empty : p[f] = a[f] BY <1>3
<1>8. Says(tool, a) = [ f \in given \ empty |-> p[f] ] BY <1>6 DEF Says
<1>9. Says(tool, a) = [ f \in given \ empty |-> a[f] ] BY <1>7, <1>8
<1>10. DOMAIN Says(tool, a) = given \ empty /\ \A f \in DOMAIN Says(tool, a) : Says(tool, a)[f] = a[f]
  BY <1>9
<1> QED BY <1>10 DEF SaysWhatIsGiven
-------------------------------------------------------------------------------
\* Which tools have the fields with rules, and how.
LEMMA WhoHas ==
  ASSUME NEW tool \in Tools
  PROVE  /\ {"credit_card_id", "credit_card_invoice_id"} \cap Fields(tool) # {} =>
              tool \in {"create_transaction", "update_transaction"}
         /\ {"recurrence", "installments"} \cap Fields(tool) # {} => tool = "create_transaction"
         /\ "month" \in Fields(tool) => tool = "list_budgets"
         /\ {"due_day", "closing_day"} \cap Fields(tool) # {} =>
              tool \in {"create_credit_card", "update_credit_card"}
<1>1. PICK r \in AllInputs : tool \in DOMAIN r BY DEF Tools
<1>2. Fields(tool) = r[tool].value \cup r[tool].pointer \cup r[tool].list
  BY <1>1, InputsOf DEF Fields
<1> USE DEF Args, NoArgs
<1>3. CASE r = AccountInputs BY <1>1, <1>2, <1>3 DEF AccountInputs
<1>4. CASE r = CategoryInputs BY <1>1, <1>2, <1>4 DEF CategoryInputs
<1>5. CASE r = CreditCardInputs BY <1>1, <1>2, <1>5 DEF CreditCardInputs
<1>6. CASE r = TransferInputs BY <1>1, <1>2, <1>6 DEF TransferInputs
<1>7. CASE r = InvoiceInputs BY <1>1, <1>2, <1>7 DEF InvoiceInputs
<1>8. CASE r = BudgetInputs BY <1>1, <1>2, <1>8 DEF BudgetInputs
<1>9. CASE r = UserInputs BY <1>1, <1>2, <1>9 DEF UserInputs
<1>10. CASE r = TransactionInputs BY <1>1, <1>2, <1>10 DEF TransactionInputs
<1> QED BY <1>3, <1>4, <1>5, <1>6, <1>7, <1>8, <1>9, <1>10 DEF AllInputs

\* The fields with rules of each of the tools that have checks on them.
LEMMA CreateInputs ==
    LET i == Inputs["create_transaction"] IN
    /\ "create_transaction" \in Tools
    /\ {"account_id", "description"} \subseteq i.value
    /\ {"credit_card_id", "credit_card_invoice_id", "recurrence", "installments"} \subseteq i.pointer
    /\ i.pointer \cap i.value = {} /\ i.pointer \cap i.list = {}
    /\ "account_id" \notin Always["create_transaction"]
<1>1. /\ TransactionInputs \in AllInputs /\ "create_transaction" \in DOMAIN TransactionInputs
  BY DEF AllInputs, TransactionInputs
<1>2. /\ "create_transaction" \in Tools
      /\ Inputs["create_transaction"] = TransactionInputs["create_transaction"]
  BY <1>1, InputsOf
<1>3. "account_id" \notin Always["create_transaction"]
  BY <1>2 DEF Always, AllAlways, AccountAlways, CategoryAlways, CreditCardAlways, TransferAlways,
              TransactionAlways
<1> QED BY <1>2, <1>3 DEF TransactionInputs, Args

LEMMA UpdateTransactionInputs ==
    LET i == Inputs["update_transaction"] IN
    /\ "update_transaction" \in Tools
    /\ {"account_id", "credit_card_id", "credit_card_invoice_id"} \subseteq i.pointer
    /\ i.pointer \cap i.value = {}
<1>1. /\ TransactionInputs \in AllInputs /\ "update_transaction" \in DOMAIN TransactionInputs
  BY DEF AllInputs, TransactionInputs
<1>2. /\ "update_transaction" \in Tools
      /\ Inputs["update_transaction"] = TransactionInputs["update_transaction"]
  BY <1>1, InputsOf
<1> QED BY <1>2 DEF TransactionInputs, Args

LEMMA DeleteInputs ==
    LET i == Inputs["delete_transaction"] IN
    /\ i.value = {} /\ i.pointer = {"update_future", "update_all"}
<1>1. /\ TransactionInputs \in AllInputs /\ "delete_transaction" \in DOMAIN TransactionInputs
  BY DEF AllInputs, TransactionInputs
<1>2. Inputs["delete_transaction"] = TransactionInputs["delete_transaction"]
  BY <1>1, InputsOf
<1> QED BY <1>2 DEF TransactionInputs, Args

LEMMA CreateCardInputs == {"due_day", "closing_day"} \subseteq Inputs["create_credit_card"].value
<1>1. /\ CreditCardInputs \in AllInputs /\ "create_credit_card" \in DOMAIN CreditCardInputs
  BY DEF AllInputs, CreditCardInputs
<1>2. Inputs["create_credit_card"] = CreditCardInputs["create_credit_card"]
  BY <1>1, InputsOf
<1> QED BY <1>2 DEF CreditCardInputs, Args

LEMMA ListBudgetsInputs ==
    /\ "list_budgets" \in Tools
    /\ Inputs["list_budgets"].value = {"year", "month"} /\ Inputs["list_budgets"].pointer = {}
    /\ Always["list_budgets"] = {}
<1>1. /\ BudgetInputs \in AllInputs /\ "list_budgets" \in DOMAIN BudgetInputs
  BY DEF AllInputs, BudgetInputs
<1>2. "list_budgets" \in Tools /\ Inputs["list_budgets"] = BudgetInputs["list_budgets"]
  BY <1>1, InputsOf
<1>3. Always["list_budgets"] = {}
  BY <1>2 DEF Always, AllAlways, AccountAlways, CategoryAlways, CreditCardAlways, TransferAlways,
              TransactionAlways
<1> QED BY <1>2, <1>3 DEF BudgetInputs, Args

\* What a request says of a field, by the way it came.
LEMMA Said ==
  ASSUME NEW tool, NEW a, NEW f \in Fields(tool), a[f] \in Values
  PROVE  LET p == Decoded(tool, a)
             b == Says(tool, a) IN
         /\ DOMAIN b \subseteq Fields(tool)
         /\ f \in DOMAIN b <=> ~Omitted(tool, f, p[f])
         /\ f \in DOMAIN b => b[f] = p[f]
         /\ p[f] \in Given \cup {"nil"}
         /\ f \in Inputs[tool].value => p[f] # "nil"
  BY DEF Says, Decoded, Values, Given, Fields

\* What each of these tools says when its checks accept the arguments.
LEMMA CreateSays ==
  ASSUME NEW a, NEW tool, tool = "create_transaction",
         a \in [Fields(tool) -> Values], Accepted(tool, a)
  PROVE  Unambiguous(tool, Says(tool, a))
<1> DEFINE p == Decoded(tool, a)
           b == Says(tool, a)
           F == {"account_id", "credit_card_id", "credit_card_invoice_id", "recurrence", "installments"}
<1>1. /\ ~RoutingErrorOnCreate(p) /\ ~ScheduleError(p) BY DEF Accepted, Rejects, CreateRejected
<1>2. \A f \in F : f \in Fields(tool) /\ a[f] \in Values BY CreateInputs DEF Fields
<1>3. /\ \A f \in F : /\ f \in DOMAIN b <=> ~Omitted(tool, f, p[f])
                      /\ f \in DOMAIN b => b[f] = p[f]
                      /\ p[f] \in Given \cup {"nil"}
      /\ DOMAIN b \subseteq Fields(tool)
  BY <1>2, Said
<1>4. p["account_id"] # "nil" BY <1>2, CreateInputs, Said
<1>5. \A f \in F \ {"account_id"} : f \in DOMAIN b <=> p[f] # "nil"
  BY <1>3, CreateInputs DEF Omitted
<1>6. "account_id" \in DOMAIN b <=> p["account_id"] # "zero"
  BY <1>3, <1>4, CreateInputs DEF Omitted
<1>7. \A f \in {"recurrence", "installments"} : f \in DOMAIN b => b[f] = "some"
  BY <1>1, <1>3, <1>5 DEF ScheduleError, Given
<1>8. \A f \in Ranged \cap DOMAIN b : f \in {"recurrence", "installments"}
  BY <1>3, WhoHas, CreateInputs DEF Ranged
<1>9. "month" \notin DOMAIN b BY <1>3, WhoHas, CreateInputs
<1> QED BY <1>1, <1>5, <1>6, <1>7, <1>8, <1>9
        DEF Unambiguous, Both, RoutingErrorOnCreate, ScheduleError

LEMMA UpdateTransactionSays ==
  ASSUME NEW a, NEW tool, tool = "update_transaction",
         a \in [Fields(tool) -> Values], Accepted(tool, a)
  PROVE  Unambiguous(tool, Says(tool, a))
<1> DEFINE p == Decoded(tool, a)
           b == Says(tool, a)
           F == {"account_id", "credit_card_id", "credit_card_invoice_id"}
<1>1. ~RoutingErrorOnUpdate(p) BY DEF Accepted, Rejects
<1>2. \A f \in F : f \in Fields(tool) /\ a[f] \in Values BY UpdateTransactionInputs DEF Fields
<1>3. /\ \A f \in F : f \in DOMAIN b <=> ~Omitted(tool, f, p[f])
      /\ DOMAIN b \subseteq Fields(tool)
  BY <1>2, Said
<1>4. \A f \in F : f \in DOMAIN b <=> p[f] # "nil"
  BY <1>3, UpdateTransactionInputs DEF Omitted
<1>5. Ranged \cap DOMAIN b = {} BY <1>3, WhoHas, UpdateTransactionInputs DEF Ranged
<1> QED BY <1>1, <1>4, <1>5 DEF Unambiguous, Both, RoutingErrorOnUpdate, Ranged

LEMMA DeleteSays ==
  ASSUME NEW a, NEW tool \in Tools, tool = "delete_transaction",
         a \in [Fields(tool) -> Values], Accepted(tool, a)
  PROVE  Unambiguous(tool, Says(tool, a))
<1> DEFINE p == Decoded(tool, a)
           b == Says(tool, a)
           F == {"update_future", "update_all"}
<1>1. ~DeleteRejected(p) BY DEF Accepted, Rejects
<1>2. \A f \in F : f \in Fields(tool) /\ a[f] \in Values BY DeleteInputs DEF Fields
<1>3. /\ \A f \in F : f \in DOMAIN b <=> ~Omitted(tool, f, p[f])
      /\ DOMAIN b \subseteq Fields(tool)
  BY <1>2, Said
<1>4. \A f \in F : f \in DOMAIN b => p[f] # "nil" BY <1>3 DEF Omitted
<1>5. Ranged \cap DOMAIN b = {} BY <1>3, WhoHas DEF Ranged
<1>6. {"credit_card_id", "credit_card_invoice_id"} \cap DOMAIN b = {} BY <1>3, WhoHas
<1> QED BY <1>1, <1>4, <1>5, <1>6 DEF Unambiguous, Both, DeleteRejected, Ranged

LEMMA CreateCardSays ==
  ASSUME NEW a, NEW tool \in Tools, tool = "create_credit_card",
         a \in [Fields(tool) -> Values], Accepted(tool, a)
  PROVE  Unambiguous(tool, Says(tool, a))
<1> DEFINE p == Decoded(tool, a)
           b == Says(tool, a)
           F == {"due_day", "closing_day"}
<1>1. p["due_day"] = "some" /\ p["closing_day"] = "some"
  BY DEF Accepted, Rejects, CreditCardRejects
<1>2. \A f \in F : f \in Fields(tool) /\ a[f] \in Values BY CreateCardInputs DEF Fields
<1>3. /\ \A f \in F : f \in DOMAIN b => b[f] = p[f]
      /\ DOMAIN b \subseteq Fields(tool)
  BY <1>2, Said
<1>4. Ranged \cap DOMAIN b \subseteq F BY <1>3, WhoHas DEF Ranged
<1>5. {"credit_card_id", "credit_card_invoice_id"} \cap DOMAIN b = {} BY <1>3, WhoHas
<1> QED BY <1>1, <1>3, <1>4, <1>5 DEF Unambiguous, Both, Ranged

LEMMA ListBudgetsSays ==
  ASSUME NEW a, NEW tool \in Tools, tool = "list_budgets",
         a \in [Fields(tool) -> Values], Accepted(tool, a)
  PROVE  Unambiguous(tool, Says(tool, a))
<1> DEFINE p == Decoded(tool, a)
           b == Says(tool, a)
           F == {"year", "month"}
<1>1. ~BudgetRejects(tool, p) BY DEF Accepted, Rejects
<1>2. \A f \in F : f \in Fields(tool) /\ a[f] \in Values BY ListBudgetsInputs DEF Fields
<1>3. /\ \A f \in F : /\ f \in DOMAIN b <=> ~Omitted(tool, f, p[f])
                      /\ f \in DOMAIN b => b[f] = p[f]
                      /\ p[f] \in Given
      /\ DOMAIN b \subseteq Fields(tool)
  BY <1>2, Said, ListBudgetsInputs
<1>4. \A f \in F : f \in DOMAIN b <=> p[f] # "zero"
  BY <1>3, ListBudgetsInputs DEF Omitted, Given
<1>5. Ranged \cap DOMAIN b \subseteq {"month"} BY <1>3, WhoHas DEF Ranged
<1>6. {"credit_card_id", "credit_card_invoice_id"} \cap DOMAIN b = {} BY <1>3, WhoHas
<1>7. "month" \in DOMAIN b => "year" \in DOMAIN b /\ b["month"] = "some"
  BY <1>1, <1>3, <1>4 DEF BudgetRejects, Given
<1> QED BY <1>5, <1>6, <1>7 DEF Unambiguous, Both, Ranged

\* The other tools have no field with rules, but for the days of a card update.
LEMMA OtherSays ==
  ASSUME NEW a, NEW tool \in Tools, DOMAIN a = Fields(tool),
         tool \notin {"create_transaction", "update_transaction", "delete_transaction",
                      "create_credit_card", "list_budgets"}
  PROVE  Unambiguous(tool, Says(tool, a))
<1> DEFINE b == Says(tool, a)
<1>1. DOMAIN b \subseteq Fields(tool) BY DEF Says
<1>2. {"credit_card_id", "credit_card_invoice_id", "recurrence", "installments", "month"}
      \cap DOMAIN b = {}
  BY <1>1, WhoHas
<1>3. tool # "update_credit_card" => Ranged \cap DOMAIN b = {} BY <1>1, <1>2, WhoHas DEF Ranged
<1> QED BY <1>2, <1>3 DEF Unambiguous, Both

\* usecase: no accepted call of a tool, whatever its arguments, leaves to Organizze which
\* of two fields counts, nor a card, a year or a destination out, nor names a schedule,
\* a day or a month that does not exist.
THEOREM AnyAcceptedCall ==
  ASSUME NEW tool \in Tools, NEW a \in [Fields(tool) -> Values], Accepted(tool, a)
  PROVE  Unambiguous(tool, Says(tool, a))
<1>1. DOMAIN a = Fields(tool) OBVIOUS
<1> QED BY <1>1, CreateSays, UpdateTransactionSays, DeleteSays, CreateCardSays,
           ListBudgetsSays, OtherSays

\* domain, executor.go: the body of an update, whatever its arguments, has the values
\* that were given, zero values too, and nothing else; nothing is said of empty lists.
THEOREM AnyUpdate ==
  ASSUME NEW tool \in Tools, Methods[tool] = "PUT", NEW a \in [Fields(tool) -> Values]
  PROVE  SaysWhatIsGiven(tool, a, Says(tool, a))
  BY UpdateSays
===============================================================================
