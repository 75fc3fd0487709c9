------------------------------- MODULE ToolRules ------------------------------
(***************************************************************************)
(* What the tools accept and what they send: from the arguments of a tool  *)
(* call (internal/adapter/mcp/tools_*.go) over the checks of the use cases *)
(* (internal/usecase) to the request of the repository                     *)
(* (internal/adapter/organizze) with the JSON that encoding/json makes of  *)
(* the parameters (internal/domain).                                       *)
(*                                                                         *)
(* The identifiers that go into the path and the fields of the answers are *)
(* left out.  A value is what the checks tell apart: "zero" is the zero    *)
(* value of its Go type (empty string, 0, false, empty list), "some" any   *)
(* other, "other" a value outside the range or list the field has.  A      *)
(* schedule (recurrence, installments) is "some" if its periodicity is     *)
(* one of the six and its total positive.  The items of the batch tools    *)
(* are those of the single ones.                                           *)
(***************************************************************************)

\* The entry of x in the one of the records that has it.
Entry(records, x) == (CHOOSE r \in records : x \in DOMAIN r)[x]

Given == {"zero", "some", "other"}
Values == Given \cup {"absent"}

\* The arguments of a tool by their Go types: plain values, pointers and slices.
Args(values, pointers, lists) == [ value |-> values, pointer |-> pointers, list |-> lists ]
NoArgs == Args({}, {}, {})
-------------------------------------------------------------------------------
(* The input structs, which the handlers copy field by field.              *)

AccountInputs ==
    [ list_accounts  |-> NoArgs,
      get_account    |-> NoArgs,
      create_account |-> Args({"name", "type", "description", "default"}, {}, {}),
      update_account |-> Args({}, {"name", "description", "default", "type", "archived"}, {}),
      delete_account |-> NoArgs ]

CategoryInputs ==
    [ list_categories |-> NoArgs,
      get_category    |-> NoArgs,
      create_category |-> Args({"name", "color"}, {"parent_id"}, {}),
      update_category |-> Args({}, {"name", "color", "parent_id"}, {}),
      delete_category |-> Args({}, {"replacement_id"}, {}) ]

CreditCardInputs ==
    [ list_credit_cards  |-> NoArgs,
      get_credit_card    |-> NoArgs,
      create_credit_card |-> Args({"name", "due_day", "closing_day", "card_network",
                                   "limit_cents", "description", "default"}, {}, {}),
      update_credit_card |-> Args({}, {"name", "due_day", "closing_day", "description",
                                       "update_invoices_since", "limit_cents", "card_network",
                                       "archived", "default"}, {}),
      delete_credit_card |-> NoArgs ]

TransferInputs ==
    [ list_transfers  |-> Args({"start_date", "end_date"}, {}, {}),
      get_transfer    |-> NoArgs,
      create_transfer |-> Args({"credit_account_id", "debit_account_id", "amount_cents",
                                "date", "paid"}, {}, {"tags"}),
      update_transfer |-> Args({}, {"description", "notes"}, {"tags"}),
      delete_transfer |-> NoArgs ]

InvoiceInputs ==
    [ list_credit_card_invoices       |-> Args({"start_date", "end_date"}, {}, {}),
      get_credit_card_invoice         |-> NoArgs,
      get_credit_card_invoice_payment |-> NoArgs ]

BudgetInputs == [ list_budgets |-> Args({"year", "month"}, {}, {}) ]

UserInputs == [ get_user |-> NoArgs ]

TransactionInputs ==
    [ list_transactions  |-> Args({"start_date", "end_date", "account_id"}, {}, {}),
      get_transaction    |-> NoArgs,
      create_transaction |-> Args({"description", "date", "amount_cents", "account_id",
                                   "category_id", "paid", "notes"},
                                  {"contact_id", "credit_card_id", "credit_card_invoice_id",
                                   "recurrence", "installments"}, {"tags"}),
      update_transaction |-> Args({}, {"description", "date", "amount_cents", "account_id",
                                       "category_id", "paid", "notes", "contact_id",
                                       "credit_card_id", "credit_card_invoice_id",
                                       "update_future", "update_all"}, {"tags"}),
      delete_transaction |-> Args({}, {"update_future", "update_all"}, {}) ]

AllInputs == { AccountInputs, CategoryInputs, CreditCardInputs, TransferInputs,
               InvoiceInputs, BudgetInputs, UserInputs, TransactionInputs }

Tools == UNION { DOMAIN inputs : inputs \in AllInputs }
Inputs == [tool \in Tools |-> Entry(AllInputs, tool)]
Fields(tool) == Inputs[tool].value \cup Inputs[tool].pointer \cup Inputs[tool].list
-------------------------------------------------------------------------------
(* The requests of the repositories.                                       *)

AccountMethods ==
    [ list_accounts |-> "GET", get_account |-> "GET", create_account |-> "POST",
      update_account |-> "PUT", delete_account |-> "DELETE" ]

CategoryMethods ==
    [ list_categories |-> "GET", get_category |-> "GET", create_category |-> "POST",
      update_category |-> "PUT", delete_category |-> "DELETE" ]

CreditCardMethods ==
    [ list_credit_cards |-> "GET", get_credit_card |-> "GET", create_credit_card |-> "POST",
      update_credit_card |-> "PUT", delete_credit_card |-> "DELETE" ]

TransferMethods ==
    [ list_transfers |-> "GET", get_transfer |-> "GET", create_transfer |-> "POST",
      update_transfer |-> "PUT", delete_transfer |-> "DELETE" ]

InvoiceMethods ==
    [ list_credit_card_invoices |-> "GET", get_credit_card_invoice |-> "GET",
      get_credit_card_invoice_payment |-> "GET" ]

BudgetMethods == [ list_budgets |-> "GET" ]

UserMethods == [ get_user |-> "GET" ]

TransactionMethods ==
    [ list_transactions |-> "GET", get_transaction |-> "GET", create_transaction |-> "POST",
      update_transaction |-> "PUT", delete_transaction |-> "DELETE" ]

AllMethods == { AccountMethods, CategoryMethods, CreditCardMethods, TransferMethods,
                InvoiceMethods, BudgetMethods, UserMethods, TransactionMethods }

Methods == [tool \in Tools |-> Entry(AllMethods, tool)]

Writes(tool) == Methods[tool] # "GET"

\* The parameters without omitempty, whose arguments the schema of the tool requires.
AccountAlways == [ create_account |-> {"name", "type"} ]
CategoryAlways == [ create_category |-> {"name"} ]
CreditCardAlways == [ create_credit_card |-> {"name", "due_day", "closing_day"} ]
TransferAlways ==
    [ create_transfer |-> {"credit_account_id", "debit_account_id", "amount_cents", "date", "paid"} ]
TransactionAlways ==
    [ create_transaction |-> {"description", "date", "amount_cents", "category_id", "paid"} ]

AllAlways == { AccountAlways, CategoryAlways, CreditCardAlways, TransferAlways, TransactionAlways }

Always == [tool \in Tools |-> UNION { r[tool] : r \in { r \in AllAlways : tool \in DOMAIN r } }]

\* An argument that is left out becomes the zero value, a nil pointer or a nil slice.
Decoded(tool, a) ==
    [ f \in Fields(tool) |-> IF a[f] # "absent" THEN a[f]
                             ELSE IF f \in Inputs[tool].value THEN "zero" ELSE "nil" ]

\* Faulty: as if the parameters of an update were values and not pointers.
OmittedIfZero(tool, f, v) == v = "nil" \/ (f \notin Always[tool] /\ v = "zero")

\* What omitempty leaves out of a body, and the repositories out of a query or path:
\* nil, a zero value and, of a slice, the empty one too.
Omitted(tool, f, v) ==
    \/ v = "nil"
    \/ /\ f \notin Always[tool] \cup Inputs[tool].pointer
       /\ v = "zero"

\* What a request says, in its body or, for a GET, in its query or path.
Says(tool, a) ==
    LET p == Decoded(tool, a) IN
    [ f \in { f \in Fields(tool) : ~Omitted(tool, f, p[f]) } |-> p[f] ]
-------------------------------------------------------------------------------
(* The checks of the use cases, on the decoded parameters.                 *)

AnyZero(p, fields) == \E f \in fields : p[f] = "zero"

AccountRejects(tool, p) == tool = "create_account" /\ AnyZero(p, {"name", "type"})

CategoryRejects(tool, p) == tool = "create_category" /\ AnyZero(p, {"name"})

\* A day is in 1..31; an update has no such check.
CreditCardRejects(tool, p) ==
    /\ tool = "create_credit_card"
    /\ p["name"] = "zero" \/ {p["due_day"], p["closing_day"]} # {"some"}

TransferRejects(tool, p) ==
    /\ tool = "create_transfer"
    /\ AnyZero(p, {"credit_account_id", "debit_account_id", "amount_cents", "date"})

BudgetRejects(tool, p) ==
    /\ tool = "list_budgets"
    /\ \/ p["month"] # "zero" /\ p["year"] = "zero"
       \/ p["month"] = "other"

\* validateCreateAccountRouting
RoutingErrorOnCreate(p) ==
    \/ p["account_id"] = "zero" /\ p["credit_card_id"] = "nil"
    \/ p["account_id"] # "zero" /\ p["credit_card_id"] # "nil"
    \/ p["credit_card_invoice_id"] # "nil" /\ p["credit_card_id"] = "nil"

\* validateCreateRecurrenceInstallmentsExclusive and the checks of each schedule.
ScheduleError(p) ==
    \/ p["recurrence"] # "nil" /\ p["installments"] # "nil"
    \/ {p["recurrence"], p["installments"]} \cap {"zero", "other"} # {}

\* Faulty: on an update, only the invoice is looked at.
OnlyInvoiceChecked(p) == p["credit_card_invoice_id"] # "nil" /\ p["credit_card_id"] = "nil"

\* validateUpdate
RoutingErrorOnUpdate(p) ==
    \/ p["account_id"] # "nil" /\ p["credit_card_id"] # "nil"
    \/ p["credit_card_invoice_id"] # "nil" /\ p["credit_card_id"] = "nil"

CreateRejected(p) ==
    \/ AnyZero(p, {"description", "date", "amount_cents", "category_id"})
    \/ RoutingErrorOnCreate(p)
    \/ ScheduleError(p)

DeleteRejected(p) == p["update_future"] # "nil" /\ p["update_all"] # "nil"

Rejects(tool, p) ==
    \/ AccountRejects(tool, p)
    \/ CategoryRejects(tool, p)
    \/ CreditCardRejects(tool, p)
    \/ TransferRejects(tool, p)
    \/ BudgetRejects(tool, p)
    \/ tool = "create_transaction" /\ CreateRejected(p)
    \/ tool = "update_transaction" /\ RoutingErrorOnUpdate(p)
    \/ tool = "delete_transaction" /\ DeleteRejected(p)

Accepted(tool, a) == ~Rejects(tool, Decoded(tool, a))
-------------------------------------------------------------------------------
(* What the checks and the bodies promise.                                 *)

\* The fields with a range or a schedule.
Ranged == {"due_day", "closing_day", "month", "recurrence", "installments"}

Both(b, f, g) == {f, g} \subseteq DOMAIN b

\* Not two destinations, two schedules or two scopes of a delete, an invoice with its
\* card and a month with its year, and schedules, days and months that exist.
Unambiguous(tool, b) ==
    /\ Writes(tool) =>
          /\ ~Both(b, "account_id", "credit_card_id")
          /\ "credit_card_invoice_id" \in DOMAIN b => "credit_card_id" \in DOMAIN b
          /\ ~Both(b, "recurrence", "installments")
    /\ tool = "delete_transaction" => ~Both(b, "update_future", "update_all")
    /\ tool = "create_transaction" => DOMAIN b \cap {"account_id", "credit_card_id"} # {}
    /\ "month" \in DOMAIN b => "year" \in DOMAIN b
    /\ tool # "update_credit_card" => \A f \in Ranged \cap DOMAIN b : b[f] = "some"

\* The body has what was given, a zero value too, and nothing else.  Whether it has a
\* list that was given and is empty is left open.
SaysWhatIsGiven(tool, a, b) ==
    LET given == { f \in Fields(tool) : a[f] # "absent" }
        empty == { f \in Inputs[tool].list : a[f] = "zero" } IN
    /\ given \ empty \subseteq DOMAIN b
    /\ DOMAIN b \subseteq given
    /\ \A f \in DOMAIN b : b[f] = a[f]
===============================================================================
