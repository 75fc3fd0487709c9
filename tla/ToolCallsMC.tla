------------------------------ MODULE ToolCallsMC -----------------------------
(* An instance of ToolCalls for TLC: two tokens, two calls, eight requests. *)
EXTENDS ToolCalls, TLC

CONSTANTS call1, call2, u1, u2, access1, refresh2

TwoTokens ==
    access1 :> [user |-> u1, kind |-> "access", expires |-> 0]
    @@ refresh2 :> [user |-> u2, kind |-> "refresh", expires |-> 1]

\* Telemetry on with the right token and with a wrong one, and off.
ThreeConfigs ==
    { [optOut |-> o, url |-> TRUE, token |-> t] : o \in {FALSE}, t \in {"right", "wrong"} }
    \cup { [optOut |-> TRUE, url |-> TRUE, token |-> "right"] }

\* The call of a tool with these arguments and no others.
CallOf(tool, given) ==
    [ tool |-> tool,
      args |-> [ f \in Fields(tool) |-> IF f \in DOMAIN given THEN given[f] ELSE "absent" ] ]

Create(given) ==
    CallOf("create_transaction",
           given @@ [ description |-> "some", date |-> "some", amount_cents |-> "some",
                      category_id |-> "some", paid |-> "zero" ])

\* Accepted: a new transaction on an account, and one that becomes unpaid and loses its
\* notes and tags.  Rejected: two destinations, an invoice without its card, two
\* schedules, two scopes, a month without its year.
SomeRequests ==
    { Create([ account_id |-> "some" ]),
      CallOf("update_transaction", [ paid |-> "zero", notes |-> "zero", tags |-> "zero" ]),
      Create([ account_id |-> "some", credit_card_id |-> "some" ]),
      CallOf("update_transaction", [ account_id |-> "some", credit_card_id |-> "some" ]),
      CallOf("update_transaction", [ credit_card_invoice_id |-> "some" ]),
      Create([ account_id |-> "some", recurrence |-> "some", installments |-> "some" ]),
      CallOf("delete_transaction", [ update_future |-> "some", update_all |-> "zero" ]),
      CallOf("list_budgets", [ month |-> "some" ]) }
===============================================================================
