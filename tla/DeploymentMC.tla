----------------------------- MODULE DeploymentMC -----------------------------
(* An instance of Deployment for TLC: a replica of an old release and two of a *)
(* new one, two registrations, and three addresses for the limiter.            *)
EXTENDS Deployment

CONSTANTS old, new1, new2

Releases == old :> 1 @@ new1 :> 2 @@ new2 :> 2

Good == [ organizzeKey |-> FALSE, databaseURL |-> TRUE, publicURL |-> TRUE,
          encryptionKey |-> 32, cookieSecret |-> 32 ]

GoodAndBad == { Good, [Good EXCEPT !.encryptionKey = 31], [Good EXCEPT !.organizzeKey = TRUE] }

Registration == [ post |-> TRUE, passes |-> TRUE, json |-> TRUE, redirects |-> {"https"} ]

TwoRequests == { Registration, [Registration EXCEPT !.redirects = {"https", "http"}] }
===============================================================================
