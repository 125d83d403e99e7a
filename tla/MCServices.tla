---------------------------- MODULE MCServices ----------------------------
(***************************************************************************)
(* Instances of the services a request meets beside the object layer: the  *)
(* dynamic timeout, the server, the log and the users with their policies. *)
(* They do not interact: "instance" chooses the one that moves.  The log   *)
(* is checked with two subscribers of one entry and with two entries for   *)
(* one subscriber.                                                         *)
(***************************************************************************)
EXTENDS DynamicTimeout, HTTPServer, Logging, IAM

CONSTANTS FirstEntry, FirstSubscriber

ASSUME FirstEntry \in Entries /\ FirstSubscriber \in Subscribers

VARIABLE instance

LogStep ==
  \/ \E e \in Entries : (instance = "subscribers" => e = FirstEntry) /\ EntryStep(e)
  \/ \E s \in Subscribers : (instance = "entries" => s = FirstSubscriber) /\ SubscriberStep(s)
  \/ CleanupRoutine \/ HTTPPost

MCInit ==
  /\ TimeoutInit /\ ServerInit /\ LogInit /\ Init
  /\ instance \in {"timeout", "server", "entries", "subscribers", "iam"}

MCNext ==
  /\ UNCHANGED instance
  /\ \/ /\ instance = "timeout" /\ TimeoutNext
        /\ UNCHANGED <<serverVars, logVars, vars>>
     \/ /\ instance = "server" /\ ServerNext
        /\ UNCHANGED <<timeoutVars, logVars, vars>>
     \/ /\ instance \in {"entries", "subscribers"} /\ LogStep
        /\ UNCHANGED <<timeoutVars, serverVars, vars>>
     \/ /\ instance = "iam" /\ Next
        /\ UNCHANGED <<timeoutVars, serverVars, logVars>>

mcVars == <<instance, timeoutVars, serverVars, logVars, vars>>

\* ServerFairness, for the runs in which the server moves, and Fairness, for
\* those in which IAM moves.
MCSpec ==
  /\ MCInit /\ [][MCNext]_mcVars
  /\ \A r \in Requests : WF_serverVars(instance = "server" /\ ConnStep(r))
  /\ WF_serverVars(instance = "server" /\ CloseListener)
  /\ WF_vars(instance = "iam" /\ LoadStep)
  /\ WF_vars(instance = "iam" /\ Continue)
=============================================================================
