----------------------------- MODULE MCService -----------------------------
(* Routing, Serve and Backup, each checked by itself: they share no state,   *)
(* and `subject` is the part that moves in a behaviour, so that the run      *)
(* explores the sum of their state spaces.  Routing comes three times: two   *)
(* processes in their first-run setup, an SMTP session, and a web request;   *)
(* session and request meet in the directory only, which both change.        *)
EXTENDS Routing, Serve, Backup

VARIABLE subject

MCDomainOf == [postmaster |-> "home", owner |-> "home", other |-> "second"]

MCInit ==
  /\ subject \in {"setup", "smtp", "web", "process", "backup"}
  /\ RoutingInit /\ ServeInit /\ BackupInit
  /\ subject # "backup" => \A b \in Backups : backup[b].to = CHOOSE d \in Destination : TRUE

\* A behaviour is followed until a message is stored.
MCRouting ==
  /\ stored = NothingStored
  /\ RoutingNext
  /\ subject # "smtp" => smtp' = smtp
  /\ subject # "web" => send' = send
  /\ subject # "setup" => (setup')["p2"] = "idle" /\ founders' \subseteq {"owner"}

MCNext ==
  /\ UNCHANGED subject
  /\ \/ /\ subject \in {"setup", "smtp", "web"} /\ MCRouting
        /\ UNCHANGED <<serveVars, backupVars>>
     \/ subject = "process" /\ ServeNext /\ UNCHANGED <<routingVars, backupVars>>
     \/ subject = "backup" /\ BackupNext /\ UNCHANGED <<routingVars, serveVars>>

\* Only Serve states fairness; it is about behaviours in which Serve moves.
MCSpec == MCInit /\ [][MCNext]_<<subject, routingVars, serveVars, backupVars>> /\ ServeFairness
=============================================================================
