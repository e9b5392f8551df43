---------------------------- MODULE AtomicInstall ----------------------------
(***************************************************************************)
(* What the release installer promises for one client: the installation    *)
(* (selected package, connection, credential, installation record and host *)
(* registration) changes in one indivisible switch, to a new package or    *)
(* back to the previous one, and a rollback keeps connection and           *)
(* credential.  Only the owner of the host configuration edits it.         *)
(***************************************************************************)
CONSTANTS Packages, Endpoints, Tokens,
          NoArg,   \* an option that was not given, a file that does not exist
          Catalog, \* the complete marketplace file of a registered client
          Hosts,   \* what a registration makes of a host configuration
          Edited   \* what its owner may make of a host configuration

VARIABLE inst

Fresh(host) ==
    [current |-> NoArg, config |-> NoArg, credential |-> NoArg, state |-> NoArg,
     host |-> host, catalog |-> NoArg]

\* package, connection and credential after an installation with these options
Install(package, url, token) ==
    /\ inst.config # NoArg \/ url # NoArg
    /\ inst' =
        [current |-> package,
         config |->
            [url |-> IF url # NoArg THEN url ELSE inst.config.url,
             own |-> token # NoArg \/ (inst.config # NoArg /\ inst.config.own)],
         credential |-> IF token # NoArg THEN token ELSE inst.credential,
         state |->
            [current |-> package,
             previous |-> IF inst.current # package THEN inst.current
                          ELSE inst.state.previous],
         host |-> Hosts[inst.host],
         catalog |-> Catalog]

Rollback ==
    /\ inst.state # NoArg
    /\ inst.state.previous # NoArg
    /\ inst' = [inst EXCEPT !.current = inst.state.previous,
                            !.state = [current |-> inst.state.previous,
                                       previous |-> inst.current]]

EditHost ==
    \E h \in Edited[inst.host] : inst' = [inst EXCEPT !.host = h]

Init == \E h \in DOMAIN Hosts : inst = Fresh(h)

Next ==
    \/ \E p \in Packages, u \in Endpoints \cup {NoArg}, t \in Tokens \cup {NoArg} :
          Install(p, u, t)
    \/ Rollback
    \/ EditHost

Spec == Init /\ [][Next]_inst
=============================================================================
