---------------------------- MODULE MCLifecycle -----------------------------
(***************************************************************************)
(* Instances of Lifecycle: the ways the program and its tests call it.     *)
(***************************************************************************)
EXTENDS Lifecycle

AllConfigs == [waits : BOOLEAN, startup : BOOLEAN, connectable : BOOLEAN,
               do_polls_min : {0, 2}, do_polls_max : {0, 3}]

\* The program with an address like tcp://*:4242, without a startup file.
WildcardConfigs == [waits : {TRUE}, startup : {FALSE}, connectable : {FALSE},
                    do_polls_min : {0}, do_polls_max : {0}]

\* The program with a startup file.
StartupConfigs == [waits : {TRUE}, startup : {TRUE}, connectable : {TRUE},
                   do_polls_min : {0}, do_polls_max : {0}]
=============================================================================
