--------------------------- MODULE MCManagedServer --------------------------
(* Two runs over three dumps. *)
EXTENDS ManagedServer
MCDumps == <<"lib.libavtor", "lib.libavtorname", "lib.libbook">>
=============================================================================
