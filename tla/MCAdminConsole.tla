---------------------------- MODULE MCAdminConsole ----------------------------
(* AdminConsole on a small instance. *)
EXTENDS AdminConsole

\* One user has two devices, and another has one.
MCOwners == <<1, 2, 1>>

\* The archive is of a time before the second user, and before the third device.
MCArchive == <<1, None>>

===============================================================================
