------------------------------ MODULE MCShell ------------------------------
(* The shell with two pages in the admin sidebar. *)
EXTENDS Shell

AdminNavItems == <<"/admin/dashboard", "/admin/quick-entry">>
=============================================================================
