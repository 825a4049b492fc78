----------------------------- MODULE MCKeyMenus -----------------------------
(* The menus of one start of the loader, for TLC.                          *)
EXTENDS KeyMenus
=============================================================================
