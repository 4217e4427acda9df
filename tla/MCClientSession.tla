--------------------------- MODULE MCClientSession ---------------------------
(***************************************************************************)
(* Small instances of ClientSession: one tab of one browser.             *)
(***************************************************************************)
EXTENDS ClientSession, TLC

CONSTANT t1

OneBrowser == [t \in Tabs |-> "chrome"]
=============================================================================
