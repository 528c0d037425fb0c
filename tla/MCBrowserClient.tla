-------------------------- MODULE MCBrowserClient ---------------------------
(* BrowserClient for TLC: the API lists every host, in one order. *)
EXTENDS BrowserClient, TLC

CONSTANTS h1, h2

MCApiLists == {<<h1, h2>>}
============================================================================
