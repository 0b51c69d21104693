---------------------------- MODULE MCPhishingFeed ----------------------------
(* A small instance of PhishingFeed: one host, which its parent domain may list. *)
EXTENDS PhishingFeed

CONSTANTS host, parent, other

MCHosts == {host}
MCNames == {parent, other}
MCCovering == [h \in MCHosts |-> {parent}]
MCFeeds == {{parent}, {other}, {}}
=============================================================================
