----------------------------- MODULE MCCollector ----------------------------
EXTENDS Collector

CONSTANTS main, test, other, alice, bob

MCClosers == {main, test, other}
MCClients == {alice, bob}
=============================================================================
