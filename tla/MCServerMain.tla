------------------------------ MODULE MCServerMain ------------------------------
(* Small instances of ServerMain for TLC.                                  *)
EXTENDS ServerMain

Good(port, threads) ==
  [state |-> "good",
   values |-> [host |-> "::", port |-> port, threads |-> threads]]

\* resources/config.json, which leaves the server's members to the defaults.
RepositoryFile == {Good(8080, 1)}

\* Also files that cannot be read, and one with values of its own.
AllFiles ==
  {[state |-> "unusable"], [state |-> "no access"], [state |-> "wrong types"],
   Good(9090, 4)}
    \union RepositoryFile

\* Not given, and a port.
SomePorts == {0, 8081}
===============================================================================
