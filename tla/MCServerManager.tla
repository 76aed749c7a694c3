-------------------------- MODULE MCServerManager --------------------------
(* A model of ServerManager for TLC.                                       *)
EXTENDS ServerManager

CONSTANTS c1, c2, s1, s2, r1, r2

\* A service with two threads; one with a thread, two clients, and one of these
\* terminated with requests of both kinds behind it; and sm.
MCDeployments ==
  [threads: {{s1, s2}}, deferral: {FALSE}, sync: {{c1}}, async: {{c1}}, mortal: {{}}]
  \cup [threads: {{s1}}, deferral: {FALSE}, sync: {{c1, c2}}, async: {{c1}}, mortal: {{c1}}]
  \cup [threads: {{s1}}, deferral: {TRUE}, sync: {{c1}}, async: {{}}, mortal: {{c1}}]
=============================================================================
