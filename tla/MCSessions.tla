------------------------------ MODULE MCSessions ------------------------------
EXTENDS Sessions

\* Attempts that fail, requests that change the password and changes of the status are not all
\* mixed: together they only multiply each other's interleavings.
ThreeMixes ==
  {{"failure", "unlock", "toggle", "outage"}, {"change", "outage"},
   {"check", "toggle", "outage"}}

=============================================================================
