------------------------------ MODULE MCRawConn ------------------------------
EXTENDS RawConn

\* Every kind of response but 1xx.
Answers == ResponseKinds \ {"interim"}
===============================================================================
