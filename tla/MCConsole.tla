----------------------------- MODULE MCConsole ------------------------------
EXTENDS Console

\* An arrow key sends three bytes, here two; ^C, ^S and ^Q one.
MCStr == [up |-> <<"ESC", "A">>, brk |-> <<"ETX">>]
MCKeys == DOMAIN MCStr
MCIdent == <<"id">>
MCBytes == {"ETX", "DC1", "DC3", "XON", "XOFF", "ENQ", "ESC", "A", "id"}
MCReports == {{}, {"up"}, {"brk", "lock", "mod"}}

=============================================================================
