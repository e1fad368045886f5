-------------------------------- MODULE MCBtAt --------------------------------
EXTENDS BtAt
\* hm11_assert with one entry of each kind, in the order they have in it: two
\* that only have to be right, two that can be set around one that cannot.
MCAsserted == <<"AT", "VERR", "NAME", "PIO1", "ROLE">>
MCReconfigured == {"NAME", "ROLE"}
==============================================================================
