----------------------------- MODULE MCConnectTo ------------------------------
(* Every list of up to four addresses, two descriptors.                    *)
EXTENDS ConnectTo

MCFd == {3, 4}
==============================================================================
