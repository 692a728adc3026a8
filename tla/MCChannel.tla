------------------------------ MODULE MCChannel ------------------------------
(* Requests and lists of several lengths for Channel. *)
EXTENDS Channel

Some ==
    {Msg(0, <<>>, <<>>), Msg(GET, <<4>>, <<>>), Msg(GET_OK, <<7, 8>>, <<>>),
     Msg(PUT, <<1>>, <<3, 2>>), Msg(UPDATE_SERVER_LIST, <<2>>, <<5, 6, 5>>),
     Msg(SERVER_LIST_OK, <<0>>, <<>>)}
=============================================================================
