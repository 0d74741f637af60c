------------------------------ MODULE LKContext ------------------------------
(***************************************************************************)
(* The context list of the server (lkcontext.c).  A context ties the        *)
(* descriptors of one client session together; the server keeps all of      *)
(* them in one linked list, here a sequence, and finds a context by a       *)
(* descriptor number: always the FIRST node that carries the number.        *)
(*                                                                          *)
(* Descriptor 0 stands for "none", as in the code (standard input is never  *)
(* one of the server's descriptors).                                        *)
(***************************************************************************)
EXTENDS Integers, Sequences, SequencesExt

(***************************************************************************)
(* LKContextType, in lknet.h.                                               *)
(***************************************************************************)
CtxType == {"CTX_READ_REQ", "CTX_READ_CGI_OUTPUT", "CTX_WRITE_CGI_INPUT",
            "CTX_WRITE_RESP", "CTX_PROXY_WRITE_REQ", "CTX_PROXY_PIPE_RESP"}

(***************************************************************************)
(* LKContext.  items_cur is buflist->items_cur (which of head and body is   *)
(* being sent), respbuf says whether proxy_respbuf holds unsent bytes, and  *)
(* conn is a history field: the connection the context was created for.     *)
(***************************************************************************)
Context(Fd, Conn) ==
    [type : CtxType, selectfd : Fd, clientfd : Fd, cgifd : Fd, proxyfd : Fd,
     items_cur : 0..2, respbuf : BOOLEAN, conn : Conn]

create_initial_context(fd, c) ==
    [type |-> "CTX_READ_REQ", selectfd |-> fd, clientfd |-> fd,
     cgifd |-> 0, proxyfd |-> 0, items_cur |-> 0, respbuf |-> FALSE,
     conn |-> c]

\* lk_context_new() and the assignments of serve_cgi() to the context that is
\* to feed the request body to the CGI program.
cgi_input_context(fd_in, ctx) ==
    [type |-> "CTX_WRITE_CGI_INPUT", selectfd |-> fd_in,
     clientfd |-> ctx.clientfd, cgifd |-> fd_in, proxyfd |-> 0,
     items_cur |-> 0, respbuf |-> FALSE, conn |-> ctx.conn]

(***************************************************************************)
(* add_new_client_context compares the new clientfd with every node but     *)
(* the last (the loop stops at p->next = NULL); on a match nothing is       *)
(* added.                                                                   *)
(***************************************************************************)
add_new_client_context(list, ctx) ==
    IF \E i \in 1 .. Len(list) - 1 : list[i].clientfd = ctx.clientfd
    THEN list
    ELSE Append(list, ctx)

add_context(list, ctx) == Append(list, ctx)

\* Mutant of remove_client_context: compares the wrong descriptor.
RemoveBySelectfd(list, fd) ==
    RemoveFirstMatch(list, LAMBDA ctx : ctx.selectfd = fd)

remove_client_context(list, fd) ==
    RemoveFirstMatch(list, LAMBDA ctx : ctx.clientfd = fd)

remove_selectfd_context(list, fd) ==
    RemoveFirstMatch(list, LAMBDA ctx : ctx.selectfd = fd)

\* Mutant of match_select_ctx: compares the wrong descriptor.
MatchByClientfd(list, fd) ==
    SelectInSeq(list, LAMBDA ctx : ctx.clientfd = fd)

\* The position of the first context selected on fd, 0 for NULL.
match_select_ctx(list, fd) ==
    SelectInSeq(list, LAMBDA ctx : ctx.selectfd = fd)
=============================================================================
