------------------------------- MODULE Sender -------------------------------
(***************************************************************************)
(* Devices::Sender (app/services/devices/sender.rb): the table of commands *)
(* a reader understands and what sending one comes to.                     *)
(*                                                                         *)
(* A command is its name, the `cmd' it becomes on the wire, and the number *)
(* of arguments its lambda takes after `ws'; the payload is left out.      *)
(***************************************************************************)
EXTENDS Naturals

Cmd(wire, arity) == [cmd |-> wire, arity |-> arity]

COMMANDS ==
  [ user_list     |-> Cmd("getuserlist", 0),
    user_info     |-> Cmd("getuserinfo", 1),
    set_user_info |-> Cmd("setuserinfo", 3),
    delete_user   |-> Cmd("deleteuser", 1),
    username      |-> Cmd("getusername", 1),
    set_username  |-> Cmd("setusername", 2),
    enable_user   |-> Cmd("enableuser", 2),
    clean_user    |-> Cmd("cleanuser", 0),
    get_new_log   |-> Cmd("getnewlog", 0),
    get_all_log   |-> Cmd("getalllog", 2),
    clean_log     |-> Cmd("cleanlog", 0),
    initsys       |-> Cmd("initsys", 0),
    reboot        |-> Cmd("reboot", 0),
    clean_admin   |-> Cmd("cleanadmin", 0),
    set_time      |-> Cmd("settime", 1) ]

\* COMMANDS[command] is nil: Sender.send logs `Comando desconhecido' and returns.
Unknown(command) == command \notin DOMAIN COMMANDS

\* The lambda, or the method it calls, raises ArgumentError.
BadArity(command, nargs) ==
  ~Unknown(command) /\ nargs # COMMANDS[command].arity

\* send_ws_command is reached and calls ws.send.
Sends(command, nargs) ==
  ~Unknown(command) /\ nargs = COMMANDS[command].arity
=============================================================================
