------------------------------ MODULE MCKernelIO ------------------------------
(***************************************************************************)
(* TLC's instance of KernelIO.  A screen of 5 columns and 3 rows scrolls    *)
(* with every command and gives pingpong's ball one column; lines of 8 to   *)
(* 128 characters against rows of 80.  The image has files that end at, one *)
(* before and one behind the end of a block and of a read, in blocks that   *)
(* do not follow each other, an empty one, and a directory one short of     *)
(* full whose last name has no terminating 0.                               *)
(***************************************************************************)
EXTENDS KernelIO, TLC

Entry(name, type, inode) ==
  [file_name |-> name, file_type |-> type, inode_num |-> inode]

Root == <<Entry(<<".">>, 1, 0), Entry(<<"r">>, 0, 0), Entry(<<"p">>, 2, 0),
          Entry(<<"q">>, 2, 1), Entry(<<"p", "q">>, 2, 2), Entry(<<"z">>, 2, 3)>>

Inode(length, blocks) == [length |-> length, data_block_num |-> blocks]

Inodes == 0 :> Inode(7, <<3, 1>>) @@ 1 :> Inode(10, <<0, 4, 2>>)
          @@ 2 :> Inode(4, <<2>>) @@ 3 :> Inode(0, <<>>)

Blocks == 0 :> <<"a", "b", "c", "d">> @@ 1 :> <<"e", "f", "g", "h">>
          @@ 2 :> <<"i", "j", "k", "l">> @@ 3 :> <<"m", "n", "o", "p">>
          @@ 4 :> <<"q", "r", "s", "t">>

TwoLetters == <<"A", "Z">>

Run(kind, arg) == [kind |-> kind, arg |-> arg]
User(text, edits, commands, exits, hurried) ==
  [keys |-> {Printable(text[i]) : i \in DOMAIN text} \cup edits,
   text |-> text, commands |-> commands, exits |-> exits, hurried |-> hurried]

\* Three users edit lines, two of them with Tabs, one looks at files, three change
\* terminals, one of them with Tabs, and one leaves programs waiting for the RTC
\* behind.
Users ==
  {User(<<"a", "b", "c", "d", "e", "f", "g", "h">>, {Backspace, CtrlL, Enter}, {},
        FALSE, FALSE),
   User(<<"a", "b", "c", "d">>, {Tab, Backspace, CtrlL}, {}, FALSE, FALSE),
   User(<<"a", "b">>, {Tab, CtrlL, Enter}, {Run("hello", <<>>)}, FALSE, FALSE),
   User(<<"a">>, {Enter},
        {Run("ls", <<>>), Run("hello", <<>>)} \cup
        {Run("cat", arg) : arg \in {<<>>, <<"x">>, <<".">>, <<"p">>, <<"q">>,
                                    <<"p", "q">>, <<"p", "q", "r">>, <<"z">>}},
        FALSE, FALSE),
   User(<<"a">>, {Backspace, AltF(0), AltF(1)}, {}, FALSE, FALSE),
   User(<<"a">>, {Tab, AltF(0), AltF(1)}, {}, FALSE, FALSE),
   User(<<>>, {AltF(1), AltF(2), Enter}, {}, FALSE, FALSE),
   User(<<"a">>, {AltF(1), Enter}, {Run("cat", <<"r">>), Run("pingpong", <<>>)}, TRUE, TRUE)}

=============================================================================
