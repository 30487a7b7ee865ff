--------------------------- MODULE MCHttpRequest ----------------------------
EXTENDS HttpRequest

NoBody == [kind |-> "none", names |-> << >>]

\* A request of header length 5 and nothing else: "G", then two ends of line
Get(path) ==
    [method |-> GET, path |-> path, json |-> FALSE, head |-> 5, content |-> 0,
     size |-> 5, blank |-> { <<2, 5>> }, lone |-> {}, bad |-> 0, body |-> NoBody]

\* With four bytes of JSON
Post(path, kind, names) ==
    [Get(path) EXCEPT !.method = POST, !.json = TRUE, !.content = 4, !.size = 9,
                      !.body = [kind |-> kind, names |-> names]]

ConfigGet == Post(<<"/", "config/", "get">>, "array", <<"CMD_GET_DR", "CMD_GET_NJM">>)
ConfigSet == Post(<<"/", "config/", "set">>, "object", <<"CMD_SET_DR", "CMD_SET_CFM">>)
Send      == Post(<<"/", "s", "end">>, "object", <<"data", "port">>)
SendB     == Post(<<"/", "s", "end", "b">>, "object", <<"port", "more", "data">>)

Whole == {Get(Paths[i].path) : i \in 1..5} \cup {ConfigGet, ConfigSet, Send, SendB}

\* Parts of a method, of the names of a send
Parts == { [Get(<<"/", "join">>) EXCEPT !.method = <<"G">>],
           [SendB EXCEPT !.method = <<"P">>],
           Post(<<"/", "s", "end">>, "object", <<"da", "p">>) }

\* An empty line within the content, empty lines or another request after the
\* request, a carriage return alone
Odd ==
    { [SendB EXCEPT !.blank = { <<2, 5>>, <<6, 8>> }],
      [Get(<<"/", "join">>) EXCEPT !.size = 7, !.blank = { <<2, 5>>, <<4, 7>> }],
      [ConfigGet EXCEPT !.size = 12, !.blank = { <<2, 5>>, <<10, 12>> }],
      [Send EXCEPT !.lone = {6}],
      [Send EXCEPT !.lone = {6}, !.size = 12, !.blank = { <<2, 5>>, <<10, 12>> }] }

\* No request, paths that are part of one or no part, contents that are
\* refused, ignored, cut off or too long
Wrong ==
    { [Get(<<"/", "reset">>) EXCEPT !.bad = 2], [Send EXCEPT !.method = <<"PUT">>], Get(<<"/">>), Get(<<"/", "s">>),
      Get(<<"/", "other">>), [Get(<<"/", "reset">>) EXCEPT !.json = TRUE],
      [Send EXCEPT !.content = 0], [Send EXCEPT !.content = 0, !.json = FALSE],
      [Send EXCEPT !.json = FALSE], [Send EXCEPT !.size = 8],
      [Send EXCEPT !.content = 9, !.size = 14],
      Post(<<"/", "config/", "get">>, "array", <<"CMD_GET_DR", "number">>),
      Post(<<"/", "config/", "get">>, "object", <<"CMD_GET_DR", "CMD_GET_DR">>),
      Post(<<"/", "config/", "set">>, "object", <<"CMD_SET_DR", "unknown">>),
      Post(<<"/", "config/", "set">>, "array", <<"CMD_SET_DR">>),
      Post(<<"/", "s", "end">>, "object", <<"data">>),
      Post(<<"/", "s", "end", "b">>, "array", << >>),
      Post(<<"/", "s", "end">>, "broken", << >>),
      [Post(<<"/", "reset">>, "object", << >>) EXCEPT !.method = GET] }

AllMessages == Whole \cup Parts \cup Odd \cup Wrong

SomeReplies == { << >>, <<"blank">>, <<"text", "blank">>,
                 <<"blank", "text", "blank", "text", "blank">> }
=============================================================================
