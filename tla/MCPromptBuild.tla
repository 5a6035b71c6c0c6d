------------------------------ MODULE MCPromptBuild ------------------------------
(***************************************************************************)
(* Conversations of four or five messages, and inputs of four items, of    *)
(* all the kinds that the code tells apart.                                *)
(***************************************************************************)
EXTENDS PromptBuild

Content(form, pieces) == [form |-> form, pieces |-> pieces]
NoContent == Content("nil", <<>>)
A(kind, n) == <<[kind |-> kind, of |-> n]>>
Message(role, content) == [role |-> role, content |-> content, reasoning |-> <<>>, calls |-> <<>>]

(* The n-th message of a conversation *)
ChatMessages(n) ==
  LET text == Content("string", A("text", n))
      parts == Content("parts", A("thought", n) \o A("text", n))
      thinks == [Message("assistant", text) EXCEPT !.reasoning = A("thought", n)]
      calls == [Message("assistant", NoContent) EXCEPT !.calls = A("call", n) \o A("call", n + 10)]
  IN {Message("user", text), Message("system", text), Message("system", parts),
      Message("developer", text), Message("assistant", parts), Message("assistant", NoContent),
      thinks, calls, Message("tool", text), Message("tool", NoContent),
      Message("user", Content("object", A("text", n)))}

Turn(n) == {Message("user", Content("string", A("text", n)))}

Item(type, m) == [type |-> type, role |-> m.role, content |-> m.content,
                  reasoning |-> m.reasoning, calls |-> m.calls]

(* The n-th item of an input *)
InputItems(n) ==
  LET text == Content("string", A("text", n))
      none == Message("", NoContent)
  IN {Item("message", Message("user", text)), Item("message", Message("developer", text)),
      Item("message", [Message("assistant", text) EXCEPT !.reasoning = A("thought", n)]),
      Item("message", Message("", Content("parts", A("text", n)))),
      Item("function_call", [none EXCEPT !.calls = A("call", n)]),
      Item("function_call", [none EXCEPT !.calls = A("unnamed", n)]),
      Item("function_call_output", Message("", text)),
      Item("reasoning", [none EXCEPT !.reasoning = A("thought", n)]),
      Item("string", Message("", text))}

MCChats ==
  {<<a, b, c, d>> : a \in ChatMessages(1), b \in ChatMessages(2),
                    c \in ChatMessages(3), d \in ChatMessages(4)}
  \cup {<<a, b, c, d, e>> : a \in ChatMessages(1), b \in Turn(2),
                            c \in ChatMessages(3), d \in ChatMessages(4), e \in Turn(5)}

MCInputs ==
  {<<a, b, c, d>> : a \in InputItems(1), b \in InputItems(2),
                    c \in InputItems(3), d \in InputItems(4)}

MCToolSets    == {{}, {1, 2}}
MCToolChoices == {[mode |-> "auto", name |-> 0, allowed |-> {}],
                  [mode |-> "forced", name |-> 1, allowed |-> {}]}
===============================================================================
