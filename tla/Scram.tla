------------------------------- MODULE Scram --------------------------------
(***************************************************************************)
(* cppevent_postgres: scram, the client's side of SCRAM-SHA-256.           *)
(*                                                                         *)
(* Hashes are terms: two are equal when they are made from equal parts.    *)
(* The base64 text of a key stands for the key.  Texts that are parsed are *)
(* kept in their form: nonces are sequences, a salt is base64 text, a      *)
(* number is its digits.  A message is the sequence of its attributes.     *)
(***************************************************************************)
EXTENDS Encoding
LOCAL INSTANCE SequencesExt

\* class scram before the first message.
EmptyScram == [m_client_nonce |-> <<>>, m_client_first_msg_bare |-> <<>>,
               m_server_first_msg |-> <<>>, m_server_nonce |-> <<>>,
               m_salt |-> <<>>, m_iterations |-> 0,
               m_expected_server_final_msg |-> <<>>]

generate_client_first_msg(s, user, client_nonce) ==
    [s EXCEPT !.m_client_nonce = client_nonce,
              !.m_client_first_msg_bare = <<user, client_nonce>>]

convert_to_num(input) == FoldLeft(LAMBDA n, c : n * 10 + (c - 48), 0, input)

ServerFirstMsgOK(s, params) ==
    /\ Len(params) = 3
    /\ Len(params[1]) >= Len(s.m_client_nonce)
    /\ SubSeq(params[1], 1, Len(s.m_client_nonce)) = s.m_client_nonce

\* Mutant: the salt is used as it was sent.
resolve_server_first_msg_raw(s, params) ==
    [s EXCEPT !.m_server_first_msg = params,
              !.m_server_nonce = params[1],
              !.m_salt = params[2],
              !.m_iterations = convert_to_num(params[3])]

resolve_server_first_msg(s, params) ==
    [s EXCEPT !.m_server_first_msg = params,
              !.m_server_nonce = params[1],
              !.m_salt = base64_decode(params[2]),
              !.m_iterations = convert_to_num(params[3])]

salted_password(password, salt, iterations) ==
    <<"pbkdf2", password, salt, iterations>>

hmac(key, input) == <<"hmac", key, input>>

sha(input) == <<"sha", input>>

\* The exclusive or of two keys: either is known from the other and this.
xor(a, b) == {a, b}

\* Mutant: the server's message is left out of what is signed.
auth_message_short(bare, server_first, nonce) == <<bare, nonce>>

auth_message(bare, server_first, nonce) == <<bare, server_first, nonce>>

\* generate_client_final_msg: the proof, and what the server should answer.
ClientProof(s, password) ==
    LET client_key == hmac(salted_password(password, s.m_salt, s.m_iterations),
                           "Client Key")
    IN  xor(client_key,
            hmac(sha(client_key),
                 auth_message(s.m_client_first_msg_bare, s.m_server_first_msg,
                              s.m_server_nonce)))

ExpectServerFinal(s, password) ==
    [s EXCEPT !.m_expected_server_final_msg =
        hmac(hmac(salted_password(password, s.m_salt, s.m_iterations),
                  "Server Key"),
             auth_message(s.m_client_first_msg_bare, s.m_server_first_msg,
                          s.m_server_nonce))]

verify_server_final_msg(s, msg) == msg = s.m_expected_server_final_msg

============================================================================
